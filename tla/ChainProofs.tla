----------------------------- MODULE ChainProofs ----------------------------
(***************************************************************************)
(* Theorems about the chain with slots, for every set of nodes, accounts   *)
(* and transactions, every height and every loss, repetition and delay of  *)
(* blocks: the money of a node is the replay of its blocks, and where each *)
(* height has one owner no two logs fork.  The last parts are about the    *)
(* DAG, where the owners of slots do not matter: nothing counts twice, and *)
(* what is final stays below everything.                                   *)
(*                                                                         *)
(* The first part is about TxReplay, whose Run is a recursive function:    *)
(* its equations, by a shortest counterexample, and what follows from them *)
(* for a list of transactions applied to a database.                       *)
(***************************************************************************)
EXTENDS Chains, SumTheorems, SequenceTheorems

(***************************************************************************)
(* What a list of transactions does to a database: the function that Run   *)
(* is the last value of, and from it the equations of Run.                 *)
(***************************************************************************)
Steps(g, tab, txs, n) ==
    g = [i \in 0..n |-> IF i = 0 THEN [db |-> tab, applied |-> <<>>] ELSE TryTx(g[i - 1], txs[i])]

LEMMA RunIsChosen == \A tab, txs : Run(tab, txs) = (CHOOSE g : Steps(g, tab, txs, Len(txs)))[Len(txs)]
BY DEF Run, Steps

\* What Steps says at one place.
LEMMA StepsAt ==
    ASSUME NEW g, NEW tab, NEW txs, NEW n \in Nat, Steps(g, tab, txs, n), NEW i \in 0..n
    PROVE  g[i] = IF i = 0 THEN [db |-> tab, applied |-> <<>>] ELSE TryTx(g[i - 1], txs[i])
BY DEF Steps

LEMMA StepsLast ==
    ASSUME NEW g, NEW tab, NEW txs, NEW n \in Nat, n # 0, Steps(g, tab, txs, n)
    PROVE  g[n] = TryTx(g[n - 1], txs[n])
<1>1. n \in 0..n
  OBVIOUS
<1>2. PICK i \in 0..n : i = n
  BY <1>1
<1>3. g[i] = IF i = 0 THEN [db |-> tab, applied |-> <<>>] ELSE TryTx(g[i - 1], txs[i])
  BY <1>2 DEF Steps
<1> QED BY <1>2, <1>3

LEMMA StepsOneMore ==
    ASSUME NEW tab, NEW txs, NEW n \in Nat, NEW g, Steps(g, tab, txs, n)
    PROVE  \E h : Steps(h, tab, txs, n + 1)
<1> DEFINE h == [i \in 0..(n + 1) |->
                   IF i = 0 THEN [db |-> tab, applied |-> <<>>] ELSE TryTx(g[i - 1], txs[i])]
<1>1. ASSUME NEW i \in 0..(n + 1), i # 0 PROVE g[i - 1] = h[i - 1]
  <2>1. i - 1 \in 0..n /\ i - 1 \in 0..(n + 1)
    BY <1>1
  <2> QED BY <2>1, StepsAt
<1>2. h = [i \in 0..(n + 1) |->
             IF i = 0 THEN [db |-> tab, applied |-> <<>>] ELSE TryTx(h[i - 1], txs[i])]
  BY <1>1
<1>3. Steps(h, tab, txs, n + 1)
  BY <1>2 DEF Steps
<1> QED BY <1>3

LEMMA StepsExist ==
    ASSUME NEW tab, NEW txs
    PROVE  \A n \in Nat : \E g : Steps(g, tab, txs, n)
<1> DEFINE Bad == {n \in Nat : ~ \E g : Steps(g, tab, txs, n)}
<1> SUFFICES ASSUME Bad # {} PROVE FALSE
  OBVIOUS
<1>1. PICK n \in Bad : \A m \in Bad : n <= m
  BY LeastNat
<1>2. CASE n = 0
  <2> DEFINE g == [i \in 0..0 |-> [db |-> tab, applied |-> <<>>]]
  <2>1. g = [i \in 0..0 |-> IF i = 0 THEN [db |-> tab, applied |-> <<>>] ELSE TryTx(g[i - 1], txs[i])]
    OBVIOUS
  <2>2. Steps(g, tab, txs, 0)
    BY <2>1 DEF Steps
  <2> QED BY <1>2, <2>2
<1>3. CASE n # 0
  <2>1. n - 1 \in Nat /\ n - 1 \notin Bad /\ (n - 1) + 1 = n
    BY <1>1, <1>3
  <2>2. PICK g : Steps(g, tab, txs, n - 1)
    BY <2>1
  <2>3. \E h : Steps(h, tab, txs, (n - 1) + 1)
    BY <2>1, <2>2, StepsOneMore
  <2> QED BY <2>1, <2>3
<1> QED BY <1>2, <1>3

LEMMA RunSteps ==
    ASSUME NEW tab, NEW txs, Len(txs) \in Nat
    PROVE  \E g : Steps(g, tab, txs, Len(txs)) /\ Run(tab, txs) = g[Len(txs)]
<1>1. \E g : Steps(g, tab, txs, Len(txs))
  BY StepsExist
<1> QED BY <1>1, RunIsChosen

\* Two lists that agree have the same steps as far as they do.
LEMMA StepsUnique ==
    ASSUME NEW tab, NEW s, NEW t, NEW n \in Nat, NEW m \in Nat, n <= m,
           \A i \in 1..n : s[i] = t[i],
           NEW g, Steps(g, tab, s, n), NEW h, Steps(h, tab, t, m)
    PROVE  g[n] = h[n]
<1> DEFINE Bad == {i \in Nat : i <= n /\ g[i] # h[i]}
<1> SUFFICES ASSUME Bad # {} PROVE FALSE
  OBVIOUS
<1>1. PICK i \in Bad : \A j \in Bad : i <= j
  BY LeastNat
<1>2. i \in 0..n /\ i \in 0..m /\ g[i] # h[i]
  BY <1>1
<1>3. g[i] = IF i = 0 THEN [db |-> tab, applied |-> <<>>] ELSE TryTx(g[i - 1], s[i])
  BY <1>2, StepsAt
<1>4. h[i] = IF i = 0 THEN [db |-> tab, applied |-> <<>>] ELSE TryTx(h[i - 1], t[i])
  BY <1>2, StepsAt
<1>5. i # 0 /\ g[i - 1] # h[i - 1]
  <2>1. i # 0
    BY <1>2, <1>3, <1>4
  <2>2. s[i] = t[i]
    BY <1>2, <2>1
  <2> QED BY <1>2, <1>3, <1>4, <2>1, <2>2
<1>6. i - 1 \in Bad
  BY <1>2, <1>5
<1> HIDE DEF Bad
<1> QED BY <1>1, <1>2, <1>6

(* The equations of Run.                                                    *)

LEMMA RunNone == \A tab : Run(tab, <<>>) = [db |-> tab, applied |-> <<>>]
<1>1. SUFFICES ASSUME NEW tab PROVE Run(tab, <<>>) = [db |-> tab, applied |-> <<>>]
  OBVIOUS
<1> DEFINE none == <<>>
<1>2. Len(none) = 0
  OBVIOUS
<1> HIDE DEF none
<1>3. PICK g : Steps(g, tab, none, 0) /\ Run(tab, none) = g[0]
  BY <1>2, RunSteps
<1>4. g[0] = [db |-> tab, applied |-> <<>>]
  <2>1. 0 \in Nat /\ 0 \in 0..0
    OBVIOUS
  <2> QED BY <1>3, <2>1, StepsAt
<1> QED BY <1>3, <1>4 DEF none

LEMMA RunOneMore ==
    ASSUME NEW tab, NEW s \in Seq(Txs), NEW tx \in Txs
    PROVE  Run(tab, Append(s, tx)) = TryTx(Run(tab, s), tx)
<1> DEFINE t == Append(s, tx)
           n == Len(s)
<1>1. n \in Nat /\ Len(t) = n + 1 /\ t[n + 1] = tx /\ \A i \in 1..n : s[i] = t[i]
  OBVIOUS
<1>2. PICK g : Steps(g, tab, s, n) /\ Run(tab, s) = g[n]
  BY <1>1, RunSteps
<1> HIDE DEF t, n
<1>3. PICK k \in Nat : k = n + 1
  BY <1>1
<1>4. PICK h : Steps(h, tab, t, k) /\ Run(tab, t) = h[k]
  <2>1. Len(t) = k
    BY <1>1, <1>3
  <2> QED BY <2>1, RunSteps
<1>5. g[n] = h[n]
  <2>1. n <= k
    BY <1>1, <1>3
  <2> QED BY <1>1, <1>2, <1>4, <2>1, StepsUnique
<1>6. h[k] = TryTx(h[k - 1], t[k])
  <2>1. k # 0
    BY <1>1, <1>3
  <2> QED BY <1>4, <2>1, StepsLast
<1>7. k - 1 = n /\ t[k] = tx
  BY <1>1, <1>3
<1> QED BY <1>2, <1>4, <1>5, <1>6, <1>7 DEF t

-----------------------------------------------------------------------------
(***************************************************************************)
(* Databases.                                                              *)
(***************************************************************************)
DbType == [rows : SUBSET Accounts, nonce : [Accounts -> Int], balance : [Accounts -> Int]]
RunType == [db : DbType, applied : Seq(Txs)]

TxType == [sender : Accounts, nonce : Nat, to : Accounts, amount : Nat \ {0}]

LEMMA TxIs == \A tx \in Txs : tx \in TxType
BY ReplayAssumption DEF TxType

LEMMA ApplyTyped ==
    ASSUME NEW tab \in DbType, NEW tx \in Txs
    PROVE  ApplyTx(tab, tx) \in DbType
<1>1. tx \in TxType
  BY TxIs
<1>2. CASE Accepted(tab, tx)
  <2> DEFINE taken == [tab.balance EXCEPT ![tx.sender] = @ - tx.amount]
  <2>1. taken \in [Accounts -> Int]
    BY <1>1 DEF DbType, TxType
  <2>2. [taken EXCEPT ![tx.to] = @ + tx.amount] \in [Accounts -> Int]
    <3> HIDE DEF taken
    <3> QED BY <1>1, <2>1 DEF TxType
  <2>3. [tab.nonce EXCEPT ![tx.sender] = @ + 1] \in [Accounts -> Int]
    BY <1>1 DEF DbType, TxType
  <2>4. tab.rows \cup {tx.sender, tx.to} \in SUBSET Accounts
    BY <1>1 DEF DbType, TxType
  <2> QED BY <1>2, <2>2, <2>3, <2>4 DEF ApplyTx, DbType
<1>3. CASE ~ Accepted(tab, tx)
  BY <1>1, <1>3 DEF ApplyTx, DbType, TxType
<1> QED BY <1>2, <1>3

LEMMA TryTyped ==
    ASSUME NEW run \in RunType, NEW tx \in Txs
    PROVE  TryTx(run, tx) \in RunType
<1>1. run.db \in DbType /\ run.applied \in Seq(Txs)
  BY DEF RunType
<1>2. ApplyTx(run.db, tx) \in DbType
  BY <1>1, ApplyTyped
<1>3. Append(run.applied, tx) \in Seq(Txs)
  BY <1>1
<1> QED BY <1>1, <1>2, <1>3 DEF TryTx, RunType

\* Trying transactions one by one keeps the shape of a database.
LEMMA RunTyped ==
    ASSUME NEW tab \in DbType
    PROVE  \A s \in Seq(Txs) : Run(tab, s) \in RunType
<1> DEFINE P == {s \in Seq(Txs) : Run(tab, s) \in RunType}
<1>1. <<>> \in P
  <2>1. <<>> \in Seq(Txs)
    OBVIOUS
  <2>2. [db |-> tab, applied |-> <<>>] \in RunType
    BY <2>1 DEF RunType
  <2> QED BY <2>1, <2>2, RunNone
<1>2. ASSUME NEW t \in Seq(Txs), NEW x \in Txs, t \in P PROVE Append(t, x) \in P
  <2>1. TryTx(Run(tab, t), x) \in RunType
    BY <1>2, TryTyped
  <2>2. Append(t, x) \in Seq(Txs) /\ Run(tab, Append(t, x)) = TryTx(Run(tab, t), x)
    BY RunOneMore
  <2> QED BY <2>1, <2>2
<1> HIDE DEF P
<1>3. Seq(Txs) \subseteq P
  BY <1>1, <1>2, SeqInduction
<1> QED BY <1>3 DEF P

-----------------------------------------------------------------------------
(* One list after another, and a list on two databases.                     *)

\* What one transaction adds depends on the database only.
LEMMA TryParts ==
    ASSUME NEW run, NEW tx
    PROVE  /\ TryTx(run, tx).db = ApplyTx(run.db, tx)
           /\ TryTx(run, tx).applied
                = IF Accepted(run.db, tx) THEN Append(run.applied, tx) ELSE run.applied
BY DEF TryTx

LEMMA ConcatAppend ==
    ASSUME NEW S, NEW a \in Seq(S), NEW b \in Seq(S), NEW x \in S
    PROVE  a \o Append(b, x) = Append(a \o b, x)
OBVIOUS

\* Two lists one after the other.
LEMMA RunConcat ==
    ASSUME NEW tab \in DbType, NEW s \in Seq(Txs)
    PROVE  \A t \in Seq(Txs) :
             /\ Run(tab, s \o t).db = Run(Run(tab, s).db, t).db
             /\ Run(tab, s \o t).applied = Run(tab, s).applied \o Run(Run(tab, s).db, t).applied
<1> DEFINE mid == Run(tab, s).db
           P == {t \in Seq(Txs) :
                   /\ Run(tab, s \o t).db = Run(mid, t).db
                   /\ Run(tab, s \o t).applied = Run(tab, s).applied \o Run(mid, t).applied}
<1>0. mid \in DbType /\ Run(tab, s).applied \in Seq(Txs)
  BY RunTyped DEF RunType
<1>1. <<>> \in P
  <2>1. <<>> \in Seq(Txs) /\ s \o <<>> = s /\ Run(tab, s).applied \o <<>> = Run(tab, s).applied
    BY <1>0
  <2>2. Run(mid, <<>>).db = mid /\ Run(mid, <<>>).applied = <<>>
    BY RunNone
  <2> QED BY <2>1, <2>2
<1>2. ASSUME NEW t \in Seq(Txs), NEW x \in Txs, t \in P PROVE Append(t, x) \in P
  <2>1. /\ Run(tab, s \o t).db = Run(mid, t).db
        /\ Run(tab, s \o t).applied = Run(tab, s).applied \o Run(mid, t).applied
    BY <1>2
  <2>2. s \o t \in Seq(Txs) /\ Append(t, x) \in Seq(Txs) /\ s \o Append(t, x) = Append(s \o t, x)
    OBVIOUS
  <2>3. Run(tab, Append(s \o t, x)) = TryTx(Run(tab, s \o t), x)
    BY <2>2, RunOneMore
  <2>4. Run(mid, Append(t, x)) = TryTx(Run(mid, t), x)
    BY RunOneMore
  <2>5. Run(mid, t).applied \in Seq(Txs)
    BY <1>0, RunTyped DEF RunType
  <2> HIDE DEF mid
  <2>6. Run(tab, s \o Append(t, x)).db = Run(mid, Append(t, x)).db
    BY <2>1, <2>2, <2>3, <2>4, TryParts
  <2>7. Run(tab, s).applied \o Append(Run(mid, t).applied, x)
          = Append(Run(tab, s).applied \o Run(mid, t).applied, x)
    <3> DEFINE a == Run(tab, s).applied
               b == Run(mid, t).applied
    <3>1. a \in Seq(Txs) /\ b \in Seq(Txs)
      BY <1>0, <2>5
    <3> HIDE DEF a, b
    <3>2. a \o Append(b, x) = Append(a \o b, x)
      BY <3>1, ConcatAppend
    <3> QED BY <3>2 DEF a, b
  <2>8. Run(tab, s \o Append(t, x)).applied = Run(tab, s).applied \o Run(mid, Append(t, x)).applied
    <3>1. Run(mid, Append(t, x)).applied
            = IF Accepted(Run(mid, t).db, x) THEN Append(Run(mid, t).applied, x) ELSE Run(mid, t).applied
      BY <2>4, TryParts
    <3>2. Run(tab, s \o Append(t, x)).applied
            = IF Accepted(Run(tab, s \o t).db, x) THEN Append(Run(tab, s \o t).applied, x)
              ELSE Run(tab, s \o t).applied
      BY <2>2, <2>3, TryParts
    <3> QED BY <2>1, <2>7, <3>1, <3>2
  <2> QED BY <2>2, <2>6, <2>8
<1> HIDE DEF P
<1>3. Seq(Txs) \subseteq P
  BY <1>1, <1>2, SeqInduction
<1> QED BY <1>3 DEF P

\* Whether a transaction is accepted, and what it does to the columns, is a matter
\* of the columns: the rows that refused ones left do not count.
LEMMA ColumnsDecide ==
    ASSUME NEW d \in DbType, NEW e \in DbType, Columns(d) = Columns(e), NEW tx \in Txs
    PROVE  /\ Accepted(d, tx) <=> Accepted(e, tx)
           /\ Columns(ApplyTx(d, tx)) = Columns(ApplyTx(e, tx))
           /\ ~ Accepted(d, tx) => Columns(ApplyTx(d, tx)) = Columns(d)
<1>1. d.nonce = e.nonce /\ d.balance = e.balance
  BY DEF Columns
<1>2. Accepted(d, tx) <=> Accepted(e, tx)
  BY <1>1 DEF Accepted
<1>3. CASE Accepted(d, tx)
  BY <1>1, <1>2, <1>3 DEF ApplyTx, Columns
<1>4. CASE ~ Accepted(d, tx)
  BY <1>1, <1>2, <1>4 DEF ApplyTx, Columns, DbType
<1> QED BY <1>2, <1>3, <1>4

(* What was accepted is accepted again, all of it, on a database with the   *)
(* same columns, and does the same to them: a block that carries only the   *)
(* accepted transactions replays.                                           *)
LEMMA Replays ==
    ASSUME NEW d \in DbType, NEW e \in DbType, Columns(d) = Columns(e)
    PROVE  \A s \in Seq(Txs) :
             /\ Run(e, Run(d, s).applied).applied = Run(d, s).applied
             /\ Columns(Run(e, Run(d, s).applied).db) = Columns(Run(d, s).db)
<1> DEFINE P == {s \in Seq(Txs) :
                   /\ Run(e, Run(d, s).applied).applied = Run(d, s).applied
                   /\ Columns(Run(e, Run(d, s).applied).db) = Columns(Run(d, s).db)}
<1>1. <<>> \in P
  <2>1. <<>> \in Seq(Txs)
    OBVIOUS
  <2>2. /\ Run(d, <<>>).db = d /\ Run(d, <<>>).applied = <<>>
        /\ Run(e, <<>>).db = e /\ Run(e, <<>>).applied = <<>>
    BY RunNone
  <2> QED BY <2>1, <2>2
<1>2. ASSUME NEW t \in Seq(Txs), NEW x \in Txs, t \in P PROVE Append(t, x) \in P
  <2> DEFINE a == Run(d, t).applied
             now == Run(d, t).db
             then == Run(e, a).db
  <2>1. Run(e, a).applied = a /\ Columns(then) = Columns(now)
    BY <1>2
  <2>2. a \in Seq(Txs) /\ now \in DbType
    BY RunTyped DEF RunType
  <2>3. then \in DbType
    BY <2>2, RunTyped DEF RunType
  <2>4. /\ Run(d, Append(t, x)).db = ApplyTx(now, x)
        /\ Run(d, Append(t, x)).applied = IF Accepted(now, x) THEN Append(a, x) ELSE a
    BY RunOneMore, TryParts
  <2>5. /\ Run(e, Append(a, x)).db = ApplyTx(then, x)
        /\ Run(e, Append(a, x)).applied = IF Accepted(then, x) THEN Append(a, x) ELSE a
    <3>1. Run(e, Append(a, x)) = TryTx(Run(e, a), x)
      BY <2>2, RunOneMore
    <3>2. TryTx(Run(e, a), x).applied
            = IF Accepted(then, x) THEN Append(Run(e, a).applied, x) ELSE Run(e, a).applied
      BY TryParts
    <3>3. TryTx(Run(e, a), x).db = ApplyTx(then, x)
      BY TryParts
    <3> HIDE DEF then, a
    <3> QED BY <2>1, <3>1, <3>2, <3>3
  <2>6. Append(t, x) \in Seq(Txs)
    OBVIOUS
  <2> HIDE DEF then, now
  <2>7. /\ Accepted(now, x) <=> Accepted(then, x)
        /\ Columns(ApplyTx(now, x)) = Columns(ApplyTx(then, x))
        /\ ~ Accepted(now, x) => Columns(ApplyTx(now, x)) = Columns(now)
    BY <2>1, <2>2, <2>3, ColumnsDecide
  <2> HIDE DEF a
  <2>8. CASE Accepted(now, x)
    BY <2>4, <2>5, <2>6, <2>7, <2>8
  <2>9. CASE ~ Accepted(now, x)
    BY <2>1, <2>4, <2>6, <2>7, <2>9 DEF then
  <2> QED BY <2>8, <2>9
<1> HIDE DEF P
<1>3. Seq(Txs) \subseteq P
  BY <1>1, <1>2, SeqInduction
<1> QED BY <1>3 DEF P

LEMMA StrictSame ==
    ASSUME NEW d \in DbType, NEW e \in DbType, Columns(d) = Columns(e),
           NEW s \in Seq(Txs), AppliesStrictly(d, s)
    PROVE  AppliesStrictly(e, s) /\ Columns(Run(e, s).db) = Columns(Run(d, s).db)
BY Replays DEF AppliesStrictly

\* No more is accepted than was tried.
LEMMA RunShorter ==
    ASSUME NEW tab \in DbType
    PROVE  \A s \in Seq(Txs) : Len(Run(tab, s).applied) <= Len(s)
<1> DEFINE P == {s \in Seq(Txs) : Len(Run(tab, s).applied) <= Len(s)}
<1>1. <<>> \in P
  BY RunNone
<1>2. ASSUME NEW t \in Seq(Txs), NEW x \in Txs, t \in P PROVE Append(t, x) \in P
  <2> DEFINE a == Run(tab, t).applied
  <2>1. a \in Seq(Txs) /\ Len(a) <= Len(t)
    BY <1>2, RunTyped DEF RunType
  <2>2. \/ Run(tab, Append(t, x)).applied = Append(a, x)
        \/ Run(tab, Append(t, x)).applied = a
    BY RunOneMore, TryParts
  <2>3. Append(t, x) \in Seq(Txs)
    OBVIOUS
  <2> HIDE DEF a
  <2>4. /\ Len(Append(a, x)) = Len(a) + 1 /\ Len(Append(t, x)) = Len(t) + 1
        /\ Len(a) \in Nat /\ Len(t) \in Nat
    BY <2>1
  <2> QED BY <2>1, <2>2, <2>3, <2>4
<1> HIDE DEF P
<1>3. Seq(Txs) \subseteq P
  BY <1>1, <1>2, SeqInduction
<1> QED BY <1>3 DEF P

\* A strict replay is strict up to its last transaction, which is then accepted.
LEMMA StrictFront ==
    ASSUME NEW tab \in DbType, NEW t \in Seq(Txs), NEW x \in Txs, AppliesStrictly(tab, Append(t, x))
    PROVE  AppliesStrictly(tab, t) /\ Accepted(Run(tab, t).db, x)
<1> DEFINE a == Run(tab, t).applied
<1>1. a \in Seq(Txs) /\ Len(a) <= Len(t)
  BY RunTyped, RunShorter DEF RunType
<1>2. (IF Accepted(Run(tab, t).db, x) THEN Append(a, x) ELSE a) = Append(t, x)
  BY RunOneMore, TryParts DEF AppliesStrictly
<1> HIDE DEF a
<1>3. a # Append(t, x)
  BY <1>1
<1>4. Append(a, x) = Append(t, x) => a = t
  BY <1>1
<1> QED BY <1>2, <1>3, <1>4 DEF AppliesStrictly, a

-----------------------------------------------------------------------------
(* Nonces.                                                                  *)

\* What an accepted transaction does to the nonces, and a refused one does not.
LEMMA NonceOf ==
    ASSUME NEW tab \in DbType, NEW tx \in Txs
    PROVE  \A a \in Accounts :
             ApplyTx(tab, tx).nonce[a]
               = tab.nonce[a] + IF Accepted(tab, tx) /\ a = tx.sender THEN 1 ELSE 0
<1>1. tx \in TxType
  BY TxIs
<1>2. CASE Accepted(tab, tx)
  <2>1. ApplyTx(tab, tx).nonce = [tab.nonce EXCEPT ![tx.sender] = @ + 1]
    BY <1>2 DEF ApplyTx
  <2> QED BY <1>1, <1>2, <2>1 DEF DbType, TxType
<1>3. CASE ~ Accepted(tab, tx)
  <2>1. ApplyTx(tab, tx).nonce = tab.nonce
    BY <1>3 DEF ApplyTx, DbType
  <2> QED BY <1>3, <2>1 DEF DbType
<1> QED BY <1>2, <1>3

\* A list moves the nonces by the same amount wherever it applies strictly.
LEMMA SameIncrease ==
    ASSUME NEW d \in DbType, NEW e \in DbType
    PROVE  \A s \in Seq(Txs) : AppliesStrictly(d, s) /\ AppliesStrictly(e, s) =>
             \A a \in Accounts : Run(d, s).db.nonce[a] - d.nonce[a] = Run(e, s).db.nonce[a] - e.nonce[a]
<1> DEFINE P == {s \in Seq(Txs) : AppliesStrictly(d, s) /\ AppliesStrictly(e, s) =>
                   \A a \in Accounts :
                      Run(d, s).db.nonce[a] - d.nonce[a] = Run(e, s).db.nonce[a] - e.nonce[a]}
<1>1. <<>> \in P
  <2>1. <<>> \in Seq(Txs) /\ Run(d, <<>>).db = d /\ Run(e, <<>>).db = e
    BY RunNone
  <2>2. \A a \in Accounts : d.nonce[a] - d.nonce[a] = e.nonce[a] - e.nonce[a]
    BY DEF DbType
  <2> QED BY <2>1, <2>2
<1>2. ASSUME NEW t \in Seq(Txs), NEW x \in Txs, t \in P PROVE Append(t, x) \in P
  <2>0. Append(t, x) \in Seq(Txs)
    OBVIOUS
  <2> SUFFICES ASSUME AppliesStrictly(d, Append(t, x)), AppliesStrictly(e, Append(t, x)),
                      NEW a \in Accounts
               PROVE  Run(d, Append(t, x)).db.nonce[a] - d.nonce[a]
                        = Run(e, Append(t, x)).db.nonce[a] - e.nonce[a]
    BY <2>0
  <2> DEFINE dt == Run(d, t).db
             et == Run(e, t).db
  <2>1. AppliesStrictly(d, t) /\ Accepted(dt, x) /\ AppliesStrictly(e, t) /\ Accepted(et, x)
    BY StrictFront
  <2>2. dt.nonce[a] - d.nonce[a] = et.nonce[a] - e.nonce[a]
    BY <1>2, <2>1
  <2>3. Run(d, Append(t, x)).db = ApplyTx(dt, x) /\ Run(e, Append(t, x)).db = ApplyTx(et, x)
    BY RunOneMore, TryParts
  <2>4. dt \in DbType /\ et \in DbType
    BY RunTyped DEF RunType
  <2> HIDE DEF dt, et
  <2>5. ApplyTx(dt, x).nonce[a] = dt.nonce[a] + IF a = x.sender THEN 1 ELSE 0
    BY <2>1, <2>4, NonceOf
  <2>6. ApplyTx(et, x).nonce[a] = et.nonce[a] + IF a = x.sender THEN 1 ELSE 0
    BY <2>1, <2>4, NonceOf
  <2>7. /\ dt.nonce[a] \in Int /\ et.nonce[a] \in Int /\ d.nonce[a] \in Int /\ e.nonce[a] \in Int
    BY <2>4 DEF DbType
  <2> QED BY <2>2, <2>3, <2>5, <2>6, <2>7
<1> HIDE DEF P
<1>3. Seq(Txs) \subseteq P
  BY <1>1, <1>2, SeqInduction
<1> QED BY <1>3 DEF P

\* Nonces never fall, and some nonce rises wherever a transaction is accepted.
AtMost(d, e) == \A a \in Accounts : d.nonce[a] <= e.nonce[a]
Below(d, e) == AtMost(d, e) /\ \E a \in Accounts : d.nonce[a] < e.nonce[a]

LEMMA BelowFacts ==
    ASSUME NEW c \in DbType, NEW d \in DbType, NEW e \in DbType
    PROVE  /\ Below(c, d) /\ Below(d, e) => Below(c, e)
           /\ AtMost(c, d) /\ AtMost(d, e) => AtMost(c, e)
           /\ ~ (Below(c, d) /\ AtMost(d, c))
           /\ AtMost(c, c)
<1>1. \A a \in Accounts : c.nonce[a] \in Int /\ d.nonce[a] \in Int /\ e.nonce[a] \in Int
  BY DEF DbType
<1> QED BY <1>1 DEF Below, AtMost

LEMMA RunRises ==
    ASSUME NEW tab \in DbType
    PROVE  \A s \in Seq(Txs) : AtMost(tab, Run(tab, s).db)
<1> DEFINE P == {s \in Seq(Txs) : AtMost(tab, Run(tab, s).db)}
<1>1. <<>> \in P
  BY RunNone, BelowFacts
<1>2. ASSUME NEW t \in Seq(Txs), NEW x \in Txs, t \in P PROVE Append(t, x) \in P
  <2> DEFINE dt == Run(tab, t).db
  <2>1. dt \in DbType /\ AtMost(tab, dt)
    BY <1>2, RunTyped DEF RunType
  <2>2. Run(tab, Append(t, x)).db = ApplyTx(dt, x)
    BY RunOneMore, TryParts
  <2>3. ApplyTx(dt, x) \in DbType
    BY <2>1, ApplyTyped
  <2>4. AtMost(dt, ApplyTx(dt, x))
    <3> HIDE DEF dt
    <3>1. ASSUME NEW a \in Accounts PROVE dt.nonce[a] <= ApplyTx(dt, x).nonce[a]
      <4>1. dt.nonce[a] \in Int /\ ApplyTx(dt, x).nonce[a]
                = dt.nonce[a] + IF Accepted(dt, x) /\ a = x.sender THEN 1 ELSE 0
        BY <2>1, NonceOf DEF DbType
      <4> QED BY <4>1
    <3> QED BY <3>1 DEF AtMost
  <2>5. Append(t, x) \in Seq(Txs)
    OBVIOUS
  <2> HIDE DEF dt
  <2>6. AtMost(tab, ApplyTx(dt, x))
    BY <2>1, <2>3, <2>4, BelowFacts
  <2> QED BY <2>2, <2>5, <2>6
<1> HIDE DEF P
<1>3. Seq(Txs) \subseteq P
  BY <1>1, <1>2, SeqInduction
<1> QED BY <1>3 DEF P

LEMMA StrictRises ==
    ASSUME NEW tab \in DbType, NEW s \in Seq(Txs), s # <<>>, AppliesStrictly(tab, s)
    PROVE  Below(tab, Run(tab, s).db)
<1>1. PICK t \in Seq(Txs), x \in Txs : s = Append(t, x)
  BY SeqFront
<1> DEFINE dt == Run(tab, t).db
<1>2. Accepted(dt, x) /\ dt \in DbType /\ AtMost(tab, dt)
  BY <1>1, StrictFront, RunTyped, RunRises DEF RunType
<1>3. Run(tab, s).db = ApplyTx(dt, x)
  BY <1>1, RunOneMore, TryParts
<1>4. AtMost(tab, Run(tab, s).db)
  BY RunRises
<1> HIDE DEF dt
<1>5. x.sender \in Accounts
  BY TxIs DEF TxType
<1>6. tab.nonce[x.sender] < Run(tab, s).db.nonce[x.sender]
  <2>1. ApplyTx(dt, x).nonce[x.sender] = dt.nonce[x.sender] + 1
    BY <1>2, <1>5, NonceOf
  <2>2. tab.nonce[x.sender] <= dt.nonce[x.sender]
    BY <1>2, <1>5 DEF AtMost
  <2>3. tab.nonce[x.sender] \in Int /\ dt.nonce[x.sender] \in Int
    BY <1>2, <1>5 DEF DbType
  <2> QED BY <1>3, <2>1, <2>2, <2>3
<1> QED BY <1>4, <1>5, <1>6 DEF Below

\* If one list leads from d and from e to the same nonces, then d and e have the same.
LEMMA SameFrom ==
    ASSUME NEW d \in DbType, NEW e \in DbType, NEW s \in Seq(Txs),
           AppliesStrictly(d, s), AppliesStrictly(e, s),
           Run(d, s).db.nonce = Run(e, s).db.nonce
    PROVE  AtMost(d, e) /\ AtMost(e, d)
<1>1. ASSUME NEW a \in Accounts PROVE d.nonce[a] = e.nonce[a]
  <2>1. Run(d, s).db.nonce[a] - d.nonce[a] = Run(e, s).db.nonce[a] - e.nonce[a]
    BY SameIncrease
  <2>2. Run(d, s).db.nonce[a] = Run(e, s).db.nonce[a]
    OBVIOUS
  <2>3. d.nonce[a] \in Int /\ e.nonce[a] \in Int /\ Run(d, s).db.nonce[a] \in Int
    <3>1. Run(d, s).db \in DbType
      BY RunTyped DEF RunType
    <3> QED BY <3>1 DEF DbType
  <2> QED BY <2>1, <2>2, <2>3
<1>2. \A a \in Accounts : d.nonce[a] \in Int
  BY DEF DbType
<1> QED BY <1>1, <1>2 DEF AtMost

-----------------------------------------------------------------------------
LEMMA WithoutTyped ==
    ASSUME NEW txs \in Seq(Txs), NEW gone
    PROVE  Without(txs, gone) \in Seq(Txs)
<1> DEFINE parts == [i \in DOMAIN txs |-> IF txs[i] \in gone THEN <<>> ELSE <<txs[i]>>]
<1>1. parts \in Seq(Seq(Txs))
  <2>1. PICK k \in Nat : k = Len(txs) /\ DOMAIN txs = 1..k /\ \A i \in 1..k : txs[i] \in Txs
    OBVIOUS
  <2>2. \A i \in 1..k : (IF txs[i] \in gone THEN <<>> ELSE <<txs[i]>>) \in Seq(Txs)
    BY <2>1
  <2>3. parts \in [1..k -> Seq(Txs)]
    BY <2>1, <2>2
  <2> HIDE DEF parts
  <2> QED BY <2>1, <2>3
<1> HIDE DEF parts
<1>2. FlattenSeq(parts) \in Seq(Txs)
  BY <1>1, FlattenTyped
<1> QED BY <1>2 DEF Without, parts

LEMMA GenesisTyped == Genesis \in DbType
BY ReplayAssumption DEF Genesis, DbType

(***************************************************************************)
(* Types: of what a block is made of, and of what is on its way into one.  *)
(***************************************************************************)
\* What sync_from_peers has at hand while it runs
SyncType == [left : SUBSET Nodes, peer : Nodes \cup {NoPeer}, mine : Nat, top : Nat]

Block == [height : Nat, by : Nodes, txs : Seq(Txs), root : DbType]

TypeInv ==
    /\ db \in [Nodes -> DbType]
    /\ log \in [Nodes -> Seq(Block)]
    /\ mempool \in [Nodes -> Seq(Txs)]
    /\ batch \in [Nodes -> Seq(Txs)]
    /\ round \in [Nodes -> 0..MaxHeight]
    /\ sync \in [Nodes -> SyncType \cup {NoSync}]

LEMMA SealedTyped ==
    ASSUME TypeInv, NEW b \in Sealed
    PROVE  /\ b \in Block
           /\ \E m \in Nodes : \E i \in 1..Len(log[m]) : b = log[m][i]
<1>1. PICK m \in Nodes : b \in ToSet(log[m])
  BY DEF Sealed
<1>2. log[m] \in Seq(Block)
  BY DEF TypeInv
<1>3. PICK i \in DOMAIN log[m] : b = log[m][i]
  BY <1>1 DEF ToSet
<1> QED BY <1>2, <1>3

\* A block goes to the end of n's log, and moves n's columns as a replay of it does.
Grows(n, b) ==
    /\ log' = [log EXCEPT ![n] = Append(@, b)]
    /\ AppliesStrictly(db[n], b.txs)
    /\ \E d \in DbType : db' = [db EXCEPT ![n] = d] /\ Columns(d) = Columns(Run(db[n], b.txs).db)
    /\ db'[n] = b.root
    /\ b \in Block

\* A node seals what it tried, less what was refused.
LEMMA SealGrows ==
    ASSUME TypeInv, ProducerAssumption, NEW n \in Nodes, Seal(n)
    PROVE  \/ UNCHANGED storeVars
           \/ \E b \in Block : /\ Grows(n, b) /\ b.txs # <<>>
                               /\ b.height = round[n] /\ batch[n] # <<>>
<1> DEFINE run == Run(db[n], batch[n])
           block == [height |-> round[n], by |-> n, txs |-> run.applied, root |-> run.db]
<1>1. /\ db[n] \in DbType /\ batch[n] \in Seq(Txs) /\ round[n] \in Nat
      /\ db \in [Nodes -> DbType]
  BY DEF TypeInv, ProducerAssumption
<1>2. run.db \in DbType /\ run.applied \in Seq(Txs)
  BY <1>1, RunTyped DEF RunType
<1>3. /\ AppliesStrictly(db[n], run.applied)
      /\ Columns(Run(db[n], run.applied).db) = Columns(run.db)
  BY <1>1, Replays DEF AppliesStrictly
<1>4. CASE run.applied = <<>>
  BY <1>4 DEF Seal
<1>5. CASE run.applied # <<>>
  <2>1. /\ batch[n] # <<>> /\ db' = [db EXCEPT ![n] = run.db]
        /\ log' = [log EXCEPT ![n] = Append(@, block)]
    BY <1>5 DEF Seal
  <2>2. block \in Block
    BY <1>1, <1>2 DEF Block
  <2>3. /\ block.txs = run.applied /\ block.height = round[n] /\ block.root = run.db
    OBVIOUS
  <2>4. db'[n] = run.db
    BY <1>1, <2>1
  <2> HIDE DEF block, run
  <2>5. Grows(n, block)
    BY <1>2, <1>3, <2>1, <2>2, <2>3, <2>4 DEF Grows
  <2> QED BY <1>5, <2>1, <2>2, <2>3, <2>5
<1> QED BY <1>4, <1>5

\* A block that is imported applies strictly to what the importer has.
LEMMA ImportGrows ==
    ASSUME TypeInv, NEW n \in Nodes, NEW b \in Sealed, ImportBlock(n, b)
    PROVE  \/ UNCHANGED <<storeVars, mempool, producerVars>>
           \/ /\ Grows(n, b)
              /\ Run(db[n], b.txs).db = b.root
              /\ UNCHANGED producerVars
              /\ mempool' = [mempool EXCEPT ![n] = Without(@, ToSet(b.txs))]
<1>1. /\ db[n] \in DbType /\ db \in [Nodes -> DbType] /\ b \in Block
  BY SealedTyped DEF TypeInv
<1>2. b.txs \in Seq(Txs)
  BY <1>1 DEF Block
<1>3. CASE b \notin seenBlocks[n] /\ Importable(n, b)
  <2>1. AppliesStrictly(db[n], b.txs) /\ Run(db[n], b.txs).db = b.root
    BY <1>3 DEF Importable
  <2>2. /\ db' = [db EXCEPT ![n] = Run(@, b.txs).db]
        /\ log' = [log EXCEPT ![n] = Append(@, b)]
        /\ mempool' = [mempool EXCEPT ![n] = Without(@, ToSet(b.txs))]
        /\ UNCHANGED producerVars
    BY <1>3 DEF ImportBlock, producerVars
  <2>3. PICK d \in DbType : d = Run(db[n], b.txs).db
    BY <1>1, <1>2, RunTyped DEF RunType
  <2>4. db' = [db EXCEPT ![n] = d] /\ db'[n] = d
    BY <1>1, <2>2, <2>3
  <2>5. Grows(n, b)
    BY <1>1, <2>1, <2>2, <2>3, <2>4 DEF Grows
  <2> QED BY <2>1, <2>2, <2>5
<1>4. CASE ~ (b \notin seenBlocks[n] /\ Importable(n, b))
  BY <1>4 DEF ImportBlock
<1> QED BY <1>3, <1>4

-----------------------------------------------------------------------------
(* The types of a step, one kind of step at a time.                         *)

\* Some value of a finite list of numbers is the greatest.
LEMMA HasMax ==
    \A n \in Nat \ {0} : \A f \in [1..n -> Nat] : \E i \in 1..n : \A j \in 1..n : f[j] <= f[i]
<1> DEFINE Fails(n, f) == \A i \in 1..n : \E j \in 1..n : ~ (f[j] <= f[i])
           Bad == {n \in Nat : n # 0 /\ \E f \in [1..n -> Nat] : Fails(n, f)}
<1> SUFFICES ASSUME Bad # {} PROVE FALSE
  OBVIOUS
<1>1. PICK n \in Bad : \A m \in Bad : n <= m
  BY LeastNat
<1>2. PICK f \in [1..n -> Nat] : Fails(n, f)
  BY <1>1
<1>3. n \in Nat /\ n # 0
  BY <1>1
<1>4. \A m \in Nat : \A g \in [1..m -> Nat] :
        m # 0 /\ ~ (n <= m) => \E i \in 1..m : \A j \in 1..m : g[j] <= g[i]
  BY <1>1
<1>5. \A i \in 1..n : \E j \in 1..n : ~ (f[j] <= f[i])
  BY <1>2
<1>6. \A i \in 1..n : f[i] \in Nat
  OBVIOUS
<1> HIDE DEF Bad, Fails
<1>7. CASE n = 1
  <2>1. PICK j \in 1..n : ~ (f[j] <= f[1])
    BY <1>5, <1>7
  <2>2. j = 1
    BY <1>7
  <2> QED BY <1>6, <1>7, <2>1, <2>2
<1>8. CASE n # 1
  <2>1. PICK m \in Nat : m = n - 1 /\ m # 0 /\ ~ (n <= m)
    BY <1>3, <1>8
  <2> DEFINE g == [j \in 1..m |-> f[j]]
  <2>2. \A j \in 1..m : j \in 1..n /\ g[j] = f[j]
    BY <1>3, <2>1
  <2>3. g \in [1..m -> Nat]
    BY <1>6, <2>2
  <2> HIDE DEF g
  <2>4. PICK i \in 1..m : \A j \in 1..m : g[j] <= g[i]
    BY <1>4, <2>1, <2>3
  <2>5. n \in 1..n /\ i \in 1..n /\ f[i] \in Nat /\ f[n] \in Nat
    BY <1>3, <1>6, <2>2
  <2>6. ASSUME NEW j \in 1..n PROVE f[j] \in Nat /\ (j = n \/ f[j] <= f[i])
    <3>1. j = n \/ j \in 1..m
      BY <1>3, <2>1
    <3> QED BY <1>6, <2>2, <2>4, <3>1
  <2>7. CASE f[n] <= f[i]
    <3>1. PICK j \in 1..n : ~ (f[j] <= f[i])
      BY <1>5, <2>5
    <3> QED BY <2>6, <2>7, <3>1
  <2>8. CASE ~ (f[n] <= f[i])
    <3>1. PICK j \in 1..n : ~ (f[j] <= f[n])
      BY <1>5, <2>5
    <3> QED BY <2>5, <2>6, <2>8, <3>1
  <2> QED BY <2>7, <2>8
<1> QED BY <1>7, <1>8

\* A log that has blocks has a highest one.
LEMMA HasTop ==
    ASSUME NEW l \in Seq(Block), Len(l) # 0
    PROVE  \E i \in 1..Len(l) : \A j \in 1..Len(l) : l[i].height >= l[j].height
<1>1. PICK k \in Nat \ {0} : k = Len(l)
  OBVIOUS
<1>2. \A i \in 1..k : l[i].height \in Nat
  <2>1. \A i \in 1..k : l[i] \in Block
    BY <1>1
  <2> QED BY <2>1 DEF Block
<1> DEFINE f == [i \in 1..k |-> l[i].height]
<1>3. f \in [1..k -> Nat]
  BY <1>2
<1>4. PICK i \in 1..k : \A j \in 1..k : f[j] <= f[i]
  <2> HIDE DEF f
  <2> QED BY <1>3, HasMax
<1> QED BY <1>1, <1>2, <1>4

\* TopHeight is the greatest of the heights, 0 without blocks.
LEMMA TopIs ==
    ASSUME TypeInv, NEW n \in Nodes
    PROVE  /\ TopHeight(n) \in Nat
           /\ log[n] # <<>> => /\ TopHeight(n) \in Heights(n)
                               /\ \A h \in Heights(n) : h <= TopHeight(n)
<1>1. log[n] \in Seq(Block)
  BY DEF TypeInv
<1>2. CASE log[n] = <<>>
  <2>1. TopHeight(n) = 0
    BY <1>2 DEF TopHeight
  <2> QED BY <1>2, <2>1
<1>3. CASE log[n] # <<>>
  <2>1. PICK i \in 1..Len(log[n]) : \A j \in 1..Len(log[n]) : log[n][i].height >= log[n][j].height
    <3>1. Len(log[n]) # 0
      BY <1>1, <1>3, NoLength
    <3> QED BY <1>1, <3>1, HasTop
  <2>2. \A j \in DOMAIN log[n] : log[n][j].height \in Nat /\ DOMAIN log[n] = 1..Len(log[n])
    <3>1. \A j \in DOMAIN log[n] : log[n][j] \in Block /\ DOMAIN log[n] = 1..Len(log[n])
      BY <1>1
    <3> QED BY <3>1 DEF Block
  <2>3. log[n][i].height \in Heights(n) /\ \A h \in Heights(n) : log[n][i].height >= h
    BY <2>1, <2>2 DEF Heights
  <2>4. \A h \in Heights(n) : h \in Nat
    BY <2>2 DEF Heights
  <2>5. TopHeight(n) \in Heights(n) /\ \A h \in Heights(n) : TopHeight(n) >= h
    BY <1>3, <2>3 DEF TopHeight, Max
  <2> QED BY <2>4, <2>5
<1> QED BY <1>2, <1>3

LEMMA TypeInit == ProducerAssumption /\ Init => TypeInv
<1> SUFFICES ASSUME ProducerAssumption, Init PROVE TypeInv
  OBVIOUS
<1>1. <<>> \in Seq(Txs) /\ <<>> \in Seq(Block) /\ 0 \in 0..MaxHeight
  BY DEF ProducerAssumption
<1> QED BY <1>1, GenesisTyped DEF Init, TypeInv

LEMMA GrowsTyped ==
    ASSUME TypeInv, NEW n \in Nodes, NEW b, Grows(n, b)
    PROVE  db' \in [Nodes -> DbType] /\ log' \in [Nodes -> Seq(Block)]
<1>1. PICK d \in DbType : db' = [db EXCEPT ![n] = d]
  BY DEF Grows
<1>2. b \in Block /\ log' = [log EXCEPT ![n] = Append(@, b)]
  BY DEF Grows
<1>3. Append(log[n], b) \in Seq(Block)
  BY <1>2 DEF TypeInv
<1> QED BY <1>1, <1>2, <1>3 DEF TypeInv

\* What is not a block that goes into a log
PoolStep(n) ==
    \/ \E tx \in Txs : SubmitTx(n, tx)
    \/ ReadHeight(n) \/ DrainMempool(n) \/ SealFails(n) \/ Restart(n)

SyncStep(n) ==
    \/ SyncPeerDone(n) \/ SyncPeerFails(n) \/ SyncDone(n)
    \/ \E m \in Nodes : SyncPeer(n, m)

\* Every step is one of these, or seals a block, or imports one.
LEMMA StepKinds ==
    ASSUME TypeInv, Next
    PROVE  \E n \in Nodes : \/ PoolStep(n) \/ SyncStep(n) \/ Seal(n)
                            \/ \E b \in Sealed : GossipBlock(n, b)
                            \/ SyncBlock(n)
<1>1. PICK n \in Nodes :
        \/ \E tx \in Txs : SubmitTx(n, tx)
        \/ ReadHeight(n) \/ DrainMempool(n) \/ Seal(n) \/ SealFails(n)
        \/ \E b \in Sealed : GossipBlock(n, b)
        \/ Restart(n)
        \/ Sync(n) \/ SyncPeerFails(n)
  BY DEF Next
<1> QED BY <1>1 DEF Sync, PoolStep, SyncStep

\* What sync_from_peers imports is a sealed block of the peer it asks.
LEMMA SyncBlockImports ==
    ASSUME TypeInv, NEW n \in Nodes, SyncBlock(n)
    PROVE  \E b \in Sealed :
             /\ ImportBlock(n, b)
             /\ sync' = IF log'[n] # log[n] THEN [sync EXCEPT ![n].mine = b.height] ELSE sync
             /\ sync[n] \in SyncType
<1>1. sync[n] \in SyncType
  BY DEF TypeInv, SyncBlock, Asking, Syncing
<1>2. sync[n].peer \in Nodes
  BY <1>1 DEF SyncType, SyncBlock, Asking
<1>3. PICK b \in BlocksAt(sync[n].peer, sync[n].mine + 1) :
        /\ ImportBlock(n, b)
        /\ sync' = IF log'[n] # log[n] THEN [sync EXCEPT ![n].mine = b.height] ELSE sync
  BY DEF SyncBlock
<1>4. b \in Sealed
  BY <1>2, <1>3 DEF BlocksAt, Sealed
<1> QED BY <1>1, <1>3, <1>4

\* The mempool, a round that has sealed nothing, and a restart keep the types.
LEMMA PoolTyped ==
    ASSUME TypeInv, NEW n \in Nodes, PoolStep(n)
    PROVE  TypeInv'
<1> DEFINE none == <<>>
<1>0. none \in Seq(Txs) /\ TopHeight(n) \in Nat
  BY TopIs
<1> HIDE DEF none
<1>1. ASSUME NEW tx \in Txs, SubmitTx(n, tx) PROVE TypeInv'
  <2>1. Append(mempool[n], tx) \in Seq(Txs)
    BY DEF TypeInv
  <2>2. mempool' \in [Nodes -> Seq(Txs)]
    BY <1>1, <2>1 DEF SubmitTx, TypeInv
  <2> QED BY <1>1, <2>2 DEF SubmitTx, TypeInv, storeVars, producerVars
<1>2. ASSUME ReadHeight(n) PROVE TypeInv'
  <2>1. TopHeight(n) + 1 \in 0..MaxHeight
    BY <1>0, <1>2, ProducerAssumption DEF ReadHeight
  <2>2. round' \in [Nodes -> 0..MaxHeight]
    BY <1>2, <2>1 DEF ReadHeight, TypeInv
  <2> QED BY <1>2, <2>2 DEF ReadHeight, TypeInv, storeVars, poolVars
<1>3. ASSUME DrainMempool(n) PROVE TypeInv'
  <2>1. 0 \in 0..MaxHeight /\ mempool[n] \in Seq(Txs)
    BY ProducerAssumption DEF TypeInv
  <2>2. mempool' = [mempool EXCEPT ![n] = none]
    BY <1>3 DEF DrainMempool, none
  <2>3. round' \in [Nodes -> 0..MaxHeight] /\ batch' \in [Nodes -> Seq(Txs)]
    BY <1>3, <2>1 DEF DrainMempool, TypeInv
  <2>4. mempool' \in [Nodes -> Seq(Txs)]
    BY <1>0, <2>2 DEF TypeInv
  <2> QED BY <1>3, <2>3, <2>4 DEF DrainMempool, TypeInv, storeVars
<1>4. ASSUME EndRound(n)
      PROVE  round' \in [Nodes -> 0..MaxHeight] /\ batch' \in [Nodes -> Seq(Txs)]
  <2>1. 0 \in 0..MaxHeight
    BY ProducerAssumption
  <2>2. round' = [round EXCEPT ![n] = 0] /\ batch' = [batch EXCEPT ![n] = none]
    BY <1>4 DEF EndRound, none
  <2> QED BY <1>0, <2>1, <2>2 DEF TypeInv
<1>5. ASSUME SealFails(n) PROVE TypeInv'
  BY <1>4, <1>5 DEF SealFails, TypeInv, storeVars, poolVars
<1>6. ASSUME Restart(n) PROVE TypeInv'
  <2>1. mempool' = [mempool EXCEPT ![n] = none]
    BY <1>6 DEF Restart, none
  <2>2. mempool' \in [Nodes -> Seq(Txs)]
    BY <1>0, <2>1 DEF TypeInv
  <2>3. [left |-> Nodes \ {n}, peer |-> NoPeer, mine |-> TopHeight(n), top |-> 0] \in SyncType
    BY <1>0 DEF SyncType
  <2>4. sync' \in [Nodes -> SyncType \cup {NoSync}]
    BY <1>6, <2>3 DEF Restart, TypeInv
  <2> QED BY <1>4, <1>6, <2>2, <2>4 DEF Restart, TypeInv, storeVars
<1> QED BY <1>1, <1>2, <1>3, <1>5, <1>6 DEF PoolStep

LEMMA SyncTyped ==
    ASSUME TypeInv, NEW n \in Nodes, SyncStep(n)
    PROVE  TypeInv'
<1>1. UNCHANGED <<storeVars, poolVars, seenBlocks, producerVars>>
  BY DEF SyncStep, SyncPeerDone, SyncPeerFails, SyncDone, SyncPeer
<1>2. sync' \in [Nodes -> SyncType \cup {NoSync}]
  <2>1. CASE SyncDone(n)
    BY <2>1 DEF SyncDone, TypeInv
  <2>2. CASE SyncPeerDone(n) \/ SyncPeerFails(n)
    <3>1. sync[n] \in SyncType /\ sync' = [sync EXCEPT ![n].peer = NoPeer]
      BY <2>2 DEF SyncPeerDone, SyncPeerFails, Asking, Syncing, TypeInv
    <3>2. [sync[n] EXCEPT !.peer = NoPeer] \in SyncType
      BY <3>1 DEF SyncType
    <3> QED BY <3>1, <3>2 DEF TypeInv
  <2>3. ASSUME NEW m \in Nodes, SyncPeer(n, m) PROVE sync' \in [Nodes -> SyncType \cup {NoSync}]
    <3>1. sync[n] \in SyncType /\ TopHeight(m) \in Nat
      BY <2>3, TopIs DEF SyncPeer, Asking, Syncing, TypeInv
    <3> DEFINE next == [left |-> sync[n].left \ {m}, peer |-> m, mine |-> sync[n].mine,
                        top |-> TopHeight(m)]
    <3>2. next \in SyncType
      BY <3>1 DEF SyncType
    <3>3. sync' = [sync EXCEPT ![n] = next]
      <4>1. sync' = [sync EXCEPT ![n].left = @ \ {m}, ![n].peer = m, ![n].top = TopHeight(m)]
        BY <2>3 DEF SyncPeer
      <4>2. [[[sync[n] EXCEPT !.left = @ \ {m}] EXCEPT !.peer = m] EXCEPT !.top = TopHeight(m)] = next
        <5> DEFINE r1 == [sync[n] EXCEPT !.left = @ \ {m}]
                   r2 == [r1 EXCEPT !.peer = m]
        <5>1. r1 = [left |-> sync[n].left \ {m}, peer |-> sync[n].peer,
                    mine |-> sync[n].mine, top |-> sync[n].top]
          BY <3>1 DEF SyncType
        <5>2. r2 = [left |-> sync[n].left \ {m}, peer |-> m,
                    mine |-> sync[n].mine, top |-> sync[n].top]
          <6> HIDE DEF r1
          <6> QED BY <5>1
        <5> HIDE DEF r2
        <5>3. [r2 EXCEPT !.top = TopHeight(m)] = next
          BY <5>2
        <5> QED BY <5>3 DEF r2
      <4> QED BY <4>1, <4>2 DEF TypeInv
    <3> HIDE DEF next
    <3> QED BY <3>2, <3>3 DEF TypeInv
  <2> QED BY <2>1, <2>2, <2>3 DEF SyncStep
<1> QED BY <1>1, <1>2 DEF TypeInv, storeVars, poolVars, producerVars

LEMMA SealTyped ==
    ASSUME TypeInv, NEW n \in Nodes, Seal(n)
    PROVE  TypeInv'
<1>1. db' \in [Nodes -> DbType] /\ log' \in [Nodes -> Seq(Block)]
  <2>1. CASE UNCHANGED storeVars
    BY <2>1 DEF TypeInv, storeVars
  <2>2. CASE \E b \in Block : Grows(n, b)
    BY <2>2, GrowsTyped
  <2> QED BY <2>1, <2>2, SealGrows, ProducerAssumption
<1>2. round' \in [Nodes -> 0..MaxHeight] /\ batch' \in [Nodes -> Seq(Txs)]
  <2> DEFINE none == <<>>
  <2>1. 0 \in 0..MaxHeight /\ none \in Seq(Txs)
    BY ProducerAssumption
  <2>2. round' = [round EXCEPT ![n] = 0] /\ batch' = [batch EXCEPT ![n] = none]
    BY DEF Seal, EndRound
  <2> HIDE DEF none
  <2> QED BY <2>1, <2>2 DEF TypeInv
<1> QED BY <1>1, <1>2 DEF Seal, TypeInv, poolVars

LEMMA ImportTyped ==
    ASSUME TypeInv, NEW n \in Nodes, NEW b \in Sealed, ImportBlock(n, b),
           sync' \in [Nodes -> SyncType \cup {NoSync}]
    PROVE  TypeInv'
<1>1. CASE UNCHANGED <<storeVars, mempool, producerVars>>
  BY <1>1 DEF TypeInv, storeVars, producerVars
<1>2. CASE /\ Grows(n, b)
           /\ UNCHANGED producerVars
           /\ mempool' = [mempool EXCEPT ![n] = Without(@, ToSet(b.txs))]
  <2>1. Without(mempool[n], ToSet(b.txs)) \in Seq(Txs)
    BY WithoutTyped DEF TypeInv
  <2>2. mempool' \in [Nodes -> Seq(Txs)]
    BY <1>2, <2>1 DEF TypeInv
  <2>3. db' \in [Nodes -> DbType] /\ log' \in [Nodes -> Seq(Block)]
    BY <1>2, GrowsTyped
  <2> QED BY <1>2, <2>2, <2>3 DEF TypeInv, producerVars
<1> QED BY <1>1, <1>2, ImportGrows

LEMMA SyncBlockTyped ==
    ASSUME TypeInv, NEW n \in Nodes, SyncBlock(n)
    PROVE  TypeInv'
<1>1. PICK b \in Sealed :
        /\ ImportBlock(n, b)
        /\ sync' = IF log'[n] # log[n] THEN [sync EXCEPT ![n].mine = b.height] ELSE sync
        /\ sync[n] \in SyncType
  BY SyncBlockImports
<1>2. b.height \in Nat
  BY SealedTyped DEF Block
<1>3. [sync[n] EXCEPT !.mine = b.height] \in SyncType
  BY <1>1, <1>2 DEF SyncType
<1>4. sync' \in [Nodes -> SyncType \cup {NoSync}]
  BY <1>1, <1>3 DEF TypeInv
<1> QED BY <1>1, <1>4, ImportTyped

LEMMA TypeNext ==
    ASSUME TypeInv, [Next]_vars
    PROVE  TypeInv'
<1>1. CASE UNCHANGED vars
  BY <1>1 DEF vars, TypeInv
<1>2. CASE Next
  <2>1. PICK n \in Nodes : \/ PoolStep(n) \/ SyncStep(n) \/ Seal(n)
                           \/ \E b \in Sealed : GossipBlock(n, b)
                           \/ SyncBlock(n)
    BY <1>2, StepKinds
  <2>2. ASSUME NEW b \in Sealed, GossipBlock(n, b) PROVE TypeInv'
    <3>1. ImportBlock(n, b) /\ sync' \in [Nodes -> SyncType \cup {NoSync}]
      BY <2>2 DEF GossipBlock, TypeInv
    <3> QED BY <3>1, ImportTyped
  <2> QED BY <2>1, <2>2, PoolTyped, SyncTyped, SealTyped, SyncBlockTyped
<1> QED BY <1>1, <1>2

-----------------------------------------------------------------------------
\* What a block adds to the transactions of a log.
LEMMA TxsAfter ==
    ASSUME NEW l \in Seq(Block), NEW b \in Block
    PROVE  /\ TxsOf(l) \in Seq(Txs) /\ b.txs \in Seq(Txs)
           /\ TxsOf(Append(l, b)) = TxsOf(l) \o b.txs
<1> DEFINE parts == [i \in DOMAIN l |-> l[i].txs]
           more == [i \in DOMAIN Append(l, b) |-> Append(l, b)[i].txs]
<1>1. PICK k \in Nat : k = Len(l) /\ DOMAIN l = 1..k /\ \A i \in 1..k : l[i] \in Block
  OBVIOUS
<1>2. \A c \in Block : c.txs \in Seq(Txs)
  BY DEF Block
<1>3. parts \in Seq(Seq(Txs))
  <2>1. parts \in [1..k -> Seq(Txs)]
    BY <1>1, <1>2
  <2> HIDE DEF parts
  <2> QED BY <1>1, <2>1
<1>4. more = Append(parts, b.txs)
  <2>1. PICK s \in Seq(Block) : s = Append(l, b)
    <3>1. Append(l, b) \in Seq(Block)
      OBVIOUS
    <3> QED BY <3>1
  <2>2. DOMAIN s = 1..(k + 1) /\ s[k + 1] = b /\ \A i \in 1..k : s[i] = l[i]
    BY <1>1, <2>1
  <2>3. more = [i \in 1..(k + 1) |-> s[i].txs]
    BY <2>1, <2>2
  <2>4. Len(parts) = k /\ \A i \in 1..k : parts[i] = l[i].txs
    BY <1>1
  <2> HIDE DEF more, parts
  <2>5. PICK t \in Seq(Seq(Txs)) : t = Append(parts, b.txs)
    <3>1. Append(parts, b.txs) \in Seq(Seq(Txs))
      BY <1>2, <1>3
    <3> QED BY <3>1
  <2>6. t = [i \in 1..(k + 1) |-> s[i].txs]
    <3>1. Len(t) = k + 1 /\ t[k + 1] = b.txs /\ \A i \in 1..k : t[i] = parts[i]
      BY <1>3, <2>4, <2>5
    <3>2. \A i \in 1..(k + 1) : t[i] = s[i].txs
      <4> SUFFICES ASSUME NEW i \in 1..(k + 1) PROVE t[i] = s[i].txs
        OBVIOUS
      <4>1. i = k + 1 \/ i \in 1..k
        BY <1>1
      <4> QED BY <2>2, <2>4, <3>1, <4>1
    <3>3. t = [i \in 1..(k + 1) |-> t[i]]
      BY <1>1, <2>5, <3>1
    <3> QED BY <3>2, <3>3
  <2> QED BY <2>3, <2>5, <2>6
<1> HIDE DEF parts, more
<1>5. FlattenSeq(more) = FlattenSeq(parts) \o b.txs
  BY <1>2, <1>3, <1>4, FlattenOneMore
<1>6. FlattenSeq(parts) \in Seq(Txs)
  BY <1>3, FlattenTyped
<1> QED BY <1>2, <1>5, <1>6 DEF TxsOf, parts, more

LEMMA NoTxs == TxsOf(<<>>) = <<>>
<1>1. [i \in DOMAIN <<>> |-> <<>>[i].txs] = <<>>
  OBVIOUS
<1> QED BY <1>1, FlattenNone DEF TxsOf

(***************************************************************************)
(* The money of a node is the replay of its blocks: what a block adds to   *)
(* the columns depends on the columns only, so that a replay from genesis, *)
(* which never sees a refused transaction, stays with the tables.          *)
(***************************************************************************)
LEMMA ReplayGrows ==
    ASSUME TypeInv, MoneyIsReplay, NEW n \in Nodes, NEW b, Grows(n, b)
    PROVE  MoneyIsReplay'
<1>1. /\ b \in Block /\ log[n] \in Seq(Block) /\ db[n] \in DbType
      /\ log' = [log EXCEPT ![n] = Append(@, b)]
      /\ AppliesStrictly(db[n], b.txs)
      /\ log \in [Nodes -> Seq(Block)] /\ db \in [Nodes -> DbType]
  BY DEF Grows, TypeInv
<1>2. PICK d \in DbType : db' = [db EXCEPT ![n] = d] /\ Columns(d) = Columns(Run(db[n], b.txs).db)
  BY DEF Grows
<1>3. ASSUME NEW m \in Nodes, m # n
      PROVE  log'[m] = log[m] /\ db'[m] = db[m]
  BY <1>1, <1>2, <1>3
<1> DEFINE old == TxsOf(log[n])
           run == Run(Genesis, old)
<1>4. /\ old \in Seq(Txs) /\ b.txs \in Seq(Txs)
      /\ log'[n] = Append(log[n], b) /\ TxsOf(log'[n]) = old \o b.txs
      /\ db'[n] = d
  BY <1>1, <1>2, TxsAfter
<1>5. run.applied = old /\ Columns(run.db) = Columns(db[n]) /\ run.db \in DbType
  BY <1>4, GenesisTyped, RunTyped DEF MoneyIsReplay, RunType
<1> HIDE DEF old, run
<1>6. /\ Run(run.db, b.txs).applied = b.txs
      /\ Columns(Run(run.db, b.txs).db) = Columns(d)
  BY <1>1, <1>2, <1>4, <1>5, StrictSame DEF AppliesStrictly
<1>7. /\ Run(Genesis, old \o b.txs).applied = old \o b.txs
      /\ Columns(Run(Genesis, old \o b.txs).db) = Columns(d)
  <2>1. /\ Run(Genesis, old \o b.txs).db = Run(run.db, b.txs).db
        /\ Run(Genesis, old \o b.txs).applied = run.applied \o Run(run.db, b.txs).applied
    BY <1>4, GenesisTyped, RunConcat DEF run
  <2> QED BY <1>5, <1>6, <2>1
<1>8. ASSUME NEW m \in Nodes
      PROVE  /\ Run(Genesis, TxsOf(log'[m])).applied = TxsOf(log'[m])
             /\ Columns(Run(Genesis, TxsOf(log'[m])).db) = Columns(db'[m])
  <2>1. CASE m = n
    BY <1>4, <1>7, <2>1
  <2>2. CASE m # n
    BY <1>3, <2>2 DEF MoneyIsReplay
  <2> QED BY <2>1, <2>2
<1> QED BY <1>8 DEF MoneyIsReplay

\* A step leaves tables and logs alone, or one log grows by one block.
LEMMA StepGrows ==
    ASSUME TypeInv, [Next]_vars
    PROVE  UNCHANGED storeVars \/ \E n \in Nodes : \E b \in Block : Grows(n, b)
<1>1. CASE UNCHANGED vars
  BY <1>1 DEF vars, storeVars
<1>2. CASE Next
  <2>1. PICK n \in Nodes : \/ PoolStep(n) \/ SyncStep(n) \/ Seal(n)
                           \/ \E b \in Sealed : GossipBlock(n, b)
                           \/ SyncBlock(n)
    BY <1>2, StepKinds
  <2>2. CASE PoolStep(n) \/ SyncStep(n)
    BY <2>2 DEF PoolStep, SyncStep, SubmitTx, ReadHeight, DrainMempool, SealFails, Restart,
                SyncPeerDone, SyncPeerFails, SyncDone, SyncPeer
  <2>3. CASE Seal(n)
    BY <2>3, SealGrows, ProducerAssumption
  <2>4. ASSUME NEW b \in Sealed, ImportBlock(n, b)
        PROVE  UNCHANGED storeVars \/ \E c \in Block : Grows(n, c)
    BY <2>4, ImportGrows, SealedTyped
  <2>5. CASE \E b \in Sealed : GossipBlock(n, b)
    BY <2>4, <2>5 DEF GossipBlock
  <2>6. CASE SyncBlock(n)
    BY <2>4, <2>6, SyncBlockImports
  <2> QED BY <2>1, <2>2, <2>3, <2>5, <2>6
<1> QED BY <1>1, <1>2

\* What a node holds, in every column, is what its blocks alone make of genesis.
THEOREM MoneyAlwaysReplay == Spec => []MoneyIsReplay
<1>1. Init => TypeInv /\ MoneyIsReplay
  <2> SUFFICES ASSUME Init PROVE TypeInv /\ MoneyIsReplay
    OBVIOUS
  <2>1. \A n \in Nodes : db[n] = Genesis /\ TxsOf(log[n]) = <<>>
    BY NoTxs DEF Init
  <2>2. Run(Genesis, <<>>).applied = <<>> /\ Run(Genesis, <<>>).db = Genesis
    BY RunNone
  <2>3. MoneyIsReplay
    BY <2>1, <2>2 DEF MoneyIsReplay
  <2> QED BY <2>3, TypeInit, ProducerAssumption
<1>2. TypeInv /\ MoneyIsReplay /\ [Next]_vars => (TypeInv /\ MoneyIsReplay)'
  <2> SUFFICES ASSUME TypeInv, MoneyIsReplay, [Next]_vars PROVE TypeInv' /\ MoneyIsReplay'
    OBVIOUS
  <2>1. CASE UNCHANGED storeVars
    <3>1. MoneyIsReplay'
      BY <2>1 DEF MoneyIsReplay, storeVars
    <3> QED BY <3>1, TypeNext
  <2>2. CASE \E n \in Nodes : \E b \in Block : Grows(n, b)
    BY <2>2, ReplayGrows, TypeNext
  <2> QED BY <2>1, <2>2, StepGrows
<1> QED BY <1>1, <1>2, PTL DEF Spec

-----------------------------------------------------------------------------
(***************************************************************************)
(* One owner of each height: what slot_owner gives from the first          *)
(* registered producer on, and the genesis lockdown before it.             *)
(***************************************************************************)
OneOwner == \A h \in 1..MaxHeight : \A a, b \in Owners[h] : a = b

\* The tables after the first i blocks of n's log
Root(n, i) == IF i = 0 THEN Genesis ELSE log[n][i].root

\* A block is a step from one state of the tables to the next: it is not empty, and
\* what it does to the columns is what its transactions do.
Leads(d, b) ==
    /\ b.txs # <<>>
    /\ AppliesStrictly(d, b.txs)
    /\ Columns(Run(d, b.txs).db) = Columns(b.root)

Linked == \A n \in Nodes : \A i \in 1..Len(log[n]) : Leads(Root(n, i - 1), log[n][i])

\* The nonces say how far a node is.
Rising == \A n \in Nodes : \A i \in 0..Len(log[n]) : \A j \in 0..Len(log[n]) :
            i < j => Below(Root(n, i), Root(n, j))

StoreInv ==
    /\ \A n \in Nodes : db[n] = Root(n, Len(log[n]))
    /\ Linked
    /\ Rising

\* What two nodes both have is the same, a block is at its height, its owner had it
\* first, and a round is for the height above what its owner has.
Agree == \A m, n \in Nodes : \A i \in 1..Len(log[m]) : i <= Len(log[n]) => log[m][i] = log[n][i]
AtHeight == \A n \in Nodes : Len(log[n]) <= MaxHeight /\ \A i \in 1..Len(log[n]) : log[n][i].height = i
OwnersFirst == \A n \in Nodes : \A i \in 1..Len(log[n]) : \A o \in Owners[i] : i <= Len(log[o])
RoundInv == \A n \in Nodes :
              /\ batch[n] # <<>> => round[n] # 0
              /\ round[n] # 0 => round[n] = Len(log[n]) + 1 /\ n \in Owners[round[n]]

ChainInv == TypeInv /\ StoreInv /\ Agree /\ AtHeight /\ OwnersFirst /\ RoundInv

LEMMA RootTyped ==
    ASSUME TypeInv, NEW n \in Nodes, NEW i \in 0..Len(log[n])
    PROVE  Root(n, i) \in DbType
<1>1. log[n] \in Seq(Block)
  BY DEF TypeInv
<1>2. CASE i = 0
  BY <1>2, GenesisTyped DEF Root
<1>3. CASE i # 0
  <2>1. log[n][i] \in Block
    BY <1>1, <1>3
  <2> QED BY <1>3, <2>1 DEF Root, Block
<1> QED BY <1>2, <1>3

\* A block raises the nonces.
LEMMA LeadsUp ==
    ASSUME NEW d \in DbType, NEW b \in Block, Leads(d, b)
    PROVE  Below(d, b.root)
<1>1. b.txs \in Seq(Txs) /\ b.root \in DbType
  BY DEF Block
<1>2. Below(d, Run(d, b.txs).db)
  BY <1>1, StrictRises DEF Leads
<1>3. Run(d, b.txs).db.nonce = b.root.nonce
  BY DEF Leads, Columns
<1> QED BY <1>2, <1>3 DEF Below, AtMost

\* The store of the node that grows
LEMMA StoreGrows ==
    ASSUME TypeInv, StoreInv, NEW n \in Nodes, NEW b \in Block, Grows(n, b), b.txs # <<>>
    PROVE  /\ StoreInv'
           /\ \A m \in Nodes : m # n => log'[m] = log[m]
           /\ Len(log'[n]) = Len(log[n]) + 1 /\ log'[n][Len(log[n]) + 1] = b
           /\ \A i \in 1..Len(log[n]) : log'[n][i] = log[n][i]
           /\ \A m \in Nodes : Len(log[m]) \in Nat
<1>1. /\ log[n] \in Seq(Block) /\ db[n] \in DbType
      /\ log' = [log EXCEPT ![n] = Append(@, b)]
      /\ AppliesStrictly(db[n], b.txs)
      /\ log \in [Nodes -> Seq(Block)] /\ db \in [Nodes -> DbType]
      /\ db'[n] = b.root
  BY DEF Grows, TypeInv
<1>2. PICK d \in DbType : db' = [db EXCEPT ![n] = d] /\ Columns(d) = Columns(Run(db[n], b.txs).db)
  BY DEF Grows
<1>3. \A m \in Nodes : m # n => log'[m] = log[m] /\ db'[m] = db[m]
  BY <1>1, <1>2
<1>4. PICK k \in Nat : k = Len(log[n])
  BY <1>1
<1>5. /\ Len(log'[n]) = k + 1 /\ log'[n][k + 1] = b
      /\ \A i \in 1..k : log'[n][i] = log[n][i]
  <2>1. log'[n] = Append(log[n], b)
    BY <1>1
  <2> QED BY <1>1, <1>4, <2>1
<1>6. d = b.root
  BY <1>1, <1>2
<1>7. \A m \in Nodes : m # n => \A i \in 0..Len(log[m]) : Root(m, i)' = Root(m, i)
  BY <1>3 DEF Root
<1>8. /\ \A i \in 0..k : Root(n, i)' = Root(n, i)
      /\ Root(n, k + 1)' = b.root
  BY <1>4, <1>5 DEF Root
<1>9. Leads(Root(n, k), b) /\ Below(Root(n, k), b.root)
  <2>1. Root(n, k) = db[n]
    BY <1>4 DEF StoreInv
  <2>2. Leads(db[n], b)
    BY <1>1, <1>2, <1>6 DEF Leads
  <2> QED BY <1>1, <2>1, <2>2, LeadsUp
<1>10. \A m \in Nodes : db'[m] = Root(m, Len(log[m]))'
  <2> SUFFICES ASSUME NEW m \in Nodes PROVE db'[m] = Root(m, Len(log[m]))'
    OBVIOUS
  <2>1. CASE m = n
    BY <1>1, <1>5, <1>8, <2>1
  <2>2. CASE m # n
    <3>1. Len(log[m]) \in 0..Len(log[m]) /\ log'[m] = log[m] /\ db'[m] = db[m]
      BY <1>1, <1>3, <2>2
    <3> QED BY <1>7, <2>2, <3>1 DEF StoreInv
  <2> QED BY <2>1, <2>2
<1>11. Linked'
  <2> SUFFICES ASSUME NEW m \in Nodes, NEW i \in 1..Len(log'[m])
               PROVE  Leads(Root(m, i - 1)', log'[m][i])
    BY DEF Linked
  <2>1. CASE m = n /\ i = k + 1
    BY <1>4, <1>5, <1>8, <1>9, <2>1
  <2>2. CASE m = n /\ i # k + 1
    <3>1. i \in 1..k /\ i - 1 \in 0..k
      BY <1>4, <1>5, <2>2
    <3> QED BY <1>4, <1>5, <1>8, <2>2, <3>1 DEF StoreInv, Linked
  <2>3. CASE m # n
    <3>1. log'[m] = log[m] /\ i \in 1..Len(log[m]) /\ i - 1 \in 0..Len(log[m])
      BY <1>1, <1>3, <2>3
    <3> QED BY <1>7, <2>3, <3>1 DEF StoreInv, Linked
  <2> QED BY <2>1, <2>2, <2>3
<1>12. Rising'
  <2> SUFFICES ASSUME NEW m \in Nodes, NEW i \in 0..Len(log'[m]), NEW j \in 0..Len(log'[m]), i < j
               PROVE  Below(Root(m, i)', Root(m, j)')
    BY DEF Rising, Below, AtMost
  <2>1. CASE m # n
    <3>1. log'[m] = log[m] /\ i \in 0..Len(log[m]) /\ j \in 0..Len(log[m])
      BY <1>3, <2>1
    <3> QED BY <1>7, <2>1, <3>1 DEF StoreInv, Rising
  <2>2. CASE m = n /\ j # k + 1
    <3>1. i \in 0..k /\ j \in 0..k
      BY <1>4, <1>5, <2>2
    <3> QED BY <1>4, <1>8, <2>2, <3>1 DEF StoreInv, Rising
  <2>3. CASE m = n /\ j = k + 1
    <3>1. i \in 0..k /\ k \in 0..k
      BY <1>4, <1>5, <2>3
    <3>2. Root(n, i)' = Root(n, i) /\ Root(n, j)' = b.root
      BY <1>8, <2>3, <3>1
    <3>3. CASE i = k
      BY <1>9, <2>3, <3>2, <3>3
    <3>4. CASE i # k
      <4>1. Below(Root(n, i), Root(n, k))
        BY <1>4, <3>1, <3>4 DEF StoreInv, Rising
      <4>2. Root(n, i) \in DbType /\ Root(n, k) \in DbType /\ b.root \in DbType
        BY <1>2, <1>4, <1>6, <3>1, RootTyped
      <4>3. Below(Root(n, i), b.root)
        BY <1>9, <4>1, <4>2, BelowFacts
      <4> QED BY <2>3, <3>2, <4>3
    <3> QED BY <3>3, <3>4
  <2> QED BY <2>1, <2>2, <2>3
<1>13. \A m \in Nodes : Len(log[m]) \in Nat
  BY <1>1
<1> QED BY <1>3, <1>4, <1>5, <1>10, <1>11, <1>12, <1>13 DEF StoreInv

\* A block that applies to what a node has, with the root it says, is the next one
\* of the node's log: on any other state it would lead to other nonces.
LEMMA ImportsNext ==
    ASSUME ChainInv, NEW n \in Nodes, NEW m \in Nodes, NEW i \in 1..Len(log[m]),
           AppliesStrictly(db[n], log[m][i].txs),
           Run(db[n], log[m][i].txs).db = log[m][i].root
    PROVE  i = Len(log[n]) + 1
<1>1. PICK k \in Nat : k = Len(log[n])
  BY DEF ChainInv, TypeInv
<1>2. PICK l \in Nat : l = Len(log[m])
  BY DEF ChainInv, TypeInv
<1> DEFINE b == log[m][i]
           p == i - 1
<1>3. /\ b \in Block /\ p \in 0..l /\ p \in Nat /\ i = p + 1
      /\ db[n] = Root(n, k) /\ Leads(Root(m, p), b)
  <2>1. b \in Block
    BY DEF ChainInv, TypeInv
  <2> QED BY <1>1, <1>2, <2>1 DEF ChainInv, StoreInv, Linked
<1>4. b.txs \in Seq(Txs) /\ b.root \in DbType
  BY <1>3 DEF Block
<1>5. Root(n, k) \in DbType /\ Root(m, p) \in DbType
  BY <1>1, <1>2, <1>3, RootTyped DEF ChainInv
<1>6. AtMost(Root(n, k), Root(m, p)) /\ AtMost(Root(m, p), Root(n, k))
  <2>1. /\ AppliesStrictly(Root(n, k), b.txs) /\ AppliesStrictly(Root(m, p), b.txs)
        /\ Run(Root(n, k), b.txs).db.nonce = Run(Root(m, p), b.txs).db.nonce
    BY <1>3 DEF Leads, Columns
  <2> HIDE DEF b, p
  <2> QED BY <1>4, <1>5, <2>1, SameFrom
<1>7. \A j \in Nat : j <= k /\ j <= l => Root(n, j) = Root(m, j)
  BY <1>1, <1>2 DEF Root, ChainInv, Agree
<1> HIDE DEF b, p
<1>8. CASE k < p
  <2>1. Root(n, k) = Root(m, k)
    BY <1>1, <1>3, <1>7, <1>8
  <2>2. Below(Root(m, k), Root(m, p))
    BY <1>1, <1>2, <1>3, <1>8 DEF ChainInv, StoreInv, Rising
  <2> QED BY <1>5, <1>6, <2>1, <2>2, BelowFacts
<1>9. CASE p < k
  <2>1. Root(n, p) = Root(m, p)
    BY <1>1, <1>3, <1>7, <1>9
  <2>2. Below(Root(n, p), Root(n, k))
    BY <1>1, <1>3, <1>9 DEF ChainInv, StoreInv, Rising
  <2> QED BY <1>5, <1>6, <2>1, <2>2, BelowFacts
<1> QED BY <1>1, <1>3, <1>8, <1>9

\* The owner of the next height has it in its log, or nobody has.
LEMMA SealKeeps ==
    ASSUME OneOwner, ChainInv, NEW n \in Nodes, Seal(n)
    PROVE  ChainInv'
<1>1. TypeInv'
  BY SealTyped DEF ChainInv
<1>2. /\ round' = [round EXCEPT ![n] = 0] /\ batch' = [batch EXCEPT ![n] = <<>>]
      /\ round \in [Nodes -> 0..MaxHeight] /\ batch \in [Nodes -> Seq(Txs)]
  BY DEF Seal, EndRound, ChainInv, TypeInv
<1>3. CASE UNCHANGED storeVars
  <2>1. RoundInv'
    BY <1>2, <1>3 DEF ChainInv, RoundInv, storeVars
  <2>2. StoreInv'
    BY <1>3 DEF ChainInv, StoreInv, Linked, Rising, Root, storeVars
  <2>3. Agree' /\ AtHeight' /\ OwnersFirst'
    BY <1>3 DEF ChainInv, Agree, AtHeight, OwnersFirst, storeVars
  <2> QED BY <1>1, <2>1, <2>2, <2>3 DEF ChainInv
<1>4. ASSUME NEW b \in Block, Grows(n, b), b.txs # <<>>, b.height = round[n], batch[n] # <<>>
      PROVE  ChainInv'
  <2>1. /\ StoreInv'
        /\ \A m \in Nodes : m # n => log'[m] = log[m]
        /\ Len(log'[n]) = Len(log[n]) + 1 /\ log'[n][Len(log[n]) + 1] = b
        /\ \A i \in 1..Len(log[n]) : log'[n][i] = log[n][i]
        /\ \A m \in Nodes : Len(log[m]) \in Nat
    BY <1>4, StoreGrows DEF ChainInv
  <2>2. PICK h \in Nat : h = Len(log[n]) + 1
    BY <2>1
  <2>3. h = round[n] /\ n \in Owners[h] /\ h \in 1..MaxHeight
    BY <1>2, <1>4, <2>2 DEF ChainInv, RoundInv
  <2>4. \A m \in Nodes : Len(log[m]) < h
    <3> SUFFICES ASSUME NEW m \in Nodes, ~ (Len(log[m]) < h) PROVE FALSE
      OBVIOUS
    <3>1. h \in 1..Len(log[m])
      BY <2>1, <2>3
    <3>2. h <= Len(log[n])
      BY <2>3, <3>1 DEF ChainInv, OwnersFirst
    <3> QED BY <2>1, <2>2, <3>2
  <2>5. Agree'
    <3> SUFFICES ASSUME NEW a \in Nodes, NEW c \in Nodes, NEW i \in 1..Len(log'[a]), i <= Len(log'[c])
                 PROVE  log'[a][i] = log'[c][i]
      BY DEF Agree
    <3>1. CASE a = c
      BY <3>1
    <3>2. CASE a # c
      <4>1. i \in 1..Len(log[a]) /\ i <= Len(log[c])
        BY <2>1, <2>2, <2>4, <3>2
      <4>2. log'[a][i] = log[a][i] /\ log'[c][i] = log[c][i]
        BY <2>1, <4>1
      <4> QED BY <4>1, <4>2 DEF ChainInv, Agree
    <3> QED BY <3>1, <3>2
  <2>6. AtHeight'
    <3> SUFFICES ASSUME NEW m \in Nodes
                 PROVE  Len(log'[m]) <= MaxHeight /\ \A i \in 1..Len(log'[m]) : log'[m][i].height = i
      BY DEF AtHeight
    <3>1. CASE m # n
      BY <2>1, <3>1 DEF ChainInv, AtHeight
    <3>2. CASE m = n
      <4>1. \A i \in 1..Len(log'[m]) : i = h \/ i \in 1..Len(log[n])
        BY <2>1, <2>2, <3>2
      <4> QED BY <1>4, <2>1, <2>2, <2>3, <3>2, <4>1 DEF ChainInv, AtHeight
    <3> QED BY <3>1, <3>2
  <2>7. OwnersFirst'
    <3> SUFFICES ASSUME NEW m \in Nodes, NEW i \in 1..Len(log'[m]), NEW o \in Owners[i]
                 PROVE  i <= Len(log'[o])
      BY DEF OwnersFirst
    <3>1. CASE m = n /\ i = h
      <4>1. o = n
        BY <2>3, <3>1 DEF OneOwner
      <4> QED BY <2>1, <2>2, <3>1, <4>1
    <3>2. CASE ~ (m = n /\ i = h)
      <4>1. i \in 1..Len(log[m])
        BY <2>1, <2>2, <3>2
      <4>2. i <= Len(log[o])
        BY <4>1 DEF ChainInv, OwnersFirst
      <4>3. o \in Nodes
        <5>1. i \in 1..MaxHeight
          BY <2>1, <4>1, ProducerAssumption DEF ChainInv, AtHeight
        <5> QED BY <5>1, ProducerAssumption
      <4> QED BY <2>1, <4>2, <4>3
    <3> QED BY <3>1, <3>2
  <2>8. RoundInv'
    <3> SUFFICES ASSUME NEW m \in Nodes
                 PROVE  /\ batch'[m] # <<>> => round'[m] # 0
                        /\ round'[m] # 0 => round'[m] = Len(log'[m]) + 1 /\ m \in Owners[round'[m]]
      BY DEF RoundInv
    <3>1. CASE m = n
      BY <1>2, <3>1
    <3>2. CASE m # n
      BY <1>2, <2>1, <3>2 DEF ChainInv, RoundInv
    <3> QED BY <3>1, <3>2
  <2> QED BY <1>1, <2>1, <2>5, <2>6, <2>7, <2>8 DEF ChainInv
<1> QED BY <1>3, <1>4, SealGrows, ProducerAssumption DEF ChainInv

LEMMA ImportKeeps ==
    ASSUME ChainInv, NEW n \in Nodes, NEW b \in Sealed, ImportBlock(n, b), TypeInv'
    PROVE  ChainInv'
<1>1. CASE UNCHANGED <<storeVars, mempool, producerVars>>
  <2>1. StoreInv'
    BY <1>1 DEF ChainInv, StoreInv, Linked, Rising, Root, storeVars
  <2>2. Agree' /\ AtHeight' /\ OwnersFirst' /\ RoundInv'
    BY <1>1 DEF ChainInv, Agree, AtHeight, OwnersFirst, RoundInv, storeVars, producerVars
  <2> QED BY <2>1, <2>2 DEF ChainInv
<1>2. CASE /\ Grows(n, b)
           /\ Run(db[n], b.txs).db = b.root
           /\ UNCHANGED producerVars
  <2>0. PICK m \in Nodes : \E h \in 1..Len(log[m]) : b = log[m][h] /\ b \in Block
    BY SealedTyped DEF ChainInv
  <2>1. PICK h \in 1..Len(log[m]) : b = log[m][h] /\ b \in Block
    BY <2>0
  <2>2. b.txs # <<>> /\ h = Len(log[n]) + 1
    BY <1>2, <2>1, ImportsNext DEF Grows, ChainInv, StoreInv, Linked, Leads
  <2>3. /\ StoreInv'
        /\ \A x \in Nodes : x # n => log'[x] = log[x]
        /\ Len(log'[n]) = Len(log[n]) + 1 /\ log'[n][Len(log[n]) + 1] = b
        /\ \A i \in 1..Len(log[n]) : log'[n][i] = log[n][i]
        /\ \A x \in Nodes : Len(log[x]) \in Nat
    BY <1>2, <2>1, <2>2, StoreGrows DEF ChainInv
  <2>4. m # n /\ h \in Nat
    BY <2>1, <2>2, <2>3
  <2>5. \A x \in Nodes : \A i \in 1..Len(log'[x]) :
          \/ i \in 1..Len(log[x]) /\ log'[x][i] = log[x][i]
          \/ x = n /\ i = h /\ log'[x][i] = b
    BY <2>2, <2>3
  <2>6. Agree'
    <3> SUFFICES ASSUME NEW a \in Nodes, NEW c \in Nodes, NEW i \in 1..Len(log'[a]), i <= Len(log'[c])
                 PROVE  log'[a][i] = log'[c][i]
      BY DEF Agree
    <3>1. i \in 1..Len(log'[c])
      BY <2>3
    <3>2. \A x \in Nodes : i \in 1..Len(log'[x]) =>
            \E y \in Nodes : i \in 1..Len(log[y]) /\ log'[x][i] = log[y][i]
      BY <2>1, <2>5
    <3>3. PICK y, z \in Nodes : /\ i \in 1..Len(log[y]) /\ log'[a][i] = log[y][i]
                                /\ i \in 1..Len(log[z]) /\ log'[c][i] = log[z][i]
      BY <3>1, <3>2
    <3>4. log[y][i] = log[z][i]
      <4>1. i <= Len(log[z])
        BY <2>3, <3>3
      <4> QED BY <3>3, <4>1 DEF ChainInv, Agree
    <3> QED BY <3>3, <3>4
  <2>7. AtHeight'
    <3>1. b.height = h /\ h <= MaxHeight
      BY <2>1, <2>3, ProducerAssumption DEF ChainInv, AtHeight
    <3> SUFFICES ASSUME NEW x \in Nodes
                 PROVE  Len(log'[x]) <= MaxHeight /\ \A i \in 1..Len(log'[x]) : log'[x][i].height = i
      BY DEF AtHeight
    <3>2. \A i \in 1..Len(log'[x]) : log'[x][i].height = i
      BY <2>5, <3>1 DEF ChainInv, AtHeight
    <3>3. Len(log'[x]) <= MaxHeight
      BY <2>2, <2>3, <3>1 DEF ChainInv, AtHeight
    <3> QED BY <3>2, <3>3
  <2>8. \A o \in Nodes : Len(log[o]) <= Len(log'[o]) /\ Len(log'[o]) \in Nat
    BY <2>3
  <2>9. ASSUME NEW x \in Nodes, NEW i \in 1..Len(log[x]), NEW o \in Owners[i]
        PROVE  o \in Nodes /\ i <= Len(log[o])
    <3>1. i \in 1..MaxHeight
      BY <2>3, ProducerAssumption DEF ChainInv, AtHeight
    <3> QED BY <3>1, ProducerAssumption DEF ChainInv, OwnersFirst
  <2>10. OwnersFirst'
    <3> SUFFICES ASSUME NEW x \in Nodes, NEW i \in 1..Len(log'[x]), NEW o \in Owners[i]
                 PROVE  i <= Len(log'[o])
      BY DEF OwnersFirst
    <3>1. PICK y \in Nodes : i \in 1..Len(log[y])
      BY <2>1, <2>5
    <3> QED BY <2>3, <2>8, <2>9, <3>1
  <2>11. RoundInv'
    <3>1. round[n] = 0
      <4> SUFFICES ASSUME round[n] # 0 PROVE FALSE
        OBVIOUS
      <4>1. n \in Owners[h]
        BY <2>2 DEF ChainInv, RoundInv
      <4>2. h <= Len(log[n])
        BY <2>1, <2>9, <4>1
      <4> QED BY <2>2, <2>3, <4>2
    <3> QED BY <1>2, <2>3, <3>1 DEF ChainInv, RoundInv, producerVars
  <2> QED BY <2>3, <2>6, <2>7, <2>10, <2>11 DEF ChainInv
<1> QED BY <1>1, <1>2, ImportGrows DEF ChainInv

\* A round begins for the height above the node's last block.
LEMMA PoolKeeps ==
    ASSUME ChainInv, NEW n \in Nodes, PoolStep(n) \/ SyncStep(n)
    PROVE  ChainInv'
<1>1. TypeInv' /\ UNCHANGED storeVars
  <2>1. TypeInv'
    BY PoolTyped, SyncTyped DEF ChainInv
  <2> QED BY <2>1 DEF PoolStep, SyncStep, SubmitTx, ReadHeight, DrainMempool, SealFails, Restart,
                SyncPeerDone, SyncPeerFails, SyncDone, SyncPeer
<1>2. StoreInv' /\ Agree' /\ AtHeight' /\ OwnersFirst'
  BY <1>1 DEF ChainInv, StoreInv, Linked, Rising, Root, Agree, AtHeight, OwnersFirst, storeVars
<1>3. round \in [Nodes -> 0..MaxHeight] /\ batch \in [Nodes -> Seq(Txs)] /\ log' = log
  BY <1>1 DEF ChainInv, TypeInv, storeVars
<1>4. RoundInv'
  <2>1. CASE UNCHANGED producerVars
    BY <1>3, <2>1 DEF ChainInv, RoundInv, producerVars
  <2>2. CASE EndRound(n)
    <3>1. round' = [round EXCEPT ![n] = 0] /\ batch' = [batch EXCEPT ![n] = <<>>]
      BY <2>2 DEF EndRound
    <3> QED BY <1>3, <3>1 DEF ChainInv, RoundInv
  <2>3. CASE DrainMempool(n)
    <3>1. \/ round' = [round EXCEPT ![n] = 0] /\ batch' = batch /\ batch[n] = <<>>
          \/ batch' = [batch EXCEPT ![n] = mempool[n]] /\ round' = round /\ round[n] # 0
      BY <2>3 DEF DrainMempool
    <3> QED BY <1>3, <3>1 DEF ChainInv, RoundInv
  <2>4. CASE ReadHeight(n)
    <3>1. /\ round' = [round EXCEPT ![n] = TopHeight(n) + 1] /\ UNCHANGED batch
          /\ n \in Owners[TopHeight(n) + 1]
      BY <2>4 DEF ReadHeight
    <3>2. TopHeight(n) = Len(log[n])
      <4>1. PICK k \in Nat : k = Len(log[n]) /\ DOMAIN log[n] = 1..k
        BY DEF ChainInv, TypeInv
      <4>2. Heights(n) = 1..k
        BY <4>1 DEF ChainInv, AtHeight, Heights
      <4>3. CASE log[n] = <<>>
        BY <4>1, <4>3 DEF TopHeight
      <4>4. CASE log[n] # <<>>
        <5>1. TopHeight(n) \in 1..k /\ \A h \in 1..k : h <= TopHeight(n)
          BY <4>2, <4>4, TopIs DEF ChainInv
        <5>2. k \in 1..k
          BY <5>1
        <5> QED BY <4>1, <5>1, <5>2
      <4> QED BY <4>3, <4>4
    <3>3. round' = [round EXCEPT ![n] = Len(log[n]) + 1] /\ n \in Owners[Len(log[n]) + 1]
      BY <3>1, <3>2
    <3>4. round'[n] # 0
      BY <1>3, <3>3, TopIs, <3>2 DEF ChainInv
    <3> QED BY <1>3, <3>1, <3>3, <3>4 DEF ChainInv, RoundInv
  <2> QED BY <2>1, <2>2, <2>3, <2>4 DEF PoolStep, SyncStep, SubmitTx, SealFails, Restart,
                SyncPeerDone, SyncPeerFails, SyncDone, SyncPeer
<1> QED BY <1>1, <1>2, <1>4 DEF ChainInv

LEMMA ChainNext ==
    ASSUME OneOwner, ChainInv, [Next]_vars
    PROVE  ChainInv'
<1>1. CASE UNCHANGED vars
  BY <1>1 DEF vars, ChainInv, TypeInv, StoreInv, Linked, Rising, Root, Agree, AtHeight,
              OwnersFirst, RoundInv
<1>2. CASE Next
  <2>1. PICK n \in Nodes : \/ PoolStep(n) \/ SyncStep(n) \/ Seal(n)
                           \/ \E b \in Sealed : GossipBlock(n, b)
                           \/ SyncBlock(n)
    BY <1>2, StepKinds DEF ChainInv
  <2>2. TypeInv'
    BY <1>2, TypeNext DEF ChainInv
  <2>3. CASE \E b \in Sealed : GossipBlock(n, b)
    BY <2>2, <2>3, ImportKeeps DEF GossipBlock
  <2>4. CASE SyncBlock(n)
    BY <2>2, <2>4, ImportKeeps, SyncBlockImports DEF ChainInv
  <2> QED BY <2>1, <2>3, <2>4, PoolKeeps, SealKeeps
<1> QED BY <1>1, <1>2

LEMMA ChainInit == Init => ChainInv
<1> SUFFICES ASSUME Init PROVE ChainInv
  OBVIOUS
<1>1. TypeInv
  BY TypeInit, ProducerAssumption
<1>2. \A n \in Nodes : log[n] = <<>> /\ Len(log[n]) = 0 /\ db[n] = Genesis /\ round[n] = 0 /\ batch[n] = <<>>
  BY DEF Init
<1>3. \A n \in Nodes : \A i \in 1..Len(log[n]) : FALSE
  BY <1>2
<1>4. \A n \in Nodes : \A i, j \in 0..Len(log[n]) : ~ (i < j)
  BY <1>2
<1>5. StoreInv
  BY <1>2, <1>3, <1>4 DEF StoreInv, Linked, Rising, Root
<1>6. Agree /\ OwnersFirst /\ AtHeight
  BY <1>2, <1>3, ProducerAssumption DEF Agree, OwnersFirst, AtHeight
<1>7. RoundInv
  BY <1>2 DEF RoundInv
<1> QED BY <1>1, <1>5, <1>6, <1>7 DEF ChainInv

LEMMA AgreeIsPrefix ==
    ASSUME NEW S, NEW s \in Seq(S), NEW t \in Seq(S), Len(s) <= Len(t), \A i \in 1..Len(s) : s[i] = t[i]
    PROVE  IsPrefix(s, t)
<1>1. PICK k \in Nat : k = Len(s)
  OBVIOUS
<1>2. SubSeq(s, 1, k) = [i \in 1..k |-> s[i]] /\ SubSeq(t, 1, k) = [i \in 1..k |-> t[i]]
  <2>1. (1 - 1) = 0 /\ (k - 1) + 1 = k
    BY <1>1
  <2> QED BY <1>1, <2>1
<1> QED BY <1>1, <1>2 DEF IsPrefix

(***************************************************************************)
(* Where every height has one owner, of two logs one is the beginning of   *)
(* the other.                                                              *)
(***************************************************************************)
THEOREM LogsAlwaysAgree ==
    ASSUME OneOwner
    PROVE  Spec => []LogsAgree
<1>1. ChainInv => LogsAgree
  <2> SUFFICES ASSUME ChainInv, NEW m \in Nodes, NEW n \in Nodes
               PROVE  IsPrefix(log[m], log[n]) \/ IsPrefix(log[n], log[m])
    BY DEF LogsAgree
  <2>1. log[m] \in Seq(Block) /\ log[n] \in Seq(Block)
    BY DEF ChainInv, TypeInv
  <2>2. Len(log[m]) \in Nat /\ Len(log[n]) \in Nat
    BY <2>1
  <2>3. CASE Len(log[m]) <= Len(log[n])
    <3>1. \A i \in 1..Len(log[m]) : log[m][i] = log[n][i]
      BY <2>2, <2>3 DEF ChainInv, Agree
    <3> QED BY <2>1, <2>3, <3>1, AgreeIsPrefix
  <2>4. CASE Len(log[n]) <= Len(log[m])
    <3>1. \A i \in 1..Len(log[n]) : log[n][i] = log[m][i]
      BY <2>2, <2>4 DEF ChainInv, Agree
    <3> QED BY <2>1, <2>4, <3>1, AgreeIsPrefix
  <2> QED BY <2>2, <2>3, <2>4
<1>2. ChainInv /\ [Next]_vars => ChainInv'
  BY ChainNext
<1> QED BY <1>1, <1>2, ChainInit, PTL DEF Spec

-----------------------------------------------------------------------------
(***************************************************************************)
(* Nodes in DAG mode: whatever the committee, the shortcuts and the order  *)
(* of blocks, the money of a node is that of a set of stored transactions, *)
(* each counted once.  Run makes such a set of any list, whatever the list *)
(* repeats, so that the canonical order only has to be a list of stored    *)
(* transactions, and a block applied to the tables only a list as well.    *)
(***************************************************************************)
\* The instance's operators are those of TxReplay.
LEMMA SameReplay ==
    /\ \A tab, txs : Dag!Run(tab, txs) = Run(tab, txs)
    /\ \A txs, gone : Dag!Without(txs, gone) = Without(txs, gone)
    /\ Dag!Genesis = Genesis
<1>1. \A tab, txs : Dag!Run(tab, txs) = Run(tab, txs)
  BY DEF Dag!Run, Run, Dag!TryTx, TryTx, Dag!ApplyTx, ApplyTx, Dag!Accepted, Accepted
<1>2. \A txs, gone : Dag!Without(txs, gone) = Without(txs, gone)
  BY DEF Dag!Without, Without, Dag!FlattenSeq, FlattenSeq
<1>3. Dag!Genesis = Genesis
  BY DEF Dag!Genesis, Genesis
<1> QED BY <1>1, <1>2, <1>3

LEMMA SameTools ==
    /\ \A s : Dag!ToSet(s) = ToSet(s)
    /\ \A S : Dag!Min(S) = Min(S)
    /\ \A f, S : Dag!SumFunctionOnSet(f, S) = SumFunctionOnSet(f, S)
    /\ \A S : Dag!Cardinality(S) = Cardinality(S)
<1>1. \A s : Dag!ToSet(s) = ToSet(s)
  BY DEF Dag!ToSet, ToSet
<1>2. \A S : Dag!Min(S) = Min(S)
  BY DEF Dag!Min, Min
<1>3. \A f, S : Dag!SumFunctionOnSet(f, S) = SumFunctionOnSet(f, S)
  BY DEF Dag!SumFunctionOnSet, SumFunctionOnSet, Dag!FoldFunctionOnSet, FoldFunctionOnSet,
         Dag!MapThenFoldSet, MapThenFoldSet
<1>4. \A S : Dag!Cardinality(S) = Cardinality(S)
  BY DEF Dag!Cardinality, Cardinality
<1> QED BY <1>1, <1>2, <1>3, <1>4

-----------------------------------------------------------------------------
(***************************************************************************)
(* What explains a database: a set of transactions, each counted once.     *)
(***************************************************************************)
Got(S, a) == SumFunctionOnSet([t \in S |-> IF t.to = a THEN t.amount ELSE 0], S)
Gave(S, a) == SumFunctionOnSet([t \in S |-> IF t.sender = a THEN t.amount ELSE 0], S)
SentBy(S, a) == {t \in S : t.sender = a}
Fits(S, tab) ==
    /\ S \subseteq Txs /\ IsFiniteSet(S)
    /\ \A t, u \in S : t.sender = u.sender /\ t.nonce = u.nonce => t = u
    /\ \A t \in S : t.nonce < tab.nonce[t.sender]
    /\ \A a \in Accounts : tab.nonce[a] = Cardinality(SentBy(S, a))
    /\ \A a \in Accounts : tab.balance[a] = Genesis.balance[a] + Got(S, a) - Gave(S, a)

LEMMA FitsExplains ==
    ASSUME NEW tab \in DbType, NEW S, Fits(S, tab)
    PROVE  Dag!Explains(S, tab)
<1>1. tab.nonce = [a \in Accounts |-> Cardinality({t \in S : t.sender = a})]
  BY DEF Fits, DbType, SentBy
<1>2. tab.balance = [a \in Accounts |-> Genesis.balance[a] + Got(S, a) - Gave(S, a)]
  BY DEF Fits, DbType
<1>3. \A t, u \in S : t.sender = u.sender /\ t.nonce = u.nonce => t = u
  BY DEF Fits
<1> QED BY <1>1, <1>2, <1>3, SameTools, SameReplay DEF Dag!Explains, Got, Gave

\* What a set of transactions moves is a number, and one transaction more adds its amount.
LEMMA AmountsTyped ==
    ASSUME NEW S, S \subseteq Txs, IsFiniteSet(S), NEW a
    PROVE  Got(S, a) \in Int /\ Gave(S, a) \in Int
<1>1. \A t \in S : t.amount \in Int
  BY TxIs DEF TxType
<1> DEFINE f == [t \in S |-> IF t.to = a THEN t.amount ELSE 0]
           g == [t \in S |-> IF t.sender = a THEN t.amount ELSE 0]
<1>2. (\A t \in S : f[t] \in Int) /\ (\A t \in S : g[t] \in Int)
  BY <1>1
<1> HIDE DEF f, g
<1>3. SumFunctionOnSet(f, S) \in Int /\ SumFunctionOnSet(g, S) \in Int
  BY <1>2, SumInt
<1> QED BY <1>3 DEF Got, Gave, f, g

LEMMA AmountsAdd ==
    ASSUME NEW S, S \subseteq Txs, IsFiniteSet(S), NEW tx \in Txs, tx \notin S, NEW a
    PROVE  /\ Got(S \cup {tx}, a) = Got(S, a) + (IF tx.to = a THEN tx.amount ELSE 0)
           /\ Gave(S \cup {tx}, a) = Gave(S, a) + (IF tx.sender = a THEN tx.amount ELSE 0)
<1> DEFINE T == S \cup {tx}
           f == [t \in T |-> IF t.to = a THEN t.amount ELSE 0]
           g == [t \in T |-> IF t.sender = a THEN t.amount ELSE 0]
           f0 == [t \in S |-> IF t.to = a THEN t.amount ELSE 0]
           g0 == [t \in S |-> IF t.sender = a THEN t.amount ELSE 0]
<1>1. \A t \in T : t.amount \in Int
  BY TxIs DEF TxType
<1>2. /\ \A t \in T : f[t] \in Int /\ g[t] \in Int
      /\ \A t \in S : f[t] = f0[t] /\ g[t] = g0[t]
      /\ f[tx] = (IF tx.to = a THEN tx.amount ELSE 0)
      /\ g[tx] = (IF tx.sender = a THEN tx.amount ELSE 0)
  BY <1>1
<1>3. S \subseteq T /\ tx \in T
  OBVIOUS
<1> HIDE DEF f, g, f0, g0
<1>4. /\ SumFunctionOnSet(f, S \cup {tx}) = f[tx] + SumFunctionOnSet(f, S)
      /\ SumFunctionOnSet(g, S \cup {tx}) = g[tx] + SumFunctionOnSet(g, S)
  BY <1>2, <1>3, SumAdd
<1>5. SumFunctionOnSet(f, S) = SumFunctionOnSet(f0, S) /\ SumFunctionOnSet(g, S) = SumFunctionOnSet(g0, S)
  BY <1>2, SumEqual
<1>6. SumFunctionOnSet(f0, S) \in Int /\ SumFunctionOnSet(g0, S) \in Int /\ f[tx] \in Int /\ g[tx] \in Int
  BY AmountsTyped, <1>2, <1>3 DEF Got, Gave, f0, g0
<1>7. /\ Got(S \cup {tx}, a) = SumFunctionOnSet(f, T) /\ Got(S, a) = SumFunctionOnSet(f0, S)
      /\ Gave(S \cup {tx}, a) = SumFunctionOnSet(g, T) /\ Gave(S, a) = SumFunctionOnSet(g0, S)
  BY DEF Got, Gave, f, g, f0, g0
<1> QED BY <1>2, <1>4, <1>5, <1>6, <1>7

\* One transaction more is in the set when it is accepted, for its nonce is the next one
\* of its sender, which nothing in the set has.
LEMMA FitsNext ==
    ASSUME NEW tab \in DbType, NEW S, Fits(S, tab), NEW tx \in Txs
    PROVE  \E R \in SUBSET (S \cup {tx}) : S \subseteq R /\ Fits(R, ApplyTx(tab, tx))
<1>1. /\ tx.sender \in Accounts /\ tx.to \in Accounts /\ tx.nonce \in Nat /\ tx.amount \in Nat
      /\ \A t \in S : t \in Txs /\ t.sender \in Accounts /\ t.nonce \in Nat
  BY TxIs DEF TxType, Fits
<1>2. tab.nonce \in [Accounts -> Int] /\ tab.balance \in [Accounts -> Int]
  BY DEF DbType
<1>3. CASE ~ Accepted(tab, tx)
  <2>1. ApplyTx(tab, tx).nonce = tab.nonce /\ ApplyTx(tab, tx).balance = tab.balance
    BY <1>3 DEF ApplyTx, DbType
  <2> QED BY <2>1 DEF Fits
<1>4. CASE Accepted(tab, tx)
  <2> DEFINE R == S \cup {tx}
             new == ApplyTx(tab, tx)
  <2>1. /\ tx.nonce = tab.nonce[tx.sender]
        /\ new.nonce = [tab.nonce EXCEPT ![tx.sender] = @ + 1]
        /\ new.balance = [[tab.balance EXCEPT ![tx.sender] = @ - tx.amount]
                             EXCEPT ![tx.to] = @ + tx.amount]
    BY <1>4 DEF ApplyTx, Accepted
  <2>2. tx \notin S /\ \A t \in S : t.sender = tx.sender => t.nonce # tx.nonce
    BY <1>1, <1>2, <2>1 DEF Fits
  <2>3. R \subseteq Txs /\ IsFiniteSet(R)
    BY FS_AddElement DEF Fits
  <2>4. \A t, u \in R : t.sender = u.sender /\ t.nonce = u.nonce => t = u
    BY <2>2 DEF Fits
  <2>5. \A t \in R : t.nonce < new.nonce[t.sender]
    BY <1>1, <1>2, <2>1 DEF Fits
  <2>6. ASSUME NEW a \in Accounts PROVE new.nonce[a] = Cardinality(SentBy(R, a))
    <3>1. IsFiniteSet(SentBy(S, a)) /\ SentBy(S, a) \subseteq S
      BY FS_Subset DEF Fits, SentBy
    <3>2. tab.nonce[a] = Cardinality(SentBy(S, a)) /\ tab.nonce[a] \in Int
      BY <1>2 DEF Fits
    <3>3. CASE a = tx.sender
      <4>1. SentBy(R, a) = SentBy(S, a) \cup {tx} /\ tx \notin SentBy(S, a)
        BY <2>2, <3>3 DEF SentBy
      <4>2. Cardinality(SentBy(R, a)) = Cardinality(SentBy(S, a)) + 1
        BY <3>1, <4>1, FS_AddElement
      <4> QED BY <1>2, <2>1, <3>2, <3>3, <4>2
    <3>4. CASE a # tx.sender
      <4>1. SentBy(R, a) = SentBy(S, a)
        BY <3>4 DEF SentBy
      <4> QED BY <1>2, <2>1, <3>2, <3>4, <4>1
    <3> QED BY <3>3, <3>4
  <2>7. ASSUME NEW a \in Accounts
        PROVE  new.balance[a] = Genesis.balance[a] + Got(R, a) - Gave(R, a)
    <3>1. tab.balance[a] = Genesis.balance[a] + Got(S, a) - Gave(S, a) /\ tab.balance[a] \in Int
      BY <1>2 DEF Fits
    <3>2. Got(S, a) \in Int /\ Gave(S, a) \in Int /\ Genesis.balance[a] \in Int
      BY AmountsTyped, GenesisTyped DEF Fits, DbType
    <3>3. /\ Got(R, a) = Got(S, a) + (IF tx.to = a THEN tx.amount ELSE 0)
          /\ Gave(R, a) = Gave(S, a) + (IF tx.sender = a THEN tx.amount ELSE 0)
      BY <2>2, AmountsAdd DEF Fits
    <3>4. new.balance[a] = tab.balance[a] + (IF tx.to = a THEN tx.amount ELSE 0)
                                          - (IF tx.sender = a THEN tx.amount ELSE 0)
      <4> DEFINE taken == [tab.balance EXCEPT ![tx.sender] = @ - tx.amount]
      <4>1. taken \in [Accounts -> Int]
            /\ taken[a] = tab.balance[a] - (IF tx.sender = a THEN tx.amount ELSE 0)
        BY <1>1, <1>2
      <4>2. new.balance = [taken EXCEPT ![tx.to] = @ + tx.amount]
        BY <2>1
      <4> HIDE DEF taken, new
      <4>3. new.balance[a] = taken[a] + (IF tx.to = a THEN tx.amount ELSE 0)
        BY <1>1, <4>1, <4>2
      <4> QED BY <1>1, <1>2, <4>1, <4>3
    <3> QED BY <1>1, <3>1, <3>2, <3>3, <3>4
  <2> HIDE DEF R, new
  <2>8. Fits(R, new)
    BY <2>3, <2>4, <2>5, <2>6, <2>7 DEF Fits
  <2> QED BY <2>8 DEF R, new
<1> QED BY <1>3, <1>4

LEMMA ToSetAppend ==
    ASSUME NEW S, NEW t \in Seq(S), NEW x \in S
    PROVE  ToSet(Append(t, x)) = ToSet(t) \cup {x} /\ Append(t, x) \in Seq(S)
<1>1. PICK n \in Nat : n = Len(t) /\ DOMAIN t = 1..n
  OBVIOUS
<1> DEFINE w == Append(t, x)
<1>2. w \in Seq(S) /\ DOMAIN w = 1..(n + 1) /\ w[n + 1] = x /\ \A i \in 1..n : w[i] = t[i]
  BY <1>1
<1>3. 1..(n + 1) = (1..n) \cup {n + 1}
  BY <1>1
<1> HIDE DEF w
<1>4. {w[i] : i \in 1..(n + 1)} = {t[i] : i \in 1..n} \cup {x}
  BY <1>2, <1>3
<1> QED BY <1>1, <1>2, <1>4 DEF ToSet, w

\* A list of transactions, repetitions and all.
LEMMA FitsRun ==
    ASSUME NEW tab \in DbType, NEW S, Fits(S, tab)
    PROVE  \A s \in Seq(Txs) : \E R \in SUBSET (S \cup ToSet(s)) : Fits(R, Run(tab, s).db)
<1> DEFINE P == {s \in Seq(Txs) : \E R \in SUBSET (S \cup ToSet(s)) : Fits(R, Run(tab, s).db)}
<1>1. <<>> \in P
  <2>1. Run(tab, <<>>).db = tab /\ <<>> \in Seq(Txs)
    BY RunNone
  <2> QED BY <2>1
<1>2. ASSUME NEW t \in Seq(Txs), NEW x \in Txs, t \in P PROVE Append(t, x) \in P
  <2>1. PICK R \in SUBSET (S \cup ToSet(t)) : Fits(R, Run(tab, t).db)
    BY <1>2
  <2>2. Run(tab, t).db \in DbType
    BY RunTyped DEF RunType
  <2>3. PICK Q \in SUBSET (R \cup {x}) : Fits(Q, ApplyTx(Run(tab, t).db, x))
    BY <2>1, <2>2, FitsNext
  <2>4. ToSet(Append(t, x)) = ToSet(t) \cup {x} /\ Append(t, x) \in Seq(Txs)
    BY ToSetAppend
  <2>5. Run(tab, Append(t, x)).db = ApplyTx(Run(tab, t).db, x)
    BY RunOneMore, TryParts
  <2>6. Q \in SUBSET (S \cup ToSet(Append(t, x)))
    BY <2>1, <2>3, <2>4
  <2> QED BY <2>3, <2>4, <2>5, <2>6
<1> HIDE DEF P
<1>3. Seq(Txs) \subseteq P
  BY <1>1, <1>2, SeqInduction
<1> QED BY <1>3 DEF P

LEMMA FitsGenesis == Fits({}, Genesis)
<1>1. IsFiniteSet({}) /\ Cardinality({}) = 0
  BY FS_EmptySet
<1>2. \A a : Got({}, a) = 0 /\ Gave({}, a) = 0 /\ SentBy({}, a) = {}
  BY SumEmpty DEF Got, Gave, SentBy
<1>3. \A a \in Accounts : Genesis.nonce[a] = 0 /\ Genesis.balance[a] \in Int
  BY ReplayAssumption DEF Genesis
<1> QED BY <1>1, <1>2, <1>3 DEF Fits

-----------------------------------------------------------------------------
(* The canonical order, whatever the DAG: a sequence of what was found.     *)
OneRank ==
    /\ DagHeight \in Nat
    /\ DagRank \in [Txs -> Nat] /\ \A t, u \in Txs : DagRank[t] = DagRank[u] => t = u
IsBlock(b) == b.height \in 0..DagHeight /\ b.txs \in Seq(Txs)

LEMMA ToSetFinite == \A s \in Seq(Txs) : IsFiniteSet(ToSet(s)) /\ ToSet(s) \subseteq Txs
<1> DEFINE P == {s \in Seq(Txs) : IsFiniteSet(ToSet(s)) /\ ToSet(s) \subseteq Txs}
<1>1. <<>> \in P
  <2>1. ToSet(<<>>) = {} /\ <<>> \in Seq(Txs)
    BY DEF ToSet
  <2> QED BY <2>1, FS_EmptySet
<1>2. ASSUME NEW t \in Seq(Txs), NEW x \in Txs, t \in P PROVE Append(t, x) \in P
  BY <1>2, ToSetAppend, FS_AddElement
<1> HIDE DEF P
<1>3. Seq(Txs) \subseteq P
  BY <1>1, <1>2, SeqInduction
<1> QED BY <1>3 DEF P

LEMMA OriginTyped ==
    ASSUME OneRank, NEW V, \A b \in V : IsBlock(b), NEW t \in Dag!TxsOf(V)
    PROVE  Dag!Origin(V, t) \in Nat
<1> DEFINE H == {b.height : b \in {v \in V : t \in ToSet(v.txs)}}
<1>1. H \in SUBSET Nat /\ H # {}
  <2>1. H \subseteq Nat
    BY DEF IsBlock, OneRank
  <2>2. PICK b \in V : t \in ToSet(b.txs)
    BY SameTools DEF Dag!TxsOf
  <2> QED BY <2>1, <2>2
<1>2. Dag!Origin(V, t) = Min(H)
  BY SameTools DEF Dag!Origin
<1> HIDE DEF H
<1>3. PICK m \in H : \A k \in H : m <= k
  BY <1>1, LeastNat
<1>4. Min(H) \in H
  BY <1>3 DEF Min
<1> QED BY <1>1, <1>2, <1>4

LEMMA BeforeOrders ==
    ASSUME OneRank, NEW V, \A b \in V : IsBlock(b), Dag!TxsOf(V) \subseteq Txs,
           NEW t \in Dag!TxsOf(V), NEW u \in Dag!TxsOf(V)
    PROVE  /\ ~ Dag!Before(V, t, t)
           /\ t # u => Dag!Before(V, t, u) \/ Dag!Before(V, u, t)
           /\ Dag!Before(V, t, u) => \A v \in Dag!TxsOf(V) : Dag!Before(V, v, t) => Dag!Before(V, v, u)
<1>1. \A v \in Dag!TxsOf(V) : Dag!Origin(V, v) \in Nat /\ DagRank[v] \in Nat
  BY OriginTyped DEF OneRank
<1>2. t # u => DagRank[t] # DagRank[u]
  BY DEF OneRank
<1> QED BY <1>1, <1>2 DEF Dag!Before

\* Places by Cardinality are a bijection, so that Sorted chooses a transaction at each.
LEMMA SortedTyped ==
    ASSUME OneRank, NEW V, \A b \in V : IsBlock(b), Dag!TxsOf(V) \subseteq Txs, IsFiniteSet(Dag!TxsOf(V))
    PROVE  Dag!Sorted(V) \in Seq(Dag!TxsOf(V))
<1> DEFINE found == Dag!TxsOf(V)
           N == Dag!Cardinality(found)
           lower(t) == {u \in found : Dag!Before(V, u, t)}
           place == [t \in found |-> 1 + Dag!Cardinality(lower(t))]
           spots == 1..N
<1>1. N \in Nat /\ N = Cardinality(found) /\ \A t \in found : place[t] = 1 + Cardinality(lower(t))
  BY SameTools, FS_CardinalityType
<1>2. \A t \in found : IsFiniteSet(lower(t)) /\ Cardinality(lower(t)) \in Nat
  BY FS_Subset, FS_CardinalityType
<1>3. place \in [found -> spots]
  <2>1. ASSUME NEW t \in found PROVE 1 + Cardinality(lower(t)) \in 1..N
    <3>1. lower(t) \in SUBSET (found \ {t})
      BY BeforeOrders
    <3>2. IsFiniteSet(found \ {t}) /\ Cardinality(found \ {t}) = N - 1
      BY <1>1, FS_RemoveElement
    <3>3. Cardinality(lower(t)) <= N - 1
      BY <3>1, <3>2, FS_Subset
    <3> QED BY <1>1, <1>2, <3>3
  <2>2. \A t \in found : place[t] \in 1..N
    BY <1>1, <2>1
  <2>3. DOMAIN place = found /\ place = [t \in found |-> place[t]]
    OBVIOUS
  <2> HIDE DEF place, found, N
  <2> QED BY <2>2, <2>3 DEF spots
<1>4. ASSUME NEW t \in found, NEW u \in found, Dag!Before(V, t, u) PROVE place[t] # place[u]
  <2>1. lower(t) \cup {t} \in SUBSET lower(u) /\ t \notin lower(t)
    BY <1>4, BeforeOrders
  <2>2. Cardinality(lower(t) \cup {t}) = Cardinality(lower(t)) + 1
    BY <1>2, <2>1, FS_AddElement
  <2>3. Cardinality(lower(t)) + 1 <= Cardinality(lower(u))
    BY <1>2, <2>1, <2>2, FS_Subset
  <2>4. PICK j \in Nat, k \in Nat : j = Cardinality(lower(t)) /\ k = Cardinality(lower(u))
    BY <1>2
  <2>5. place[t] = 1 + j /\ place[u] = 1 + k
    BY <1>1, <2>4
  <2>6. j + 1 <= k
    BY <2>3, <2>4
  <2> HIDE DEF place, found, lower
  <2> QED BY <2>4, <2>5, <2>6
<1>5. place \in Injection(found, spots)
  <2>1. ASSUME NEW t \in found, NEW u \in found, place[t] = place[u] PROVE t = u
    BY <1>4, <2>1, BeforeOrders
  <2> HIDE DEF place, found, spots
  <2> QED BY <1>3, <2>1 DEF Injection, IsInjective
<1>6. place \in Surjection(found, spots)
  <2>1. IsFiniteSet(spots) /\ Cardinality(found) = Cardinality(spots)
    BY <1>1, FS_Interval
  <2> HIDE DEF place, found, N, spots
  <2> QED BY <1>5, <2>1, FS_Injection
<1>7. \A i \in 1..N : \E t \in found : place[t] = i
  <2> HIDE DEF place, found
  <2> QED BY <1>6 DEF Surjection
<1>8. Dag!Sorted(V) = [i \in 1..N |-> CHOOSE t \in found : place[t] = i]
  BY DEF Dag!Sorted
<1> HIDE DEF place, found, N
<1>9. \A i \in 1..N : (CHOOSE t \in found : place[t] = i) \in found
  BY <1>7
<1>10. Dag!Sorted(V) \in [1..N -> found]
  BY <1>8, <1>9
<1> QED BY <1>1, <1>10 DEF found

LEMMA OrderTyped ==
    ASSUME OneRank, NEW V, \A b \in V : IsBlock(b), IsFiniteSet(Dag!TxsOf(V)), NEW frontier
    PROVE  /\ Dag!CanonicalOrder(V, frontier) \in Seq(Txs)
           /\ ToSet(Dag!CanonicalOrder(V, frontier)) \subseteq Dag!TxsOf(V)
<1> DEFINE A == Dag!Ancestors(V, frontier)
<1>1. A \subseteq V
  BY DEF Dag!Ancestors
<1> HIDE DEF A
<1>2. Dag!TxsOf(V) \subseteq Txs
  BY SameTools, ToSetFinite DEF Dag!TxsOf, IsBlock
<1>3. Dag!TxsOf(A) \in SUBSET Dag!TxsOf(V)
  BY <1>1 DEF Dag!TxsOf
<1>4. IsFiniteSet(Dag!TxsOf(A)) /\ Dag!TxsOf(A) \subseteq Txs
  BY <1>2, <1>3, FS_Subset
<1>5. Dag!Sorted(A) \in Seq(Dag!TxsOf(A))
  BY <1>1, <1>4, SortedTyped
<1>6. \A i \in DOMAIN Dag!Sorted(A) : Dag!Sorted(A)[i] \in Dag!TxsOf(A)
  BY <1>5
<1>7. Dag!Sorted(A) \in Seq(Txs)
  BY <1>4, <1>5
<1> QED BY <1>3, <1>6, <1>7 DEF Dag!CanonicalOrder, ToSet, A

-----------------------------------------------------------------------------
(* The invariant: types, and every node's tables explained.                 *)
Domains ==
    /\ DOMAIN blocks = DagNodes /\ DOMAIN tables = DagNodes /\ DOMAIN dagPool = DagNodes
    /\ DOMAIN dagRound = DagNodes /\ DOMAIN apply = DagNodes
    /\ \A n \in DagNodes : DOMAIN apply[n] = {"producer", "importer"}
Blocks == \A n \in DagNodes : \A b \in blocks[n] : IsBlock(b)
Pools == \A n \in DagNodes : dagPool[n] \in Seq(Txs)
Rounds == \A n \in DagNodes :
    /\ dagRound[n].step \in {"height", "replay"} => dagRound[n].height \in 0..DagHeight
    /\ dagRound[n].step = "replay" => dagRound[n].batch \in Seq(Txs)
Applied == \A n \in DagNodes, r \in {"producer", "importer"} :
    apply[n][r].step \in {"verify", "store", "mark"} => IsBlock(apply[n][r].block)
Explained == \A n \in DagNodes :
    /\ tables[n] \in DbType
    /\ IsFiniteSet(Dag!TxsOf(blocks[n]))
    /\ \E S \in SUBSET Dag!TxsOf(blocks[n]) : Fits(S, tables[n])
DagInv == Domains /\ Blocks /\ Pools /\ Rounds /\ Applied /\ Explained

LEMMA AssumptionRanks == OneRank
BY ChainsAssumption DEF Dag!DagAssumption, Dag!IsInjective, OneRank

\* The greatest height is one, by the least distance from the bound.
LEMMA TopRead ==
    ASSUME OneRank, NEW store, \A b \in store : IsBlock(b)
    PROVE  Dag!TopHeight(store) \in 0..DagHeight
<1> DEFINE H == {0} \cup {b.height : b \in store}
           D == {k \in Nat : \E h \in H : k = DagHeight - h}
<1>1. DagHeight \in Nat /\ \A h \in H : h \in 0..DagHeight
  BY DEF OneRank, IsBlock
<1>2. D \in SUBSET Nat /\ D # {}
  <2>1. 0 \in H /\ DagHeight \in D
    BY <1>1
  <2> QED BY <2>1
<1>3. PICK k \in D : \A j \in D : k <= j
  BY <1>2, LeastNat
<1>4. PICK h \in H : k = DagHeight - h
  BY <1>3
<1>5. ASSUME NEW g \in H PROVE h >= g
  <2>1. DagHeight - g \in D
    BY <1>1
  <2>2. PICK j \in D : j = DagHeight - g
    BY <2>1
  <2>3. k <= j /\ j \in Nat /\ k \in Nat
    BY <1>3, <2>2
  <2> QED BY <1>1, <1>4, <2>2, <2>3
<1> HIDE DEF H, D
<1>6. Dag!Max(H) \in H
  BY <1>5 DEF Dag!Max
<1> QED BY <1>1, <1>6 DEF Dag!TopHeight, H

\* A replay from genesis is explained by what it replays.
LEMMA CanonicalFits ==
    ASSUME OneRank, NEW V, \A b \in V : IsBlock(b), IsFiniteSet(Dag!TxsOf(V)), NEW frontier
    PROVE  /\ Dag!Canonical(V, frontier) \in DbType
           /\ \E S \in SUBSET Dag!TxsOf(V) : Fits(S, Dag!Canonical(V, frontier))
<1> DEFINE s == Dag!CanonicalOrder(V, frontier)
<1>1. s \in Seq(Txs) /\ ToSet(s) \subseteq Dag!TxsOf(V)
  BY OrderTyped
<1>2. Dag!Canonical(V, frontier) = Run(Genesis, s).db
  BY SameReplay DEF Dag!Canonical
<1> HIDE DEF s
<1>3. Run(Genesis, s).db \in DbType
  BY <1>1, GenesisTyped, RunTyped DEF RunType
<1>4. PICK R \in SUBSET ({} \cup ToSet(s)) : Fits(R, Run(Genesis, s).db)
  BY <1>1, GenesisTyped, FitsGenesis, FitsRun
<1> QED BY <1>1, <1>2, <1>3, <1>4

LEMMA BaseTyped ==
    ASSUME OneRank, DagInv, NEW n \in DagNodes, NEW parents, NEW shortcut
    PROVE  Dag!Base(n, parents, shortcut) \in DbType
BY CanonicalFits DEF DagInv, Blocks, Explained, Dag!Base

LEMMA DagStart == Dag!Init => DagInv
<1> SUFFICES ASSUME Dag!Init PROVE DagInv
  OBVIOUS
<1>1. /\ blocks = [n \in DagNodes |-> {}] /\ tables = [n \in DagNodes |-> Genesis]
      /\ dagPool = [n \in DagNodes |-> <<>>]
      /\ dagRound = [n \in DagNodes |-> [step |-> "idle"]]
      /\ apply = [n \in DagNodes |-> [r \in {"producer", "importer"} |-> [step |-> "idle"]]]
  BY SameReplay DEF Dag!Init, Dag!NoRound, Dag!NoApply, Dag!Threads
<1>2. Dag!TxsOf({}) = {} /\ IsFiniteSet({})
  BY FS_EmptySet DEF Dag!TxsOf
<1>3. Explained
  BY <1>1, <1>2, GenesisTyped, FitsGenesis DEF Explained
<1>4. Domains
  BY <1>1 DEF Domains
<1>5. Blocks /\ Pools /\ Rounds /\ Applied
  BY <1>1 DEF Blocks, Pools, Rounds, Applied
<1> QED BY <1>3, <1>4, <1>5 DEF DagInv

-----------------------------------------------------------------------------
(* Every step keeps it.                                                     *)

LEMMA DagSubmitKeeps ==
    ASSUME DagInv, NEW n \in DagNodes, NEW tx \in Txs, Dag!SubmitTx(n, tx)
    PROVE  DagInv'
<1>1. dagPool' = [dagPool EXCEPT ![n] = Append(@, tx)] /\ UNCHANGED <<blocks, tables, dagRound, apply>>
  BY DEF Dag!SubmitTx, Dag!stateVars
<1>2. \A m \in DagNodes : dagPool'[m] \in Seq(Txs)
  <2>1. ASSUME NEW m \in DagNodes PROVE dagPool'[m] \in Seq(Txs)
    <3>1. dagPool[m] \in Seq(Txs) /\ dagPool'[m] = (IF m = n THEN Append(dagPool[m], tx) ELSE dagPool[m])
      BY <1>1 DEF DagInv, Domains, Pools
    <3> QED BY <3>1
  <2> QED BY <2>1
<1> QED BY <1>1, <1>2 DEF DagInv, Domains, Blocks, Pools, Rounds, Applied, Explained

LEMMA DagReadHeightKeeps ==
    ASSUME OneRank, DagInv, NEW n \in DagNodes, Dag!ReadHeight(n)
    PROVE  DagInv'
<1> DEFINE h == Dag!TopHeight(blocks[n]) + 1
<1>1. /\ h <= DagHeight /\ dagRound' = [dagRound EXCEPT ![n] = [step |-> "height", height |-> h]]
      /\ UNCHANGED <<blocks, tables, dagPool, apply>>
  BY DEF Dag!ReadHeight, Dag!stateVars, Dag!poolVars
<1>2. h \in 0..DagHeight
  BY <1>1, TopRead DEF DagInv, Blocks, OneRank
<1> HIDE DEF h
<1>3. Rounds'
  BY <1>1, <1>2 DEF DagInv, Domains, Rounds
<1> QED BY <1>1, <1>3 DEF DagInv, Domains, Blocks, Pools, Applied, Explained

LEMMA DagDrainKeeps ==
    ASSUME DagInv, NEW n \in DagNodes, Dag!DrainMempool(n)
    PROVE  DagInv'
<1> DEFINE next == IF dagPool[n] = <<>> THEN [step |-> "idle"]
                  ELSE [step |-> "replay", height |-> dagRound[n].height,
                        parents |-> Dag!Tips(blocks[n]), batch |-> dagPool[n],
                        shortcut |-> marker[n] = Dag!Tips(blocks[n])]
<1>0. dagRound' = [dagRound EXCEPT ![n] = next]
  BY DEF Dag!DrainMempool, Dag!NoRound
<1>1. \/ next.step = "idle"
      \/ next.step = "replay" /\ next.height = dagRound[n].height /\ next.batch = dagPool[n]
  OBVIOUS
<1> HIDE DEF next
<1>2. /\ dagRound[n].step = "height" /\ dagPool' = [dagPool EXCEPT ![n] = <<>>]
      /\ UNCHANGED <<blocks, tables, apply>>
  BY DEF Dag!DrainMempool, Dag!stateVars
<1>3. Rounds'
  BY <1>0, <1>1, <1>2 DEF DagInv, Domains, Pools, Rounds
<1>4. Pools'
  BY <1>2 DEF DagInv, Domains, Pools
<1> QED BY <1>0, <1>2, <1>3, <1>4 DEF DagInv, Domains, Blocks, Applied, Explained

\* What goes back into a pool is transactions.
LEMMA BackTyped ==
    ASSUME DagInv, NEW n \in DagNodes, NEW txs \in Seq(Txs)
    PROVE  Dag!Reinserted(n, txs) \in Seq(Txs)
<1>1. dagPool[n] \in Seq(Txs) /\ \A gone : Without(txs, gone) \in Seq(Txs)
  BY WithoutTyped DEF DagInv, Pools
<1> QED BY <1>1, SameReplay DEF Dag!Reinserted

LEMMA DagReplayKeeps ==
    ASSUME OneRank, DagInv, NEW n \in DagNodes, Dag!Replay(n)
    PROVE  DagInv'
<1> DEFINE r == dagRound[n]
           run == Run(Dag!Base(n, r.parents, r.shortcut), r.batch)
           block == [height |-> r.height, by |-> n, parents |-> r.parents,
                     txs |-> run.applied, root |-> run.db]
           back == Dag!Reinserted(n, Without(r.batch, Dag!ToSet(run.applied)))
           next == [step |-> "verify", block |-> block, shortcut |-> marker[n] = block.parents]
<1>1. r.step = "replay" /\ r.height \in 0..DagHeight /\ r.batch \in Seq(Txs)
  BY DEF Dag!Replay, DagInv, Rounds
<1>2. /\ dagPool' = [dagPool EXCEPT ![n] = back] /\ dagRound' = [dagRound EXCEPT ![n] = [step |-> "idle"]]
      /\ \/ apply' = apply
         \/ apply' = [apply EXCEPT ![n]["producer"] = next]
      /\ UNCHANGED <<blocks, tables>>
  BY SameReplay DEF Dag!Replay, Dag!NoRound, Dag!stateVars
<1>3. run.applied \in Seq(Txs)
  BY <1>1, BaseTyped, RunTyped DEF RunType
<1>4. IsBlock(next.block)
  BY <1>1, <1>3 DEF IsBlock
<1>5. back \in Seq(Txs)
  BY <1>1, BackTyped, WithoutTyped
<1> HIDE DEF r, run, block, back, next
<1>6. Pools'
  BY <1>2, <1>5 DEF DagInv, Domains, Pools
<1>7. Rounds'
  BY <1>2 DEF DagInv, Domains, Rounds
<1>8. Applied'
  BY <1>2, <1>4 DEF DagInv, Domains, Applied
<1>9. Domains'
  BY <1>2 DEF DagInv, Domains
<1> QED BY <1>2, <1>6, <1>7, <1>8, <1>9 DEF DagInv, Blocks, Explained

LEMMA DagImportKeeps ==
    ASSUME DagInv, NEW n \in DagNodes, NEW m \in DagNodes, NEW b \in blocks[m], Dag!ImportBlock(n, b)
    PROVE  DagInv'
<1> DEFINE next == [step |-> "verify", block |-> b, shortcut |-> marker[n] = b.parents]
<1>1. apply' = [apply EXCEPT ![n]["importer"] = next] /\ UNCHANGED <<blocks, tables, dagPool, dagRound>>
  BY DEF Dag!ImportBlock, Dag!stateVars, Dag!poolVars
<1>2. IsBlock(next.block)
  BY DEF DagInv, Blocks
<1> HIDE DEF next
<1>3. Applied'
  BY <1>1, <1>2 DEF DagInv, Domains, Applied
<1>4. Domains'
  BY <1>1 DEF DagInv, Domains
<1> QED BY <1>1, <1>3, <1>4 DEF DagInv, Blocks, Pools, Rounds, Explained

LEMMA DagRefusedKeeps ==
    ASSUME DagInv, NEW n \in DagNodes, NEW r \in {"producer", "importer"},
           apply[n][r].step \in {"verify", "store"}, Dag!Refused(n, r)
    PROVE  DagInv'
<1> DEFINE back == Dag!Reinserted(n, apply[n][r].block.txs)
<1>1. /\ apply' = [apply EXCEPT ![n][r] = [step |-> "idle"]]
      /\ dagPool' = dagPool \/ dagPool' = [dagPool EXCEPT ![n] = back]
      /\ UNCHANGED <<blocks, tables, dagRound>>
  BY DEF Dag!Refused, Dag!ApplyGoesOn, Dag!NoApply, Dag!stateVars
<1>2. back \in Seq(Txs)
  BY BackTyped DEF DagInv, Applied, IsBlock
<1> HIDE DEF back
<1>3. Pools'
  BY <1>1, <1>2 DEF DagInv, Domains, Pools
<1>4. Applied'
  BY <1>1 DEF DagInv, Domains, Applied
<1>5. Domains'
  BY <1>1 DEF DagInv, Domains
<1> QED BY <1>1, <1>3, <1>4, <1>5 DEF DagInv, Blocks, Rounds, Explained

LEMMA DagVerifyKeeps ==
    ASSUME DagInv, NEW n \in DagNodes, NEW r \in {"producer", "importer"}, Dag!Verify(n, r)
    PROVE  DagInv'
<1>1. apply[n][r].step = "verify"
  BY DEF Dag!Verify, Dag!Applying
<1>2. CASE Dag!Valid(n, apply[n][r])
  <2> DEFINE next == [step |-> "store", block |-> apply[n][r].block]
  <2>1. apply' = [apply EXCEPT ![n][r] = next] /\ UNCHANGED <<blocks, tables, dagPool, dagRound>>
    BY <1>2 DEF Dag!Verify, Dag!ApplyGoesOn, Dag!stateVars, Dag!poolVars
  <2>2. IsBlock(next.block)
    BY <1>1 DEF DagInv, Applied
  <2> HIDE DEF next
  <2>3. Applied'
    BY <2>1, <2>2 DEF DagInv, Domains, Applied
  <2> QED BY <2>1, <2>3 DEF DagInv, Domains, Blocks, Pools, Rounds, Explained
<1>3. CASE ~ Dag!Valid(n, apply[n][r])
  BY <1>1, <1>3, DagRefusedKeeps DEF Dag!Verify
<1> QED BY <1>2, <1>3

LEMMA DagStoreKeeps ==
    ASSUME OneRank, DagInv, NEW n \in DagNodes, NEW r \in {"producer", "importer"}, Dag!Store(n, r)
    PROVE  DagInv'
<1> DEFINE b == apply[n][r].block
           store == blocks[n] \cup {b}
           new == IF Dag!Incremental(n, b, Dag!Tips(store)) THEN Run(tables[n], b.txs).db
                  ELSE Dag!Canonical(store, Dag!Tips(store))
           next == [step |-> "mark", block |-> b, tips |-> Dag!Tips(store)]
<1>1. apply[n][r].step = "store"
  BY DEF Dag!Store, Dag!Applying
<1>2. /\ blocks' = [blocks EXCEPT ![n] = store] /\ tables' = [tables EXCEPT ![n] = new]
      /\ apply' = [apply EXCEPT ![n][r] = next] /\ UNCHANGED <<dagPool, dagRound>>
  BY SameReplay DEF Dag!Store, Dag!ApplyGoesOn, Dag!poolVars
<1>3. IsBlock(b) /\ IsBlock(next.block) /\ \A c \in store : IsBlock(c)
  BY <1>1 DEF DagInv, Applied, Blocks
<1>4. IsFiniteSet(ToSet(b.txs)) /\ b.txs \in Seq(Txs)
  BY <1>3, ToSetFinite DEF IsBlock
<1>5. Dag!TxsOf(store) = Dag!TxsOf(blocks[n]) \cup ToSet(b.txs)
  BY SameTools DEF Dag!TxsOf
<1>6. IsFiniteSet(Dag!TxsOf(blocks[n])) /\ tables[n] \in DbType
  BY DEF DagInv, Explained
<1>7. IsFiniteSet(Dag!TxsOf(store))
  BY <1>4, <1>5, <1>6, FS_Union
<1>8. new \in DbType /\ \E S \in SUBSET Dag!TxsOf(store) : Fits(S, new)
  <2>1. CASE Dag!Incremental(n, b, Dag!Tips(store))
    <3>1. PICK S \in SUBSET Dag!TxsOf(blocks[n]) : Fits(S, tables[n])
      BY DEF DagInv, Explained
    <3>2. PICK R \in SUBSET (S \cup ToSet(b.txs)) : Fits(R, Run(tables[n], b.txs).db)
      BY <1>4, <1>6, <3>1, FitsRun
    <3>3. Run(tables[n], b.txs).db \in DbType
      BY <1>4, <1>6, RunTyped DEF RunType
    <3>4. R \in SUBSET Dag!TxsOf(store)
      BY <1>5, <3>1, <3>2
    <3> QED BY <2>1, <3>2, <3>3, <3>4
  <2>2. CASE ~ Dag!Incremental(n, b, Dag!Tips(store))
    <3>1. new = Dag!Canonical(store, Dag!Tips(store))
      BY <2>2
    <3> HIDE DEF store, new
    <3> QED BY <1>3, <1>7, <3>1, CanonicalFits
  <2> QED BY <2>1, <2>2
<1> HIDE DEF b, store, new, next
<1>9. \A m \in DagNodes : /\ blocks'[m] = (IF m = n THEN store ELSE blocks[m])
                          /\ tables'[m] = (IF m = n THEN new ELSE tables[m])
  BY <1>2 DEF DagInv, Domains
<1>10. Domains'
  BY <1>2 DEF DagInv, Domains
<1>11. Blocks'
  BY <1>3, <1>9 DEF DagInv, Blocks
<1>12. Explained'
  <2>1. ASSUME NEW m \in DagNodes
        PROVE  /\ tables'[m] \in DbType /\ IsFiniteSet(Dag!TxsOf(blocks'[m]))
               /\ \E S \in SUBSET Dag!TxsOf(blocks'[m]) : Fits(S, tables'[m])
    <3>1. CASE m = n
      <4>1. blocks'[m] = store /\ tables'[m] = new
        BY <1>9, <3>1
      <4> QED BY <1>7, <1>8, <4>1
    <3>2. CASE m # n
      <4>1. blocks'[m] = blocks[m] /\ tables'[m] = tables[m]
        BY <1>9, <3>2
      <4> QED BY <4>1 DEF DagInv, Explained
    <3> QED BY <3>1, <3>2
  <2> QED BY <2>1 DEF Explained
<1>13. Applied'
  BY <1>2, <1>3 DEF DagInv, Domains, Applied
<1> QED BY <1>2, <1>10, <1>11, <1>12, <1>13 DEF DagInv, Pools, Rounds

LEMMA DagMarkKeeps ==
    ASSUME DagInv, NEW n \in DagNodes, NEW r \in {"producer", "importer"}, Dag!Mark(n, r)
    PROVE  DagInv'
<1> DEFINE left == Without(dagPool[n], Dag!ToSet(apply[n][r].block.txs))
<1>1. /\ apply' = [apply EXCEPT ![n][r] = [step |-> "idle"]]
      /\ dagPool' = dagPool \/ dagPool' = [dagPool EXCEPT ![n] = left]
      /\ UNCHANGED <<blocks, tables, dagRound>>
  BY SameReplay DEF Dag!Mark, Dag!ApplyGoesOn, Dag!NoApply
<1>2. left \in Seq(Txs)
  BY WithoutTyped DEF DagInv, Pools
<1> HIDE DEF left
<1>3. Pools'
  BY <1>1, <1>2 DEF DagInv, Domains, Pools
<1>4. Applied'
  BY <1>1 DEF DagInv, Domains, Applied
<1>5. Domains'
  BY <1>1 DEF DagInv, Domains
<1> QED BY <1>1, <1>3, <1>4, <1>5 DEF DagInv, Blocks, Rounds, Explained

LEMMA DagRestartKeeps ==
    ASSUME DagInv, NEW n \in DagNodes, Dag!Restart(n)
    PROVE  DagInv'
<1>1. /\ dagPool' = [dagPool EXCEPT ![n] = <<>>] /\ dagRound' = [dagRound EXCEPT ![n] = [step |-> "idle"]]
      /\ apply' = [apply EXCEPT ![n] = [r \in {"producer", "importer"} |-> [step |-> "idle"]]]
      /\ UNCHANGED <<blocks, tables>>
  BY DEF Dag!Restart, Dag!NoRound, Dag!NoApply, Dag!Threads
<1>2. Pools' /\ Rounds'
  BY <1>1 DEF DagInv, Domains, Pools, Rounds
<1>3. Applied'
  BY <1>1 DEF DagInv, Domains, Applied
<1>4. Domains'
  BY <1>1 DEF DagInv, Domains
<1> QED BY <1>1, <1>2, <1>3, <1>4 DEF DagInv, Blocks, Explained

\* A transaction sealed in several blocks lands once or not at all, on every node, though
\* replays meet it several times and blocks are applied to the tables as they are: for any
\* nodes, peers, ranks and transactions (DAG-DESIGN.md:147-148).
THEOREM DagNeverTwice == Dag!Spec => []NeverTwice
<1>1. OneRank /\ \A n \in DagNodes : DagPeers[n] \in SUBSET DagNodes
  BY AssumptionRanks, ChainsAssumption DEF Dag!DagAssumption
<1>2. ASSUME DagInv, [Dag!Next]_Dag!vars PROVE DagInv'
  <2>1. CASE UNCHANGED Dag!vars
    BY <1>2, <2>1 DEF Dag!vars, DagInv, Domains, Blocks, Pools, Rounds, Applied, Explained
  <2>2. ASSUME NEW n \in DagNodes, NEW tx \in Txs, Dag!SubmitTx(n, tx) PROVE DagInv'
    BY <1>2, <2>2, DagSubmitKeeps
  <2>3. ASSUME NEW n \in DagNodes, Dag!ReadHeight(n) PROVE DagInv'
    BY <1>1, <1>2, <2>3, DagReadHeightKeeps
  <2>4. ASSUME NEW n \in DagNodes, Dag!DrainMempool(n) PROVE DagInv'
    BY <1>2, <2>4, DagDrainKeeps
  <2>5. ASSUME NEW n \in DagNodes, Dag!Replay(n) PROVE DagInv'
    BY <1>1, <1>2, <2>5, DagReplayKeeps
  <2>6. ASSUME NEW n \in DagNodes, NEW m \in DagPeers[n], NEW b \in blocks[m], Dag!ImportBlock(n, b)
        PROVE  DagInv'
    <3>1. m \in DagNodes
      BY <1>1
    <3>2. DagInv /\ b \in blocks[m] /\ Dag!ImportBlock(n, b)
      BY <1>2, <2>6
    <3> QED BY <3>1, <3>2, DagImportKeeps
  <2>7. ASSUME NEW n \in DagNodes, NEW r \in {"producer", "importer"},
               Dag!RateLimited(n, r) \/ Dag!StoreFails(n, r)
        PROVE  DagInv'
    BY <1>2, <2>7, DagRefusedKeeps DEF Dag!RateLimited, Dag!StoreFails, Dag!Applying
  <2>8. ASSUME NEW n \in DagNodes, NEW r \in {"producer", "importer"}, Dag!Verify(n, r) PROVE DagInv'
    BY <1>2, <2>8, DagVerifyKeeps
  <2>9. ASSUME NEW n \in DagNodes, NEW r \in {"producer", "importer"}, Dag!Store(n, r) PROVE DagInv'
    BY <1>1, <1>2, <2>9, DagStoreKeeps
  <2>10. ASSUME NEW n \in DagNodes, NEW r \in {"producer", "importer"}, Dag!Mark(n, r) PROVE DagInv'
    BY <1>2, <2>10, DagMarkKeeps
  <2>11. ASSUME NEW n \in DagNodes, Dag!Restart(n) PROVE DagInv'
    BY <1>2, <2>11, DagRestartKeeps
  <2> QED BY <1>2, <2>1, <2>2, <2>3, <2>4, <2>5, <2>6, <2>7, <2>8, <2>9, <2>10, <2>11
          DEF Dag!Next, Dag!Threads
<1>3. ASSUME DagInv PROVE NeverTwice
  <2>1. ASSUME NEW n \in DagNodes
        PROVE  \E S \in SUBSET Dag!TxsOf(blocks[n]) : Dag!Explains(S, tables[n])
    <3>1. tables[n] \in DbType
      BY <1>3 DEF DagInv, Explained
    <3>2. PICK S \in SUBSET Dag!TxsOf(blocks[n]) : Fits(S, tables[n])
      BY <1>3 DEF DagInv, Explained
    <3> QED BY <3>1, <3>2, FitsExplains
  <2> QED BY <2>1 DEF NeverTwice, Dag!NeverTwice
<1> QED BY <1>2, <1>3, DagStart, PTL DEF Dag!Spec

-----------------------------------------------------------------------------
(***************************************************************************)
(* Finality in DAG mode.  What is reached from a frontier: the least set   *)
(* of stored blocks that has the frontier and the parents of its members.  *)
(* The walk of as many steps as there are blocks comes to rest, as each    *)
(* step before that finds another block.                                   *)
(***************************************************************************)
Found(store, seen) == seen \cup UNION {b.parents : b \in seen \cap store}
Walk(g, store, frontier, n) ==
    g = [k \in 0..n |-> IF k = 0 THEN frontier
                        ELSE g[k - 1] \cup UNION {b.parents : b \in g[k - 1] \cap store}]

LEMMA SameCount ==
    /\ \A S : Final!Cardinality(S) = Cardinality(S)
    /\ \A S : Final!IsFiniteSet(S) = IsFiniteSet(S)
BY DEF Final!Cardinality, Cardinality, Final!IsFiniteSet, IsFiniteSet

LEMMA AncestorsChosen ==
    \A store, frontier :
        Final!Ancestors(store, frontier) =
          store \cap (CHOOSE g : Walk(g, store, frontier, Cardinality(store)))[Cardinality(store)]
<1> SUFFICES ASSUME NEW store, NEW frontier
             PROVE  Final!Ancestors(store, frontier) =
                      store \cap (CHOOSE g : Walk(g, store, frontier, Cardinality(store)))[Cardinality(store)]
  OBVIOUS
<1>1. Final!Cardinality(store) = Cardinality(store)
  BY SameCount
<1> QED BY ONLY <1>1, Zenon DEF Final!Ancestors, Walk

LEMMA WalkAt ==
    ASSUME NEW g, NEW store, NEW frontier, NEW n \in Nat, Walk(g, store, frontier, n), NEW k \in 0..n
    PROVE  g[k] = IF k = 0 THEN frontier ELSE Found(store, g[k - 1])
BY DEF Walk, Found

LEMMA WalkOneMore ==
    ASSUME NEW g, NEW store, NEW frontier, NEW n \in Nat, Walk(g, store, frontier, n)
    PROVE  \E h : Walk(h, store, frontier, n + 1)
<1> DEFINE last == Found(store, g[n])
           h == [k \in 0..(n + 1) |-> IF k = n + 1 THEN last ELSE g[k]]
<1>1. ASSUME NEW k \in 0..(n + 1)
      PROVE  h[k] = IF k = 0 THEN frontier
                    ELSE h[k - 1] \cup UNION {b.parents : b \in h[k - 1] \cap store}
  <2>1. CASE k = n + 1
    <3>1. k - 1 = n /\ k # 0 /\ n \in 0..(n + 1) /\ n # n + 1
      BY <2>1
    <3>2. h[k] = last /\ h[k - 1] = g[n]
      <4> HIDE DEF last
      <4> QED BY <2>1, <3>1
    <3> QED BY <3>1, <3>2 DEF Found
  <2>2. CASE k # n + 1
    <3>1. k \in 0..n /\ (k # 0 => k - 1 \in 0..n)
      BY <2>2
    <3>2. h[k] = g[k] /\ (k # 0 => h[k - 1] = g[k - 1])
      <4> HIDE DEF last
      <4> QED BY <3>1
    <3>3. g[k] = IF k = 0 THEN frontier ELSE Found(store, g[k - 1])
      BY <3>1, WalkAt
    <3> QED BY <3>2, <3>3 DEF Found
  <2> QED BY <2>1, <2>2
<1>2. h = [k \in 0..(n + 1) |-> h[k]]
  OBVIOUS
<1> HIDE DEF h
<1>3. h = [k \in 0..(n + 1) |-> IF k = 0 THEN frontier
                                ELSE h[k - 1] \cup UNION {b.parents : b \in h[k - 1] \cap store}]
  BY ONLY <1>1, <1>2, Zenon
<1>4. Walk(h, store, frontier, n + 1)
  BY ONLY <1>3 DEF Walk
<1> QED BY ONLY <1>4

LEMMA WalkExists ==
    ASSUME NEW store, NEW frontier
    PROVE  \A n \in Nat : \E g : Walk(g, store, frontier, n)
<1> DEFINE Bad == {n \in Nat : ~ \E g : Walk(g, store, frontier, n)}
<1> SUFFICES ASSUME Bad # {} PROVE FALSE
  OBVIOUS
<1>1. PICK n \in Bad : \A m \in Bad : n <= m
  BY LeastNat
<1>2. n \in Nat /\ ~ \E g : Walk(g, store, frontier, n)
  BY <1>1
<1>3. CASE n = 0
  <2> DEFINE g == [k \in 0..0 |-> frontier]
  <2>1. \A k \in 0..0 : k = 0
    OBVIOUS
  <2>2. g = [k \in 0..0 |-> IF k = 0 THEN frontier
                            ELSE g[k - 1] \cup UNION {b.parents : b \in g[k - 1] \cap store}]
    BY <2>1, Zenon
  <2>3. Walk(g, store, frontier, 0)
    <3> HIDE DEF g
    <3> QED BY ONLY <2>2 DEF Walk
  <2> QED BY <1>2, <1>3, <2>3
<1>4. CASE n # 0
  <2>1. PICK m \in Nat : n = m + 1 /\ ~ (n <= m)
    BY <1>2, <1>4
  <2>2. m \notin Bad
    BY <1>1, <2>1
  <2>3. PICK g : Walk(g, store, frontier, m)
    BY <2>1, <2>2
  <2>4. \E h : Walk(h, store, frontier, m + 1)
    BY <2>1, <2>3, WalkOneMore
  <2> QED BY <1>2, <2>1, <2>4
<1> QED BY <1>3, <1>4

LEMMA AncestorsWalk ==
    ASSUME NEW store, IsFiniteSet(store), NEW frontier
    PROVE  \E g : /\ Walk(g, store, frontier, Cardinality(store))
                  /\ Final!Ancestors(store, frontier) = store \cap g[Cardinality(store)]
<1>1. Cardinality(store) \in Nat
  BY FS_CardinalityType
<1>2. \E g : Walk(g, store, frontier, Cardinality(store))
  BY <1>1, WalkExists
<1> DEFINE g == CHOOSE h : Walk(h, store, frontier, Cardinality(store))
<1>3. Walk(g, store, frontier, Cardinality(store))
  BY ONLY <1>2
<1>4. Final!Ancestors(store, frontier) = store \cap g[Cardinality(store)]
  BY AncestorsChosen
<1> HIDE DEF g
<1> QED BY ONLY <1>3, <1>4

\* Parents of stored blocks that are stored themselves are there.
Closed(store, seen) == \A b \in seen \cap store : b.parents \cap store \subseteq seen

LEMMA WalkSteps ==
    ASSUME NEW g, NEW store, NEW frontier, NEW n \in Nat, Walk(g, store, frontier, n)
    PROVE  /\ g[0] = frontier
           /\ \A k \in 0..n : k # n => g[k + 1] = Found(store, g[k])
<1>1. g[0] = frontier
  <2>1. PICK z \in 0..n : z = 0
    OBVIOUS
  <2> QED BY <2>1, WalkAt
<1>2. ASSUME NEW k \in 0..n, k # n PROVE g[k + 1] = Found(store, g[k])
  <2>1. PICK j \in 0..n : j = k + 1 /\ j # 0 /\ j - 1 = k
    BY <1>2
  <2> QED BY <2>1, WalkAt
<1> QED BY <1>1, <1>2

\* What a walk has found it keeps.
LEMMA WalkGrows ==
    ASSUME NEW g, NEW store, NEW frontier, NEW n \in Nat, Walk(g, store, frontier, n)
    PROVE  \A k \in 0..n : frontier \subseteq g[k]
<1> DEFINE Bad == {k \in Nat : k \in 0..n /\ ~ (frontier \subseteq g[k])}
<1> SUFFICES ASSUME Bad # {} PROVE FALSE
  OBVIOUS
<1>1. PICK k \in Bad : \A j \in Bad : k <= j
  BY LeastNat
<1>2. k \in Nat /\ k \in 0..n /\ ~ (frontier \subseteq g[k])
  BY <1>1
<1>3. k # 0
  BY <1>2, WalkSteps
<1>4. PICK j \in Nat : j \in 0..n /\ j # n /\ j + 1 = k /\ ~ (k <= j)
  <2>1. k - 1 \in Nat /\ k - 1 \in 0..n /\ k - 1 # n /\ (k - 1) + 1 = k /\ ~ (k <= k - 1)
    BY ONLY <1>2, <1>3, n \in Nat
  <2> QED BY ONLY <2>1
<1>5. frontier \subseteq g[j]
  BY <1>1, <1>4
<1>6. g[k] = Found(store, g[j])
  BY <1>4, WalkSteps
<1> QED BY ONLY <1>2, <1>5, <1>6 DEF Found

\* Until it rests, every step finds a block.
LEMMA WalkCounts ==
    ASSUME NEW g, NEW store, IsFiniteSet(store), NEW frontier, NEW n \in Nat,
           Walk(g, store, frontier, n),
           \A k \in 0..n : ~ Closed(store, g[k])
    PROVE  \A k \in 0..n : Cardinality(store \cap g[k]) >= k
<1> DEFINE D(k) == store \cap g[k]
           Bad == {k \in Nat : k \in 0..n /\ ~ (Cardinality(D(k)) >= k)}
<1>0. \A k : IsFiniteSet(D(k)) /\ Cardinality(D(k)) \in Nat
  <2>1. ASSUME NEW k PROVE IsFiniteSet(D(k)) /\ Cardinality(D(k)) \in Nat
    <3>1. D(k) \in SUBSET store
      OBVIOUS
    <3> HIDE DEF D
    <3>2. IsFiniteSet(D(k))
      BY <3>1, FS_Subset
    <3> QED BY <3>2, FS_CardinalityType
  <2> QED BY <2>1
<1> SUFFICES ASSUME Bad # {} PROVE FALSE
  BY <1>0
<1>1. PICK k \in Bad : \A j \in Bad : k <= j
  BY LeastNat
<1>2. k \in Nat /\ k \in 0..n /\ ~ (Cardinality(D(k)) >= k)
  BY <1>1
<1>3. k # 0
  <2> HIDE DEF D, Bad
  <2>1. Cardinality(D(k)) \in Nat
    BY ONLY <1>0
  <2> QED BY ONLY <1>2, <2>1
<1>4. PICK j \in Nat : j \in 0..n /\ j # n /\ j + 1 = k /\ ~ (k <= j)
  <2>1. k - 1 \in Nat /\ k - 1 \in 0..n /\ k - 1 # n /\ (k - 1) + 1 = k /\ ~ (k <= k - 1)
    BY ONLY <1>2, <1>3, n \in Nat
  <2> QED BY ONLY <2>1
<1>5. Cardinality(D(j)) >= j
  BY <1>1, <1>4
<1>6. g[k] = Found(store, g[j])
  BY <1>4, WalkSteps
<1>7. PICK b \in g[j] \cap store : ~ (b.parents \cap store \subseteq g[j])
  BY <1>4 DEF Closed
<1>8. PICK q \in b.parents \cap store : q \notin g[j]
  BY ONLY <1>7
<1>8a. q \notin D(j) /\ D(j) \cup {q} \in SUBSET D(k)
  BY ONLY <1>6, <1>7, <1>8 DEF Found, D
<1> HIDE DEF D
<1>9. Cardinality(D(j) \cup {q}) = Cardinality(D(j)) + 1
  BY <1>0, <1>8a, FS_AddElement
<1>10. Cardinality(D(j) \cup {q}) <= Cardinality(D(k))
  BY <1>0, <1>8a, FS_Subset
<1> QED BY <1>0, <1>2, <1>4, <1>5, <1>9, <1>10

\* Once at rest, it rests.
LEMMA WalkRests ==
    ASSUME NEW g, NEW store, NEW frontier, NEW n \in Nat, Walk(g, store, frontier, n),
           NEW i \in 0..n, Closed(store, g[i])
    PROVE  Closed(store, g[n])
<1> DEFINE Bad == {k \in Nat : k \in i..n /\ ~ Closed(store, g[k])}
<1> SUFFICES ASSUME ~ Closed(store, g[n]) PROVE FALSE
  OBVIOUS
<1>0. n \in Bad
  OBVIOUS
<1>1. PICK k \in Bad : \A j \in Bad : k <= j
  BY <1>0, LeastNat
<1>2. k \in Nat /\ k \in i..n /\ ~ Closed(store, g[k]) /\ k # i
  BY <1>1
<1>4. PICK j \in Nat : j \in 0..n /\ j \in i..n /\ j # n /\ j + 1 = k /\ ~ (k <= j)
  <2>1. /\ k - 1 \in Nat /\ k - 1 \in 0..n /\ k - 1 \in i..n /\ k - 1 # n /\ (k - 1) + 1 = k
        /\ ~ (k <= k - 1)
    BY ONLY <1>2, n \in Nat, i \in 0..n
  <2> QED BY ONLY <2>1
<1>5. Closed(store, g[j])
  BY <1>1, <1>4
<1>6. g[k] = Found(store, g[j])
  BY <1>4, WalkSteps
<1> QED BY ONLY <1>2, <1>5, <1>6 DEF Found, Closed

LEMMA AncestorsClosed ==
    ASSUME NEW store, IsFiniteSet(store), NEW frontier
    PROVE  /\ Final!Ancestors(store, frontier) \subseteq store
           /\ frontier \cap store \subseteq Final!Ancestors(store, frontier)
           /\ Closed(store, Final!Ancestors(store, frontier))
<1>1. PICK n \in Nat : n = Cardinality(store)
  BY FS_CardinalityType
<1>2. PICK g : /\ Walk(g, store, frontier, n)
               /\ Final!Ancestors(store, frontier) = store \cap g[n]
  BY <1>1, AncestorsWalk
<1>3. frontier \subseteq g[n]
  BY <1>2, WalkGrows
<1>4. Closed(store, g[n])
  <2> SUFFICES ASSUME ~ Closed(store, g[n]) PROVE FALSE
    OBVIOUS
  <2>1. \A k \in 0..n : ~ Closed(store, g[k])
    BY <1>2, WalkRests
  <2>2. Cardinality(store \cap g[n]) >= n
    BY <1>2, <2>1, WalkCounts
  <2>3. store \cap g[n] \in SUBSET store
    OBVIOUS
  <2>4. Cardinality(store \cap g[n]) <= n /\ IsFiniteSet(store \cap g[n])
    BY <1>1, <2>3, FS_Subset
  <2>5. Cardinality(store \cap g[n]) = n
    BY <2>2, <2>4, FS_CardinalityType
  <2>6. store = store \cap g[n]
    BY <1>1, <2>3, <2>5, FS_Subset
  <2> QED BY ONLY <2>6, ~ Closed(store, g[n]) DEF Closed
<1> QED BY ONLY <1>2, <1>3, <1>4 DEF Closed

\* It is the least such set.
LEMMA AncestorsLeast ==
    ASSUME NEW store, IsFiniteSet(store), NEW frontier,
           NEW set, frontier \cap store \subseteq set, Closed(store, set)
    PROVE  Final!Ancestors(store, frontier) \subseteq set
<1>1. PICK n \in Nat : n = Cardinality(store)
  BY FS_CardinalityType
<1>2. PICK g : /\ Walk(g, store, frontier, n)
               /\ Final!Ancestors(store, frontier) = store \cap g[n]
  BY <1>1, AncestorsWalk
<1> DEFINE Bad == {k \in Nat : k \in 0..n /\ ~ (store \cap g[k] \subseteq set)}
<1>3. Bad = {}
  <2> SUFFICES ASSUME Bad # {} PROVE FALSE
    OBVIOUS
  <2>1. PICK k \in Bad : \A j \in Bad : k <= j
    BY LeastNat
  <2>2. k \in Nat /\ k \in 0..n /\ ~ (store \cap g[k] \subseteq set)
    BY <2>1
  <2>3. k # 0
    BY <1>2, <2>2, WalkSteps
  <2>4. PICK j \in Nat : j \in 0..n /\ j # n /\ j + 1 = k /\ ~ (k <= j)
    <3>1. k - 1 \in Nat /\ k - 1 \in 0..n /\ k - 1 # n /\ (k - 1) + 1 = k /\ ~ (k <= k - 1)
      BY ONLY <2>2, <2>3, n \in Nat
    <3> QED BY ONLY <3>1
  <2>5. store \cap g[j] \subseteq set
    BY <2>1, <2>4
  <2>6. g[k] = Found(store, g[j])
    BY <1>2, <2>4, WalkSteps
  <2> QED BY ONLY <2>2, <2>5, <2>6, Closed(store, set) DEF Found, Closed
<1>4. n \in 0..n
  OBVIOUS
<1> QED BY <1>2, <1>3, <1>4

\* More blocks, more ancestors.
LEMMA MoreAncestors ==
    ASSUME NEW store, IsFiniteSet(store), NEW part, part \subseteq store, NEW b
    PROVE  Final!ProperAncestors(part, b) \subseteq Final!ProperAncestors(store, b)
<1>1. IsFiniteSet(part)
  <2>1. part \in SUBSET store
    OBVIOUS
  <2> QED BY <2>1, FS_Subset
<1>2. PICK A : A = Final!Ancestors(store, {b})
  OBVIOUS
<1>3. A \subseteq store /\ {b} \cap store \subseteq A /\ Closed(store, A)
  BY <1>2, AncestorsClosed
<1>4. {b} \cap part \subseteq A /\ Closed(part, A)
  BY <1>3 DEF Closed
<1>5. Final!Ancestors(part, {b}) \subseteq A
  BY <1>1, <1>4, AncestorsLeast
<1> QED BY <1>2, <1>5 DEF Final!ProperAncestors

\* The ancestors of a parent, and the parent.
LEMMA ParentAncestors ==
    ASSUME NEW store, IsFiniteSet(store), NEW b \in store, NEW q \in b.parents, q \in store
    PROVE  Final!ProperAncestors(store, q) \subseteq Final!ProperAncestors(store, b)
<1>1. PICK A : A = Final!Ancestors(store, {b})
  OBVIOUS
<1>2. A \subseteq store /\ b \in A /\ Closed(store, A)
  BY <1>1, AncestorsClosed
<1>3. {q} \cap store \subseteq A
  BY <1>2 DEF Closed
<1>4. Final!Ancestors(store, {q}) \subseteq A
  BY <1>2, <1>3, AncestorsLeast
<1> QED BY <1>1, <1>4 DEF Final!ProperAncestors

-----------------------------------------------------------------------------
(***************************************************************************)
(* What the DAG looks like: every block has a producer, who has it and has *)
(* its parents, and no other of that height; and nothing is its own        *)
(* ancestor, so that what is passed on from parents is true of all blocks. *)
(***************************************************************************)
MadeIn(b, store) ==
    /\ b.by \in DagProducers /\ b.height \in 1..DagHeight
    /\ b.parents \subseteq store[b.by]
    /\ \A q \in b.parents : q.height >= b.height - 1
    /\ b.height > 1 => b.parents # {}

Settled(store) == \A n \in DagNodes : \A b \in store[n] : MadeIn(b, store) /\ b \in store[b.by]
OneEach(store) == \A p \in DagProducers : \A b, c \in store[p] :
    b.by = p /\ c.by = p /\ b.height = c.height => b = c
AllOf(store) == UNION {store[n] : n \in DagNodes}
Grounded(store) == \A S \in SUBSET AllOf(store) :
    (\A b \in AllOf(store) : b.parents \subseteq S => b \in S) => S = AllOf(store)

\* A round is of a height above all that its producer has made.
RoundOf(p, r, store) ==
    /\ r.step \in {"height", "replay"} =>
         /\ p \in DagProducers /\ r.height \in 1..DagHeight
         /\ \A b \in store[p] : b.by = p => b.height < r.height
    /\ r.step = "height" /\ r.height > 1 => \E b \in store[p] : b.height >= r.height - 1
    /\ r.step = "replay" =>
         /\ r.parents \subseteq store[p]
         /\ \A q \in r.parents : q.height >= r.height - 1
         /\ r.height > 1 => r.parents # {}

\* A block in the hands of a thread: an importer's is stored at its producer, a
\* producer's is its own and above all it has made.
OwnOf(n, a, store) == a.step \in {"verify", "store"} =>
    /\ MadeIn(a.block, store) /\ a.block.by = n
    /\ \A b \in store[n] : b.by = n => b.height < a.block.height
HeardOf(a, store) == a.step \in {"verify", "store"} =>
    MadeIn(a.block, store) /\ a.block \in store[a.block.by]

FinalInv ==
    /\ DOMAIN blocks = DagNodes /\ DOMAIN dagRound = DagNodes /\ DOMAIN apply = DagNodes
    /\ \A n \in DagNodes : DOMAIN apply[n] = {"producer", "importer"}
    /\ IsFiniteSet(AllOf(blocks)) /\ Settled(blocks) /\ OneEach(blocks) /\ Grounded(blocks)
    /\ \A n \in DagNodes :
         /\ RoundOf(n, dagRound[n], blocks)
         /\ dagRound[n].step \in {"height", "replay"} => apply[n]["producer"].step = "idle"
         /\ OwnOf(n, apply[n]["producer"], blocks)
         /\ HeardOf(apply[n]["importer"], blocks)

LEMMA FinalConstants ==
    /\ DagHeight \in Nat /\ DagProducers \subseteq DagNodes /\ IsFiniteSet(DagProducers)
    /\ \A n \in DagNodes : FinalPeers[n] \in SUBSET DagNodes
BY ChainsAssumption, SameCount DEF Final!DagAssumption

\* Blocks of heights within the bound.
Bounded(store) == \A b \in store : b.height \in 1..DagHeight

\* The greatest height is one, by the least distance from the bound.
LEMMA TopFacts ==
    ASSUME NEW store, Bounded(store)
    PROVE  /\ Final!TopHeight(store) \in 0..DagHeight
           /\ \A b \in store : b.height <= Final!TopHeight(store)
           /\ Final!TopHeight(store) # 0 => \E b \in store : b.height = Final!TopHeight(store)
<1> DEFINE H == {0} \cup {b.height : b \in store}
           D == {k \in Nat : \E h \in H : k = DagHeight - h}
<1>1. DagHeight \in Nat /\ \A h \in H : h \in 0..DagHeight
  BY FinalConstants DEF Bounded
<1>2. D \in SUBSET Nat /\ D # {}
  <2>1. 0 \in H /\ DagHeight \in D
    BY <1>1
  <2> QED BY <2>1
<1>3. PICK k \in D : \A j \in D : k <= j
  BY <1>2, LeastNat
<1>4. PICK h \in H : k = DagHeight - h
  BY <1>3
<1>5. ASSUME NEW g \in H PROVE h >= g
  <2>1. DagHeight - g \in D
    BY <1>1
  <2>2. PICK j \in D : j = DagHeight - g
    BY <2>1
  <2>3. k <= j /\ j \in Nat /\ k \in Nat
    BY <1>3, <2>2
  <2> QED BY <1>1, <1>4, <2>2, <2>3
<1>6. \A b \in store : b.height \in H
  OBVIOUS
<1>7. \A g \in H : g = 0 \/ \E b \in store : b.height = g
  OBVIOUS
<1>8. Final!TopHeight(store) = Final!Max(H)
  BY DEF Final!TopHeight
<1> HIDE DEF H, D
<1>9. Final!Max(H) \in H /\ \A g \in H : Final!Max(H) >= g
  BY <1>5 DEF Final!Max
<1> QED BY <1>1, <1>6, <1>7, <1>8, <1>9

\* The tips are blocks of the greatest height, and there are some.
LEMMA TipsFacts ==
    ASSUME NEW store, Bounded(store)
    PROVE  /\ Final!Tips(store) \subseteq store
           /\ \A t \in Final!Tips(store) : t.height = Final!TopHeight(store)
           /\ store # {} => Final!Tips(store) # {}
<1>1. /\ Final!Tips(store) \subseteq store
      /\ \A t \in Final!Tips(store) : t.height = Final!TopHeight(store)
  BY DEF Final!Tips
<1>2. ASSUME store # {} PROVE Final!Tips(store) # {}
  <2>1. PICK b \in store : b.height \in 1..DagHeight
    BY <1>2 DEF Bounded
  <2>2. Final!TopHeight(store) # 0
    BY <2>1, TopFacts, FinalConstants
  <2>3. PICK c \in store : c.height = Final!TopHeight(store)
    BY <2>2, TopFacts
  <2> QED BY <2>3 DEF Final!Tips
<1> QED BY <1>1, <1>2

LEMMA FinalStart == Final!Init => FinalInv
<1> SUFFICES ASSUME Final!Init PROVE FinalInv
  OBVIOUS
<1>1. /\ blocks = [n \in DagNodes |-> {}]
      /\ dagRound = [n \in DagNodes |-> [step |-> "idle"]]
      /\ apply = [n \in DagNodes |-> [r \in {"producer", "importer"} |-> [step |-> "idle"]]]
  BY DEF Final!Init, Final!NoRound, Final!NoApply, Final!Threads
<1>2. AllOf(blocks) = {} /\ IsFiniteSet(AllOf(blocks))
  BY <1>1, FS_EmptySet DEF AllOf
<1>3. Settled(blocks) /\ Grounded(blocks)
  BY <1>1, <1>2 DEF Settled, Grounded
<1>4. OneEach(blocks)
  BY <1>1, FinalConstants DEF OneEach
<1>5. ASSUME NEW n \in DagNodes
      PROVE  /\ RoundOf(n, dagRound[n], blocks)
             /\ dagRound[n].step \in {"height", "replay"} => apply[n]["producer"].step = "idle"
             /\ OwnOf(n, apply[n]["producer"], blocks)
             /\ HeardOf(apply[n]["importer"], blocks)
  <2>1. dagRound[n].step = "idle" /\ apply[n]["producer"].step = "idle" /\ apply[n]["importer"].step = "idle"
    BY <1>1
  <2> QED BY <2>1 DEF RoundOf, OwnOf, HeardOf
<1> QED BY <1>1, <1>2, <1>3, <1>4, <1>5 DEF FinalInv

-----------------------------------------------------------------------------
(* Every step keeps it.                                                     *)

\* A step of a round.
LEMMA RoundKeeps ==
    ASSUME FinalInv, NEW n \in DagNodes, NEW next,
           dagRound' = [dagRound EXCEPT ![n] = next], UNCHANGED <<blocks, apply>>,
           RoundOf(n, next, blocks),
           next.step \in {"height", "replay"} => apply[n]["producer"].step = "idle"
    PROVE  FinalInv'
<1>1. \A m \in DagNodes : dagRound'[m] = IF m = n THEN next ELSE dagRound[m]
  BY DEF FinalInv
<1>2. DOMAIN dagRound' = DagNodes
  BY DEF FinalInv
<1> QED BY <1>1, <1>2 DEF FinalInv

\* A step of a thread with a block that it does not store.
LEMMA HandKeeps ==
    ASSUME FinalInv, NEW n \in DagNodes, NEW r \in {"producer", "importer"}, NEW next,
           apply' = [apply EXCEPT ![n][r] = next], UNCHANGED <<blocks, dagRound>>,
           r = "importer" => HeardOf(next, blocks),
           r = "producer" => /\ OwnOf(n, next, blocks)
                             /\ dagRound[n].step \in {"height", "replay"} => next.step = "idle"
    PROVE  FinalInv'
<1>1. DOMAIN apply' = DagNodes /\ \A m \in DagNodes : DOMAIN apply'[m] = {"producer", "importer"}
  BY DEF FinalInv
<1>2. \A m \in DagNodes, s \in {"producer", "importer"} :
        apply'[m][s] = IF m = n /\ s = r THEN next ELSE apply[m][s]
  BY DEF FinalInv
<1>3. ASSUME NEW m \in DagNodes
      PROVE  /\ dagRound[m].step \in {"height", "replay"} => apply'[m]["producer"].step = "idle"
             /\ OwnOf(m, apply'[m]["producer"], blocks)
             /\ HeardOf(apply'[m]["importer"], blocks)
  <2>1. CASE m = n /\ r = "producer"
    <3>1. apply'[m]["producer"] = next /\ apply'[m]["importer"] = apply[m]["importer"]
      BY <1>2, <2>1
    <3> QED BY <2>1, <3>1 DEF FinalInv
  <2>2. CASE m = n /\ r = "importer"
    <3>1. apply'[m]["importer"] = next /\ apply'[m]["producer"] = apply[m]["producer"]
      BY <1>2, <2>2
    <3> QED BY <2>2, <3>1 DEF FinalInv
  <2>3. CASE m # n
    <3>1. apply'[m]["importer"] = apply[m]["importer"] /\ apply'[m]["producer"] = apply[m]["producer"]
      BY <1>2, <2>3
    <3> QED BY <3>1 DEF FinalInv
  <2> QED BY <2>1, <2>2, <2>3
<1> QED BY <1>1, <1>3 DEF FinalInv

LEMMA BlocksBounded ==
    ASSUME FinalInv, NEW n \in DagNodes
    PROVE  Bounded(blocks[n])
BY DEF FinalInv, Settled, MadeIn, Bounded

LEMMA FinalReadHeightKeeps ==
    ASSUME FinalInv, NEW n \in DagNodes, Final!ReadHeight(n)
    PROVE  FinalInv'
<1> DEFINE h == Final!TopHeight(blocks[n]) + 1
           next == [step |-> "height", height |-> h]
<1>1. /\ n \in DagProducers /\ h <= DagHeight /\ apply[n]["producer"].step = "idle"
      /\ dagRound' = [dagRound EXCEPT ![n] = next] /\ UNCHANGED <<blocks, apply>>
  BY DEF Final!ReadHeight, Final!stateVars, Final!NoApply
<1>2. PICK top \in 0..DagHeight : top = Final!TopHeight(blocks[n])
  BY BlocksBounded, TopFacts
<1>3. h = top + 1 /\ h \in 1..DagHeight
  BY <1>1, <1>2, FinalConstants
<1>4. \A b \in blocks[n] : b.height < h
  <2> SUFFICES ASSUME NEW b \in blocks[n] PROVE b.height < h
    OBVIOUS
  <2>1. b.height <= top /\ b.height \in 1..DagHeight
    BY <1>2, BlocksBounded, TopFacts DEF Bounded
  <2> HIDE DEF h
  <2> QED BY <2>1, <1>2, <1>3, FinalConstants
<1>5. h > 1 => \E b \in blocks[n] : b.height >= h - 1
  <2> SUFFICES ASSUME h > 1 PROVE \E b \in blocks[n] : b.height >= h - 1
    OBVIOUS
  <2>1. top # 0 /\ h - 1 = top
    BY <1>2, <1>3, FinalConstants
  <2>2. PICK b \in blocks[n] : b.height = top
    BY <1>2, <2>1, BlocksBounded, TopFacts
  <2> HIDE DEF h
  <2> QED BY <2>1, <2>2, <1>2, FinalConstants
<1>6. next.step = "height" /\ next.height = h
  OBVIOUS
<1> HIDE DEF h, next
<1>7. RoundOf(n, next, blocks)
  BY ONLY <1>1, <1>3, <1>4, <1>5, <1>6 DEF RoundOf
<1> QED BY <1>1, <1>7, RoundKeeps

LEMMA FinalDrainKeeps ==
    ASSUME FinalInv, NEW n \in DagNodes, Final!DrainMempool(n)
    PROVE  FinalInv'
<1> DEFINE tips == Final!Tips(blocks[n])
           next == IF dagPool[n] = <<>> THEN [step |-> "idle"]
                   ELSE [step |-> "replay", height |-> dagRound[n].height,
                         parents |-> tips, batch |-> dagPool[n], shortcut |-> marker[n] = tips]
<1>1. /\ dagRound[n].step = "height" /\ dagRound' = [dagRound EXCEPT ![n] = next]
      /\ UNCHANGED <<blocks, apply>>
  BY DEF Final!DrainMempool, Final!stateVars, Final!NoRound
<1>2. next.step = "idle" \/ (next.step = "replay" /\ next.height = dagRound[n].height /\ next.parents = tips)
  OBVIOUS
<1>3. PICK h \in 1..DagHeight : h = dagRound[n].height
  BY <1>1 DEF FinalInv, RoundOf
<1>4. /\ n \in DagProducers /\ \A b \in blocks[n] : b.by = n => b.height < h
      /\ h > 1 => \E b \in blocks[n] : b.height >= h - 1
  BY <1>1, <1>3 DEF FinalInv, RoundOf
<1>5. tips \subseteq blocks[n]
  BY BlocksBounded, TipsFacts
<1>6. h > 1 => tips # {} /\ \A q \in tips : q.height >= h - 1
  <2> SUFFICES ASSUME h > 1 PROVE tips # {} /\ \A q \in tips : q.height >= h - 1
    OBVIOUS
  <2>1. PICK b \in blocks[n] : b.height >= h - 1
    BY <1>4
  <2>2. PICK top \in 0..DagHeight : top = Final!TopHeight(blocks[n]) /\ b.height <= top
    BY <2>1, BlocksBounded, TopFacts
  <2>3. tips # {} /\ \A q \in tips : q.height = top
    BY <2>1, <2>2, BlocksBounded, TipsFacts
  <2>4. b.height \in 1..DagHeight
    BY <2>1, BlocksBounded DEF Bounded
  <2> HIDE DEF tips
  <2> QED BY <2>1, <2>2, <2>3, <2>4, FinalConstants
<1>7. \A q \in tips : q.height >= h - 1
  <2> SUFFICES ASSUME NEW q \in tips PROVE q.height >= h - 1
    OBVIOUS
  <2>1. q.height \in 1..DagHeight
    BY <1>5, BlocksBounded DEF Bounded
  <2> HIDE DEF tips
  <2> QED BY <1>6, <2>1, <1>3, FinalConstants
<1> HIDE DEF tips, next
<1>8. RoundOf(n, next, blocks)
  <2>1. CASE next.step = "idle"
    BY ONLY <2>1 DEF RoundOf
  <2>2. CASE next.step = "replay" /\ next.height = h /\ next.parents = tips
    BY ONLY <2>2, <1>4, <1>5, <1>6, <1>7, h \in 1..DagHeight DEF RoundOf
  <2> QED BY ONLY <1>2, <1>3, <2>1, <2>2
<1>9. apply[n]["producer"].step = "idle"
  BY <1>1 DEF FinalInv
<1> QED BY <1>1, <1>8, <1>9, RoundKeeps

LEMMA FinalReplayKeeps ==
    ASSUME FinalInv, NEW n \in DagNodes, Final!Replay(n)
    PROVE  FinalInv'
<1> DEFINE r == dagRound[n]
           run == Final!Run(Final!Base(n, r.parents, r.shortcut), r.batch)
           block == [height |-> r.height, by |-> n, parents |-> r.parents,
                     txs |-> run.applied, root |-> run.db]
           next == [step |-> "verify", block |-> block, shortcut |-> marker[n] = block.parents]
<1>1. /\ r.step = "replay" /\ dagRound' = [dagRound EXCEPT ![n] = [step |-> "idle"]]
      /\ \/ apply' = apply
         \/ apply' = [apply EXCEPT ![n]["producer"] = next]
      /\ UNCHANGED blocks
  BY DEF Final!Replay, Final!NoRound, Final!stateVars
<1>2. /\ n \in DagProducers /\ r.height \in 1..DagHeight /\ r.parents \subseteq blocks[n]
      /\ \A q \in r.parents : q.height >= r.height - 1
      /\ r.height > 1 => r.parents # {}
      /\ \A b \in blocks[n] : b.by = n => b.height < r.height
  BY <1>1 DEF FinalInv, RoundOf
<1>3. next.block.by = n /\ next.block.height = r.height /\ next.block.parents = r.parents
  OBVIOUS
<1> HIDE DEF r, run, block, next
<1>4. OwnOf(n, next, blocks)
  BY ONLY <1>2, <1>3 DEF OwnOf, MadeIn
<1>5. DOMAIN dagRound' = DagNodes /\ \A m \in DagNodes :
        dagRound'[m] = IF m = n THEN [step |-> "idle"] ELSE dagRound[m]
  BY <1>1 DEF FinalInv
<1>6. DOMAIN apply' = DagNodes /\ \A m \in DagNodes : DOMAIN apply'[m] = {"producer", "importer"}
  BY <1>1 DEF FinalInv
<1>7. \A m \in DagNodes : /\ apply'[m]["importer"] = apply[m]["importer"]
                          /\ m # n => apply'[m]["producer"] = apply[m]["producer"]
  BY <1>1 DEF FinalInv
<1>8. apply'[n]["producer"] = apply[n]["producer"] \/ apply'[n]["producer"] = next
  BY <1>1 DEF FinalInv
<1>9. ASSUME NEW m \in DagNodes
      PROVE  /\ RoundOf(m, dagRound'[m], blocks)
             /\ dagRound'[m].step \in {"height", "replay"} => apply'[m]["producer"].step = "idle"
             /\ OwnOf(m, apply'[m]["producer"], blocks)
             /\ HeardOf(apply'[m]["importer"], blocks)
  <2>1. CASE m = n
    <3>1. dagRound'[m].step = "idle"
      BY <1>5, <2>1
    <3>2. OwnOf(m, apply'[m]["producer"], blocks)
      BY <1>4, <1>8, <2>1 DEF FinalInv
    <3>3. HeardOf(apply'[m]["importer"], blocks)
      BY <1>7 DEF FinalInv
    <3>4. RoundOf(m, dagRound'[m], blocks)
      BY ONLY <3>1 DEF RoundOf
    <3> QED BY ONLY <3>1, <3>2, <3>3, <3>4
  <2>2. CASE m # n
    <3>1. dagRound'[m] = dagRound[m] /\ apply'[m]["producer"] = apply[m]["producer"]
          /\ apply'[m]["importer"] = apply[m]["importer"]
      BY <1>5, <1>7, <2>2
    <3> QED BY <3>1 DEF FinalInv
  <2> QED BY <2>1, <2>2
<1> QED BY <1>1, <1>5, <1>6, <1>9 DEF FinalInv

LEMMA FinalImportKeeps ==
    ASSUME FinalInv, NEW n \in DagNodes, NEW m \in DagNodes, NEW b \in blocks[m], Final!ImportBlock(n, b)
    PROVE  FinalInv'
<1> DEFINE next == [step |-> "verify", block |-> b, shortcut |-> marker[n] = b.parents]
<1>1. apply' = [apply EXCEPT ![n]["importer"] = next] /\ UNCHANGED <<blocks, dagRound>>
  BY DEF Final!ImportBlock, Final!stateVars
<1>2. next.block = b
  OBVIOUS
<1> HIDE DEF next
<1>3. HeardOf(next, blocks)
  BY <1>2 DEF FinalInv, Settled, HeardOf
<1>4. "importer" \in {"producer", "importer"} /\ "importer" # "producer"
  OBVIOUS
<1> QED BY <1>1, <1>3, <1>4, HandKeeps

\* A thread that lets go of its block.
LEMMA LetGoKeeps ==
    ASSUME FinalInv, NEW n \in DagNodes, NEW r \in {"producer", "importer"},
           apply' = [apply EXCEPT ![n][r] = [step |-> "idle"]], UNCHANGED <<blocks, dagRound>>
    PROVE  FinalInv'
<1>1. PICK next : next = [step |-> "idle"]
  OBVIOUS
<1>2. next.step = "idle"
  BY <1>1
<1>3. HeardOf(next, blocks) /\ OwnOf(n, next, blocks)
  BY ONLY <1>2 DEF HeardOf, OwnOf
<1> QED BY <1>1, <1>2, <1>3, HandKeeps

LEMMA FinalRefusedKeeps ==
    ASSUME FinalInv, NEW n \in DagNodes, NEW r \in {"producer", "importer"}, Final!Refused(n, r)
    PROVE  FinalInv'
<1>1. apply' = [apply EXCEPT ![n][r] = [step |-> "idle"]] /\ UNCHANGED <<blocks, dagRound>>
  BY DEF Final!Refused, Final!ApplyGoesOn, Final!NoApply, Final!stateVars
<1> QED BY <1>1, LetGoKeeps

LEMMA FinalMarkKeeps ==
    ASSUME FinalInv, NEW n \in DagNodes, NEW r \in {"producer", "importer"}, Final!Mark(n, r)
    PROVE  FinalInv'
<1>1. apply' = [apply EXCEPT ![n][r] = [step |-> "idle"]] /\ UNCHANGED <<blocks, dagRound>>
  BY DEF Final!Mark, Final!ApplyGoesOn, Final!NoApply
<1> QED BY <1>1, LetGoKeeps

LEMMA FinalVerifyKeeps ==
    ASSUME FinalInv, NEW n \in DagNodes, NEW r \in {"producer", "importer"}, Final!Verify(n, r)
    PROVE  FinalInv'
<1>1. apply[n][r].step = "verify"
  BY DEF Final!Verify, Final!Applying
<1>2. CASE Final!Valid(n, apply[n][r])
  <2> DEFINE next == [step |-> "store", block |-> apply[n][r].block]
  <2>1. apply' = [apply EXCEPT ![n][r] = next] /\ UNCHANGED <<blocks, dagRound>>
    BY <1>2 DEF Final!Verify, Final!ApplyGoesOn, Final!stateVars
  <2>2. next.block = apply[n][r].block
    OBVIOUS
  <2> HIDE DEF next
  <2>3. r = "importer" => HeardOf(next, blocks)
    BY <1>1, <2>2 DEF FinalInv, HeardOf
  <2>4. r = "producer" => OwnOf(n, next, blocks)
    BY <1>1, <2>2 DEF FinalInv, OwnOf
  <2>5. r = "producer" => ~ (dagRound[n].step \in {"height", "replay"})
    BY <1>1 DEF FinalInv
  <2> QED BY <2>1, <2>3, <2>4, <2>5, HandKeeps
<1>3. CASE ~ Final!Valid(n, apply[n][r])
  BY <1>1, <1>3, FinalRefusedKeeps DEF Final!Verify
<1> QED BY <1>2, <1>3

LEMMA FinalRestartKeeps ==
    ASSUME FinalInv, NEW n \in DagNodes, Final!Restart(n)
    PROVE  FinalInv'
<1> DEFINE none == [step |-> "idle"]
<1>1. /\ dagRound' = [dagRound EXCEPT ![n] = none]
      /\ apply' = [apply EXCEPT ![n] = [r \in {"producer", "importer"} |-> none]]
      /\ UNCHANGED blocks
  BY DEF Final!Restart, Final!NoRound, Final!NoApply, Final!Threads
<1>2. none.step = "idle"
  OBVIOUS
<1> HIDE DEF none
<1>3. /\ DOMAIN dagRound' = DagNodes /\ DOMAIN apply' = DagNodes
      /\ \A m \in DagNodes : DOMAIN apply'[m] = {"producer", "importer"}
  BY <1>1 DEF FinalInv
<1>4. \A m \in DagNodes :
        /\ m # n => dagRound'[m] = dagRound[m] /\ apply'[m] = apply[m]
        /\ m = n => /\ dagRound'[m] = none
                    /\ apply'[m]["producer"] = none /\ apply'[m]["importer"] = none
  BY <1>1 DEF FinalInv
<1>5. ASSUME NEW m \in DagNodes
      PROVE  /\ RoundOf(m, dagRound'[m], blocks)
             /\ dagRound'[m].step \in {"height", "replay"} => apply'[m]["producer"].step = "idle"
             /\ OwnOf(m, apply'[m]["producer"], blocks)
             /\ HeardOf(apply'[m]["importer"], blocks)
  <2>1. CASE m = n
    <3>1. dagRound'[m].step = "idle" /\ apply'[m]["producer"].step = "idle" /\ apply'[m]["importer"].step = "idle"
      BY <1>2, <1>4, <2>1
    <3> QED BY ONLY <3>1 DEF RoundOf, OwnOf, HeardOf
  <2>2. CASE m # n
    BY <1>4, <2>2 DEF FinalInv
  <2> QED BY <2>1, <2>2
<1> QED BY <1>1, <1>3, <1>5 DEF FinalInv

\* Blocks are never lost.
LEMMA MadeInMore ==
    ASSUME NEW s, NEW t, \A p \in DagNodes : s[p] \subseteq t[p], NEW b, MadeIn(b, s)
    PROVE  MadeIn(b, t)
<1>1. b.by \in DagNodes
  BY FinalConstants DEF MadeIn
<1> QED BY <1>1 DEF MadeIn

\* What a step that stores a block stores.
StoredOne(n, b) ==
    /\ b \notin blocks[n]
    /\ DOMAIN blocks' = DagNodes
    /\ \A m \in DagNodes : blocks'[m] = IF m = n THEN blocks[n] \cup {b} ELSE blocks[m]

LEMMA GroundedMore ==
    ASSUME FinalInv, NEW n \in DagNodes, NEW b, StoredOne(n, b), MadeIn(b, blocks)
    PROVE  Grounded(blocks') /\ IsFiniteSet(AllOf(blocks'))
<1>1. AllOf(blocks') = AllOf(blocks) \cup {b}
  BY DEF StoredOne, AllOf
<1>2. IsFiniteSet(AllOf(blocks'))
  BY <1>1, FS_AddElement DEF FinalInv
<1>3. b.by \in DagNodes /\ b.parents \subseteq AllOf(blocks)
  BY FinalConstants DEF MadeIn, AllOf
<1>4. ASSUME NEW S \in SUBSET AllOf(blocks'),
             \A c \in AllOf(blocks') : c.parents \subseteq S => c \in S
      PROVE  S = AllOf(blocks')
  <2> DEFINE T == S \cap AllOf(blocks)
  <2>1. T \in SUBSET AllOf(blocks) /\ \A c \in AllOf(blocks) : c.parents \subseteq T => c \in T
    BY <1>1, <1>4
  <2>2. Grounded(blocks)
    BY DEF FinalInv
  <2>3. T = AllOf(blocks)
    <3> HIDE DEF T
    <3> QED BY ONLY <2>1, <2>2 DEF Grounded
  <2>4. b \in S
    BY <1>1, <1>3, <1>4, <2>3
  <2> QED BY <1>1, <2>3, <2>4
<1> QED BY <1>2, <1>4 DEF Grounded

LEMMA SettledMore ==
    ASSUME FinalInv, NEW n \in DagNodes, NEW b, StoredOne(n, b), MadeIn(b, blocks),
           b \in blocks[b.by] \/ b.by = n
    PROVE  Settled(blocks')
<1>1. \A p \in DagNodes : blocks[p] \subseteq blocks'[p]
  BY DEF StoredOne
<1>2. ASSUME NEW m \in DagNodes, NEW c \in blocks'[m]
      PROVE  MadeIn(c, blocks') /\ c \in blocks'[c.by]
  <2>1. CASE c \in blocks[m]
    <3>1. MadeIn(c, blocks) /\ c \in blocks[c.by]
      BY <2>1 DEF FinalInv, Settled
    <3>2. c.by \in DagNodes
      BY <3>1, FinalConstants DEF MadeIn
    <3> QED BY <1>1, <3>1, <3>2, MadeInMore
  <2>2. CASE c = b
    <3>1. b.by \in DagNodes
      BY FinalConstants DEF MadeIn
    <3>2. b \in blocks'[b.by]
      BY <1>1, <3>1 DEF StoredOne
    <3> QED BY <1>1, <2>2, <3>2, MadeInMore
  <2> QED BY <2>1, <2>2 DEF StoredOne
<1> QED BY <1>2 DEF Settled

LEMMA OneEachMore ==
    ASSUME FinalInv, NEW n \in DagNodes, NEW b, StoredOne(n, b), MadeIn(b, blocks),
           b.by = n => \A c \in blocks[n] : c.by = n => c.height < b.height
    PROVE  OneEach(blocks')
<1>1. DagProducers \subseteq DagNodes
  BY FinalConstants
<1>2. ASSUME NEW p \in DagProducers, NEW c \in blocks'[p], NEW d \in blocks'[p],
             c.by = p, d.by = p, c.height = d.height
      PROVE  c = d
  <2>1. CASE c \in blocks[p] /\ d \in blocks[p]
    BY <1>2, <2>1 DEF FinalInv, OneEach
  <2>2. CASE c = b /\ d = b
    BY <2>2
  <2>3. \A e \in blocks[n] : b.by = n /\ e.by = n => e.height # b.height
    <3>1. ASSUME NEW e \in blocks[n], b.by = n, e.by = n, e.height = b.height
          PROVE  FALSE
      <4>1. e.height < b.height /\ b.height \in 1..DagHeight /\ DagHeight \in Nat
        BY <3>1, FinalConstants DEF MadeIn
      <4> QED BY <3>1, <4>1
    <3> QED BY <3>1
  <2>4. CASE p = n /\ c = b /\ d \in blocks[n]
    BY <1>2, <2>3, <2>4
  <2>5. CASE p = n /\ d = b /\ c \in blocks[n]
    BY <1>2, <2>3, <2>5
  <2>6. p \in DagNodes /\ blocks'[p] = IF p = n THEN blocks[n] \cup {b} ELSE blocks[p]
    BY <1>1 DEF StoredOne
  <2> QED BY <2>1, <2>2, <2>4, <2>5, <2>6
<1> QED BY <1>2 DEF OneEach

\* What the others do with their blocks stays true.
LEMMA HandsMore ==
    ASSUME FinalInv, NEW n \in DagNodes, NEW b, StoredOne(n, b), NEW m \in DagNodes
    PROVE  /\ HeardOf(apply[m]["importer"], blocks')
           /\ m # n \/ b.by # n => /\ OwnOf(m, apply[m]["producer"], blocks')
                                   /\ RoundOf(m, dagRound[m], blocks')
<1>1. \A p \in DagNodes : blocks[p] \subseteq blocks'[p]
  BY DEF StoredOne
<1>2. HeardOf(apply[m]["importer"], blocks')
  <2> SUFFICES ASSUME apply[m]["importer"].step \in {"verify", "store"}
               PROVE  LET c == apply[m]["importer"].block
                      IN  MadeIn(c, blocks') /\ c \in blocks'[c.by]
    BY DEF HeardOf
  <2>1. PICK c : c = apply[m]["importer"].block
    OBVIOUS
  <2>2. MadeIn(c, blocks) /\ c \in blocks[c.by]
    BY <2>1 DEF FinalInv, HeardOf
  <2>3. c.by \in DagNodes
    BY <2>2, FinalConstants DEF MadeIn
  <2> QED BY <1>1, <2>1, <2>2, <2>3, MadeInMore
<1>3. ASSUME m # n \/ b.by # n
      PROVE  OwnOf(m, apply[m]["producer"], blocks') /\ RoundOf(m, dagRound[m], blocks')
  <2>1. \A c \in blocks'[m] : c.by = m => c \in blocks[m]
    BY <1>3 DEF StoredOne
  <2>2. blocks[m] \subseteq blocks'[m]
    BY <1>1
  <2>3. RoundOf(m, dagRound[m], blocks')
    <3>1. RoundOf(m, dagRound[m], blocks)
      BY DEF FinalInv
    <3> QED BY <2>1, <2>2, <3>1 DEF RoundOf
  <2>4. OwnOf(m, apply[m]["producer"], blocks')
    <3>1. OwnOf(m, apply[m]["producer"], blocks)
      BY DEF FinalInv
    <3>2. MadeIn(apply[m]["producer"].block, blocks) => MadeIn(apply[m]["producer"].block, blocks')
      BY <1>1, MadeInMore
    <3> QED BY <2>1, <3>1, <3>2 DEF OwnOf
  <2> QED BY <2>3, <2>4
<1> QED BY <1>2, <1>3

LEMMA FinalStoreKeeps ==
    ASSUME FinalInv, NEW n \in DagNodes, NEW r \in {"producer", "importer"}, Final!Store(n, r)
    PROVE  FinalInv'
<1>1. PICK b : b = apply[n][r].block
  OBVIOUS
<1>2. PICK next : next = [step |-> "mark", block |-> b, tips |-> Final!Tips(blocks[n] \cup {b})]
  OBVIOUS
<1>3. next.step = "mark"
  BY <1>2
<1>4. /\ apply[n][r].step = "store" /\ b \notin blocks[n]
      /\ blocks' = [blocks EXCEPT ![n] = blocks[n] \cup {b}]
      /\ apply' = [apply EXCEPT ![n][r] = next] /\ UNCHANGED dagRound
  BY <1>1, <1>2 DEF Final!Store, Final!Applying, Final!ApplyGoesOn
<1>5. StoredOne(n, b)
  BY <1>4 DEF StoredOne, FinalInv
<1>6. r = "importer" => MadeIn(b, blocks) /\ b \in blocks[b.by] /\ b.by # n
  BY <1>1, <1>4 DEF FinalInv, HeardOf
<1>7. r = "producer" => /\ MadeIn(b, blocks) /\ b.by = n
                        /\ \A c \in blocks[n] : c.by = n => c.height < b.height
                        /\ ~ (dagRound[n].step \in {"height", "replay"})
  BY <1>1, <1>4 DEF FinalInv, OwnOf
<1>8. MadeIn(b, blocks)
  BY <1>6, <1>7
<1>9. Settled(blocks') /\ OneEach(blocks') /\ Grounded(blocks') /\ IsFiniteSet(AllOf(blocks'))
  BY <1>5, <1>6, <1>7, <1>8, SettledMore, OneEachMore, GroundedMore
<1>10. /\ DOMAIN apply' = DagNodes /\ \A m \in DagNodes : DOMAIN apply'[m] = {"producer", "importer"}
       /\ \A m \in DagNodes, s \in {"producer", "importer"} :
            apply'[m][s] = IF m = n /\ s = r THEN next ELSE apply[m][s]
  BY <1>4 DEF FinalInv
<1>11. ASSUME NEW m \in DagNodes
       PROVE  /\ RoundOf(m, dagRound'[m], blocks')
              /\ dagRound'[m].step \in {"height", "replay"} => apply'[m]["producer"].step = "idle"
              /\ OwnOf(m, apply'[m]["producer"], blocks')
              /\ HeardOf(apply'[m]["importer"], blocks')
  <2>1. HeardOf(apply[m]["importer"], blocks')
    BY <1>5, HandsMore
  <2>2. HeardOf(apply'[m]["importer"], blocks')
    <3>1. CASE apply'[m]["importer"] = apply[m]["importer"]
      BY <2>1, <3>1
    <3>2. CASE apply'[m]["importer"] = next
      BY <1>3, <3>2 DEF HeardOf
    <3> QED BY <1>10, <3>1, <3>2
  <2>3. CASE m = n /\ r = "producer"
    <3>1. apply'[m]["producer"] = next /\ ~ (dagRound'[m].step \in {"height", "replay"})
      BY <1>4, <1>7, <1>10, <2>3
    <3>2. OwnOf(m, next, blocks') /\ RoundOf(m, dagRound'[m], blocks')
      BY ONLY <1>3, <3>1 DEF OwnOf, RoundOf
    <3> QED BY <2>2, <3>1, <3>2
  <2>4. CASE m # n \/ r = "importer"
    <3>1. apply'[m]["producer"] = apply[m]["producer"] /\ dagRound'[m] = dagRound[m]
      BY <1>4, <1>10, <2>4
    <3>2. m # n \/ b.by # n
      BY <1>6, <2>4
    <3>3. OwnOf(m, apply[m]["producer"], blocks') /\ RoundOf(m, dagRound[m], blocks')
      BY <1>5, <3>2, HandsMore
    <3>4. dagRound[m].step \in {"height", "replay"} => apply[m]["producer"].step = "idle"
      BY DEF FinalInv
    <3> QED BY <2>2, <3>1, <3>3, <3>4
  <2> QED BY <2>3, <2>4
<1>12. DOMAIN blocks' = DagNodes /\ DOMAIN dagRound' = DagNodes
  BY <1>4, <1>5 DEF FinalInv, StoredOne
<1> QED BY <1>9, <1>10, <1>11, <1>12 DEF FinalInv

LEMMA FinalNextKeeps ==
    ASSUME FinalInv, [Final!Next]_dag
    PROVE  FinalInv'
<1>1. CASE UNCHANGED dag
  BY <1>1 DEF dag, FinalInv
<1>2. CASE Final!Next
  <2>1. PICK n \in DagNodes :
          \/ \E tx \in Txs : Final!SubmitTx(n, tx)
          \/ Final!ReadHeight(n) \/ Final!DrainMempool(n) \/ Final!Replay(n)
          \/ \E m \in FinalPeers[n] : \E b \in blocks[m] : Final!ImportBlock(n, b)
          \/ \E r \in {"producer", "importer"} :
               \/ Final!RateLimited(n, r) \/ Final!Verify(n, r) \/ Final!Store(n, r)
               \/ Final!StoreFails(n, r) \/ Final!Mark(n, r)
          \/ Final!Restart(n)
    BY <1>2, Zenon DEF Final!Next, Final!Threads
  <2>2. CASE \E tx \in Txs : Final!SubmitTx(n, tx)
    <3>1. UNCHANGED <<blocks, dagRound, apply>>
      BY <2>2 DEF Final!SubmitTx, Final!stateVars
    <3> QED BY <3>1 DEF FinalInv
  <2>3. CASE Final!ReadHeight(n)
    BY <2>3, FinalReadHeightKeeps
  <2>4. CASE Final!DrainMempool(n)
    BY <2>4, FinalDrainKeeps
  <2>5. CASE Final!Replay(n)
    BY <2>5, FinalReplayKeeps
  <2>6. CASE \E m \in FinalPeers[n] : \E b \in blocks[m] : Final!ImportBlock(n, b)
    <3>1. PICK m \in FinalPeers[n] : \E b \in blocks[m] : Final!ImportBlock(n, b)
      BY <2>6
    <3>2. m \in DagNodes
      BY <3>1, FinalConstants
    <3> QED BY <3>1, <3>2, FinalImportKeeps
  <2>7. ASSUME NEW r \in {"producer", "importer"},
               \/ Final!RateLimited(n, r) \/ Final!Verify(n, r) \/ Final!Store(n, r)
               \/ Final!StoreFails(n, r) \/ Final!Mark(n, r)
        PROVE  FinalInv'
    <3>1. CASE Final!RateLimited(n, r) \/ Final!StoreFails(n, r)
      <4>1. Final!Refused(n, r)
        BY <3>1 DEF Final!RateLimited, Final!StoreFails
      <4> QED BY <4>1, FinalRefusedKeeps
    <3>2. CASE Final!Verify(n, r)
      BY <3>2, FinalVerifyKeeps
    <3>3. CASE Final!Store(n, r)
      BY <3>3, FinalStoreKeeps
    <3>4. CASE Final!Mark(n, r)
      BY <3>4, FinalMarkKeeps
    <3> QED BY <2>7, <3>1, <3>2, <3>3, <3>4
  <2>8. CASE Final!Restart(n)
    BY <2>8, FinalRestartKeeps
  <2> QED BY ONLY <2>1, <2>2, <2>3, <2>4, <2>5, <2>6, <2>7, <2>8
<1> QED BY <1>1, <1>2

-----------------------------------------------------------------------------
(***************************************************************************)
(* As many tips as witnesses are needed are tips of every producer; so a   *)
(* block of that height, of whomever, is one of them, and what is above    *)
(* builds on one.  That no fewer witnesses are enough is a hypothesis: a   *)
(* producer whose tip is not counted may have made one beside them.        *)
(***************************************************************************)
EveryoneWitnesses ==
    Cardinality(DagProducers) <= 1 \/ 3 * (Cardinality(DagProducers) - 1) < 2 * DagRegistered

LEMMA WitnessCount ==
    ASSUME NEW tips, Final!Witnessed(tips), IsFiniteSet(tips), EveryoneWitnesses
    PROVE  Cardinality(tips) >= Cardinality(DagProducers)
<1>1. DagRegistered \in Nat /\ DagRegistered > 0
  BY ChainsAssumption DEF Final!DagAssumption, Final!Witnessed
<1>2. PICK r \in Nat : r = 2 * DagRegistered
  BY <1>1
<1>3. /\ Final!Max({3, r}) \in {3, r} /\ \A x \in {3, r} : Final!Max({3, r}) >= x
  <2>1. \E m \in {3, r} : \A x \in {3, r} : m >= x
    BY <1>2
  <2> QED BY <2>1 DEF Final!Max
<1>4. 3 * Cardinality(tips) >= Final!Max({3, r})
  <2>1. 3 * Final!Cardinality(tips) >= Final!Max({3, r})
    BY <1>2 DEF Final!Witnessed
  <2> QED BY <2>1, SameCount
<1>5. PICK t \in Nat : t = Cardinality(tips)
  BY FS_CardinalityType
<1>6. PICK p \in Nat : p = Cardinality(DagProducers)
  BY FinalConstants, FS_CardinalityType
<1>7. PICK w \in Nat : w = Final!Max({3, r}) /\ w >= 3 /\ w >= r /\ 3 * t >= w
  BY <1>2, <1>3, <1>4, <1>5
<1>8. p <= 1 \/ 3 * (p - 1) < r
  BY <1>2, <1>6 DEF EveryoneWitnesses
<1>9. t >= p
  BY ONLY <1>2, <1>5, <1>6, <1>7, <1>8
<1> QED BY <1>5, <1>6, <1>9

\* Every producer has a tip of its own among them.
LEMMA EveryProducersTip ==
    ASSUME FinalInv, EveryoneWitnesses, NEW n \in DagNodes, Final!Witnessed(Final!Tips(blocks[n]))
    PROVE  \A p \in DagProducers : \E t \in Final!Tips(blocks[n]) : t.by = p
<1>1. PICK tips : tips = Final!Tips(blocks[n])
  OBVIOUS
<1>2. tips \subseteq blocks[n] /\ \A t \in tips : t.height = Final!TopHeight(blocks[n])
  BY <1>1, BlocksBounded, TipsFacts
<1>3. blocks[n] \subseteq AllOf(blocks)
  BY DEF AllOf
<1>4. tips \in SUBSET AllOf(blocks) /\ IsFiniteSet(tips)
  <2>1. tips \in SUBSET AllOf(blocks)
    BY <1>2, <1>3
  <2> QED BY <2>1, FS_Subset DEF FinalInv
<1>5. \A t \in tips : t.by \in DagProducers /\ t \in blocks[t.by]
  BY <1>2 DEF FinalInv, Settled, MadeIn
<1> DEFINE f == [t \in tips |-> t.by]
           I == {f[t] : t \in tips}
<1>6. \A t, u \in tips : t.by = u.by => t = u
  BY <1>2, <1>5 DEF FinalInv, OneEach
<1>7. I \in SUBSET DagProducers
  BY <1>5
<1>8. \A i \in I : \E t \in tips : t.by = i
  OBVIOUS
<1>9. f \in [tips -> I] /\ (\A t \in tips : f[t] = t.by) /\ (\A i \in I : \E t \in tips : f[t] = i)
  OBVIOUS
<1> HIDE DEF f, I
<1>10. f \in Bijection(tips, I)
  BY ONLY <1>6, <1>9 DEF Bijection, Injection, Surjection, IsInjective
<1>11. Cardinality(I) = Cardinality(tips) /\ IsFiniteSet(I)
  BY <1>4, <1>10, FS_Bijection DEF ExistsBijection
<1>12. Cardinality(tips) >= Cardinality(DagProducers)
  BY <1>1, <1>4, WitnessCount
<1>13. /\ Cardinality(I) <= Cardinality(DagProducers)
       /\ Cardinality(I) = Cardinality(DagProducers) => I = DagProducers
  BY <1>7, FinalConstants, FS_Subset
<1>14. I = DagProducers
  <2>1. Cardinality(I) \in Nat /\ Cardinality(DagProducers) \in Nat
    BY <1>11, FinalConstants, FS_CardinalityType
  <2> QED BY ONLY <1>11, <1>12, <1>13, <2>1
<1> QED BY <1>1, <1>8, <1>14

LEMMA FinalInvGivesFinal ==
    ASSUME FinalInv, EveryoneWitnesses
    PROVE  FinalEverywhere
<1>0. Final!Known = AllOf(blocks)
  BY DEF Final!Known, AllOf
<1> SUFFICES ASSUME NEW n \in DagNodes, NEW a \in Final!Final(blocks[n])
             PROVE  \A b \in AllOf(blocks) : b.height >= Final!TopHeight(blocks[n]) =>
                      a \in Final!ProperAncestors(AllOf(blocks), b)
  BY <1>0 DEF FinalEverywhere, Final!FinalEverywhere
<1>1. PICK all : all = AllOf(blocks)
  OBVIOUS
<1>2. PICK tips : tips = Final!Tips(blocks[n])
  OBVIOUS
<1>3. IsFiniteSet(all) /\ blocks[n] \subseteq all
  BY <1>1 DEF FinalInv, AllOf
<1>4. Final!Witnessed(tips) /\ a \in Final!CommonAncestors(blocks[n], tips)
  BY <1>2 DEF Final!Final
<1>5. \A t \in tips : a \in Final!ProperAncestors(blocks[n], t)
  BY <1>4 DEF Final!CommonAncestors
<1>6. \A t \in tips : a \in Final!ProperAncestors(all, t)
  BY <1>3, <1>5, MoreAncestors
<1>7. PICK top \in 0..DagHeight : top = Final!TopHeight(blocks[n])
  BY BlocksBounded, TopFacts
<1>8. tips \subseteq blocks[n] /\ \A t \in tips : t.height = top
  BY <1>2, <1>7, BlocksBounded, TipsFacts
<1>9. \A p \in DagProducers : \E t \in tips : t.by = p
  BY <1>2, <1>4, EveryProducersTip
<1>10. \A b \in all : /\ b.by \in DagProducers /\ b.height \in 1..DagHeight /\ b.parents \subseteq all
                      /\ b \in blocks[b.by] /\ \A q \in b.parents : q.height >= b.height - 1
                      /\ b.height > 1 => b.parents # {}
  <2> SUFFICES ASSUME NEW b \in all
               PROVE  /\ b.by \in DagProducers /\ b.height \in 1..DagHeight /\ b.parents \subseteq all
                      /\ b \in blocks[b.by] /\ \A q \in b.parents : q.height >= b.height - 1
                      /\ b.height > 1 => b.parents # {}
    OBVIOUS
  <2>1. PICK m \in DagNodes : b \in blocks[m]
    BY <1>1 DEF AllOf
  <2>2. MadeIn(b, blocks) /\ b \in blocks[b.by]
    BY <2>1 DEF FinalInv, Settled
  <2>3. blocks[b.by] \subseteq all
    BY <1>1, <2>2, FinalConstants DEF MadeIn, AllOf
  <2> QED BY <2>2, <2>3 DEF MadeIn
<1>11. ASSUME NEW b \in all, b.height = top
       PROVE  a \in Final!ProperAncestors(all, b)
  <2>1. PICK t \in tips : t.by = b.by
    BY <1>9, <1>10
  <2>2. t \in all /\ t \in blocks[b.by] /\ b \in blocks[b.by] /\ b.by \in DagProducers
    BY <1>3, <1>8, <1>10, <2>1
  <2>3. t = b
    BY <1>8, <1>11, <2>1, <2>2 DEF FinalInv, OneEach
  <2> QED BY <1>6, <2>3
<1> DEFINE S == {b \in all : b.height >= top => a \in Final!ProperAncestors(all, b)}
<1>12. ASSUME NEW b \in all, b.parents \subseteq S
       PROVE  b \in S
  <2> SUFFICES ASSUME b.height >= top PROVE a \in Final!ProperAncestors(all, b)
    BY <1>12
  <2>1. CASE b.height = top
    BY <1>11, <2>1
  <2>2. CASE b.height # top
    <3>1. b.height \in 1..DagHeight /\ b.height > 1 /\ b.height - 1 >= top
      <4>1. b.height \in 1..DagHeight
        BY <1>10
      <4>2. top # 0
        BY <1>8, <1>9, <1>10, <1>3
      <4> QED BY <2>2, <4>1, <4>2, FinalConstants
    <3>2. PICK q \in b.parents : q.height >= b.height - 1
      BY <1>10, <3>1
    <3>3. q \in S /\ q \in all /\ q.height \in 1..DagHeight
      BY <1>10, <1>12, <3>2
    <3>4. q.height >= top
      BY ONLY <3>1, <3>2, <3>3, FinalConstants, top \in 0..DagHeight
    <3>5. a \in Final!ProperAncestors(all, q)
      BY <3>3, <3>4
    <3>6. Final!ProperAncestors(all, q) \subseteq Final!ProperAncestors(all, b)
      BY <1>3, <3>2, <3>3, ParentAncestors
    <3> QED BY <3>5, <3>6
  <2> QED BY <2>1, <2>2
<1>13. S \in SUBSET all
  OBVIOUS
<1>14. Grounded(blocks)
  BY DEF FinalInv
<1>15. S = all
  <2> HIDE DEF S
  <2> QED BY <1>1, <1>12, <1>13, <1>14 DEF Grounded
<1> QED BY <1>1, <1>7, <1>15

\* A node that takes a block for final may rely on it: whatever any node has made or
\* makes later of that height or above builds on it, when no fewer tips than there are
\* producers are enough witnesses (state.py:862-864).
THEOREM FinalIsFinal ==
    ASSUME EveryoneWitnesses
    PROVE  Final!Spec => []FinalEverywhere
<1>1. FinalInv /\ [Final!Next]_dag => FinalInv'
  BY FinalNextKeeps
<1>2. Final!Init => FinalInv
  BY FinalStart
<1>3. FinalInv => FinalEverywhere
  BY FinalInvGivesFinal
<1>4. Final!Spec <=> Final!Init /\ [][Final!Next]_dag
  BY DEF Final!Spec, Final!vars, dag
<1> QED BY <1>1, <1>2, <1>3, <1>4, PTL

=============================================================================
