------------------------------ MODULE MCChains ------------------------------
(***************************************************************************)
(* Instances of Chains for TLC.  What a mode does not need of the          *)
(* transactions reaches no node in it.                                     *)
(*                                                                         *)
(* With slots the treasury pays bob and funds alice, and each of them pays *)
(* somebody.  Before alice is funded her payment is refused and leaves a   *)
(* row; what the treasury and bob pay after the first payment is           *)
(* independent.  In the DAG all transactions are of one sender, who has    *)
(* the money: two of them conflict on the nonce, the third needs either.   *)
(* For finality there are two payments that either producer may seal.      *)
(* In dag_order they are of two senders: the treasury pays bob and funds   *)
(* alice, who pays bob and sorts before the treasury.                      *)
(***************************************************************************)
EXTENDS Chains

CONSTANTS n1, n2, n3, treasury, alice, bob

Pay(s, n, to, amount) == [sender |-> s, nonce |-> n, to |-> to, amount |-> amount]

ToBob == Pay(treasury, 0, bob, 1)
ToBobNext == Pay(treasury, 1, bob, 1)
ToAlice == Pay(treasury, 0, alice, 1)
ToAliceNext == Pay(treasury, 1, alice, 2)
FromAlice == Pay(alice, 0, bob, 1)
FromBob == Pay(bob, 0, treasury, 1)
ChainTxs == {ToBob, ToBobNext, ToAlice, ToAliceNext, FromAlice, FromBob}

\* Where each transaction gets to, and to no other node
Reaching(there) == [t \in Txs |-> IF t \in DOMAIN there THEN there[t] ELSE {}]

Everywhere == Reaching([t \in {ToBob, ToAliceNext, FromAlice} |-> Nodes])
SplitReach == Reaching([t \in {ToBob, ToAliceNext, FromAlice, FromBob} |->
                           IF t \in {FromAlice, FromBob} THEN Nodes ELSE {n1}])
TwoThenOne == <<{n1}, {n1}, {n2}>>
ThreeThenOne == <<{n1}, {n1}, {n1}, {n2}>>

\* The treasury before the others, or alice first
TreasuryFirst == [t \in Txs |-> CHOOSE i \in 1..6 :
                     t = <<ToAlice, ToBob, ToBobNext, ToAliceNext, FromAlice, FromBob>>[i]]
AliceFirst == [t \in Txs |-> CHOOSE i \in 1..6 :
                  t = <<FromAlice, ToAlice, ToBob, ToBobNext, ToAliceNext, FromBob>>[i]]

ConflictReach == Reaching([t \in {ToAlice, ToBob, ToBobNext} |->
                              IF t = ToAlice THEN {n1, n2} ELSE {n2}])
FinalTxsReach == Reaching([t \in {ToBob, ToBobNext} |-> {n1, n2}])
OrderReach == Reaching([t \in {ToBob, ToAliceNext, FromAlice} |-> {n1}])

AllPeers == [n \in DagNodes |-> DagNodes \ {n}]
\* n1 hears of no block, n2 of those of n1
OneWay == [n \in DagNodes |-> IF n = n1 THEN {} ELSE IF n = n2 THEN {n1} ELSE {n1, n2}]
TwoHear == [n \in DagNodes |-> IF n = n3 THEN {} ELSE {n1, n2} \ {n}]

=============================================================================
