------------------------------ MODULE TxReplay ------------------------------
(***************************************************************************)
(* What a list of transactions does to a database, refused ones included.  *)
(*                                                                         *)
(* MormLedger has every kind of transaction and only accepted ones.  The   *)
(* question here is the other one: `_apply_tx` inserts the sender's row    *)
(* before it looks at the nonce, and only some of its callers undo that    *)
(* when the transaction is refused.  TRANSFER is the one kind needed for   *)
(* it: a refusal depends on the order of transactions, and leaves a row.   *)
(*                                                                         *)
(* A database is a record of its rows and of the columns of those rows; it *)
(* also stands for its state root, the hash of all of them.                *)
(***************************************************************************)
EXTENDS Integers, Sequences, SequencesExt

CONSTANTS
    Accounts, Treasury,
    Supply,     \* what the treasury starts with
    Txs         \* transfers: records of sender, nonce, to and amount

ASSUME ReplayAssumption ==
    /\ Treasury \in Accounts
    /\ Supply \in Nat
    /\ Txs \subseteq [sender : Accounts, nonce : Nat, to : Accounts, amount : Nat \ {0}]

Genesis ==
    [rows |-> {Treasury},
     nonce |-> [a \in Accounts |-> 0],
     balance |-> [a \in Accounts |-> IF a = Treasury THEN Supply ELSE 0]]

\* Deviation: the nonce is not compared
AcceptedAnyNonce(db, tx) == db.balance[tx.sender] >= tx.amount

\* No two transactions of one sender and one nonce fit the same database.
Accepted(db, tx) ==
    /\ tx.nonce = db.nonce[tx.sender]
    /\ db.balance[tx.sender] >= tx.amount

\* A refused transfer leaves its sender's row, an accepted one has all effects.
ApplyTx(db, tx) ==
    IF Accepted(db, tx)
    THEN [rows |-> db.rows \cup {tx.sender, tx.to},
          nonce |-> [db.nonce EXCEPT ![tx.sender] = @ + 1],
          balance |-> [[db.balance EXCEPT ![tx.sender] = @ - tx.amount]
                          EXCEPT ![tx.to] = @ + tx.amount]]
    ELSE [db EXCEPT !.rows = @ \cup {tx.sender}]

\* Trying each transaction in turn: the database, and those that were accepted
TryTx(run, tx) ==
    [db |-> ApplyTx(run.db, tx),
     applied |-> IF Accepted(run.db, tx) THEN Append(run.applied, tx) ELSE run.applied]
Run(db, txs) ==
    LET run[i \in 0..Len(txs)] ==
          IF i = 0 THEN [db |-> db, applied |-> <<>>] ELSE TryTx(run[i - 1], txs[i])
    IN  run[Len(txs)]

\* A strict replay raises at the first refusal
AppliesStrictly(db, txs) == Run(db, txs).applied = txs

Columns(db) == <<db.nonce, db.balance>>

\* The transactions of a list that a set does not have, in their order
Without(txs, gone) ==
    FlattenSeq([i \in DOMAIN txs |-> IF txs[i] \in gone THEN <<>> ELSE <<txs[i]>>])

=============================================================================
