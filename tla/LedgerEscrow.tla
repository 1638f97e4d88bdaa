---------------------------- MODULE LedgerEscrow ----------------------------
(***************************************************************************)
(* The orders and jobs of the ledger as an implementation of EscrowVault:  *)
(* the vault is the balance of the ESCROW account, a deal is an order or a *)
(* job, and the statuses of both collapse into the three phases of a deal. *)
(***************************************************************************)
EXTENDS MormLedger

OrderDeal(o) ==
    [phase |-> IF orders[o].status = 0 THEN "none"
               ELSE IF orders[o].status \in {Created, Packed, Opened} THEN "held"
               ELSE "released",
     amount |-> orders[o].amount]

JobDeal(j) ==
    [phase |-> IF jobs[j].status = 0 THEN "none"
               ELSE IF jobs[j].status \in {Posted, Claimed} THEN "held"
               ELSE "released",
     amount |-> jobs[j].reward]

LedgerDeals == ({"order"} \X Orders) \cup ({"job"} \X Jobs)

held == [d \in LedgerDeals |-> IF d[1] = "order" THEN OrderDeal(d[2]) ELSE JobDeal(d[2])]

Vault == INSTANCE EscrowVault WITH Deals <- LedgerDeals, vault <- balance[Escrow], held <- held

\* Every order and job of the ledger is an escrow deal: what CREATE_ORDER and
\* POST_JOB lock, FINALIZE and SUBMIT_WORK_PROOF release in full, once.
ImplementsEscrow == Vault!Spec

=============================================================================
