---------------------------- MODULE EscrowVault ----------------------------
(***************************************************************************)
(* What an escrow promises, whatever runs it: a deal puts an amount into   *)
(* the vault when it opens, the vault keeps it untouched while the deal is *)
(* held, and it leaves the vault exactly once, in full, when the deal is   *)
(* released.  Who is paid is the business of the implementation.           *)
(*                                                                         *)
(* The orders and jobs of MormLedger implement it with the balance of the  *)
(* ESCROW account as the vault.                                            *)
(***************************************************************************)
EXTENDS Integers

CONSTANT Deals

VARIABLES
    vault,      \* what the vault contains
    held        \* per deal: its phase and its amount

vars == <<vault, held>>

Phase == {"none", "held", "released"}

Init ==
    /\ vault = 0
    /\ held = [d \in Deals |-> [phase |-> "none", amount |-> 0]]

\* A deal opens with an amount of its own choice, which joins the vault.
Open(d) ==
    /\ held[d].phase = "none"
    /\ held'[d].amount \in Nat
    /\ held' = [held EXCEPT ![d] = [phase |-> "held", amount |-> held'[d].amount]]
    /\ vault' = vault + held'[d].amount

\* A held deal is released: exactly its amount leaves the vault.
Release(d) ==
    /\ held[d].phase = "held"
    /\ held' = [held EXCEPT ![d].phase = "released"]
    /\ vault' = vault - held[d].amount

\* Money sent to the vault for no deal stays there.
Deposit ==
    /\ vault' >= vault
    /\ UNCHANGED held

Next == Deposit \/ \E d \in Deals : Open(d) \/ Release(d)

Spec == Init /\ [][Next]_vars

=============================================================================
