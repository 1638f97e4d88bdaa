------------------------------ MODULE MCLedger ------------------------------
(***************************************************************************)
(* Two small instances of the ledger in one specification.  A behaviour is *)
(* one of one of them, chosen at the start: the kinds of transactions the  *)
(* scenario is not about are not signed in it.                             *)
(*                                                                         *)
(* "market" is about money: orders, jobs, stakes, transfers and rewards of *)
(* three users, with the treasury's single key and no bridge.  "control"   *)
(* is about who may act for the treasury: mints, burns and registrations   *)
(* of two users, before and after the hand-over to a signer set.           *)
(***************************************************************************)
EXTENDS LedgerEscrow, TLC

CONSTANTS alice, bob, treasury, escrow, Scenarios

MCUsers == {treasury, alice, bob}
MCSignerSets == {{treasury, alice}}

MCFeeBps == 100
MCBpsDenom == 10000

\* Transactions each user signs, per scenario
MarketNonce == treasury :> 3 @@ alice :> 4 @@ bob :> 3
ControlNonce == treasury :> 2 @@ alice :> 3 @@ bob :> 0

VARIABLE scenario

\* No mint, no burn, no producer and no signer set
MarketNext ==
    /\ scenario = "market"
    /\ \/ \E s \in Users : MarketTx(s)
       \/ \E s \in Users, v \in Values :
             Stake(s, v) \/ \E to \in Accounts : Transfer(s, to, v)
       \/ \E op \in TreasuryOps : op.kind \in {"REGISTER_AI_SERVICE", "FINALIZE"}
                                  /\ DirectTreasuryTx(op)

\* No content, hence no order, job or view; no stake or transfer; bob has no account.
\* What the signer set decides uses the treasury's nonces up beyond those it signs.
ControlNext ==
    /\ scenario = "control"
    /\ \/ \E s \in Users, t \in AllTokens, v \in Values : BridgeBurn(s, t, v)
       \/ TreasuryTx
       \/ \E u \in UNION SignerSets, n \in 0..ControlNonce[Treasury] :
             \E op \in TreasuryOps : op.kind # "FINALIZE" /\ Cosign(u, op, n)
    /\ bob \notin rows' /\ \A c \in cosigned' : c.op.kind = "BRIDGE_MINT" => c.op.to # bob
    /\ \/ UNCHANGED nonce
       \/ \E s \in Users : nonce[s] < ControlNonce[s] /\ nonce'[s] > nonce[s]
    /\ \A u \in Users \ {Treasury} : nonce'[u] <= ControlNonce[u]

LedgerInit == Init /\ scenario \in Scenarios
LedgerNext == UNCHANGED scenario /\ (MarketNext \/ ControlNext)
LedgerSpec == LedgerInit /\ [][LedgerNext]_<<scenario, vars>>

=============================================================================
