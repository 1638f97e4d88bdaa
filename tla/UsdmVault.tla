----------------------------- MODULE UsdmVault -----------------------------
(***************************************************************************)
(* The contracts that hold the dollars: USDm.sol, a token that is minted   *)
(* for USDC and redeemed for it; USDmLockBridge.sol, which keeps the USDm  *)
(* that was locked for L1 and releases it for a burn on L1 that a quorum   *)
(* of signers attests; GuardianMultisig.sol, whose own signers control the *)
(* pause switch of the bridge.                                             *)
(*                                                                         *)
(* A call that would revert is not a step.  Fewer signers than a quorum    *)
(* needs may sign anything; the others sign a release only for the burn on *)
(* L1, as the relayer's verify_and_sign_usdm_unlock does, and a call of    *)
(* the guardian only if they decided on it, one call for each nonce.       *)
(* Allowances are modelled for the bridge as the spender.                  *)
(***************************************************************************)
EXTENDS SignerQuorum, Functions, FiniteSetsExt

CONSTANTS
    Holders, Vault,             \* accounts of USDm, and the lock bridge
    UsdcAtStart,                \* the USDC they own
    Sums,                       \* the amounts that calls may carry
    MinLock,
    L1Burns, ReleaseOf,         \* burns of USDm on L1: [to, amount] of each
    GuardSigners, GuardThreshold, GuardTraitors,
    Council, Successor,         \* the multisig, and an account it may hand over to
    WindowLen, MaxUnlock,       \* windowLen, maxUnlockPerWindow
    MaxNow, MaxGuardCalls       \* bounds: the clock, the multisig's nonce

ASSUME VaultAssumption ==
    /\ Vault \notin Holders /\ IsFiniteSet(Holders) /\ Council # Successor
    /\ UsdcAtStart \in [Holders -> Nat] /\ Sums \subseteq Nat /\ MinLock \in Nat
    /\ ReleaseOf \in [L1Burns -> [to : Holders, amount : Nat \ {0}]]
    /\ IsCommittee(GuardSigners, GuardThreshold) /\ GuardTraitors \subseteq GuardSigners
    /\ Cardinality(GuardTraitors) < GuardThreshold
    /\ WindowLen \in Nat \ {0} /\ MaxUnlock \in Nat \ {0}
    /\ MaxNow \in Nat /\ MaxGuardCalls \in Nat

VARIABLES
    usdc, reserve,              \* USDC of the holders, and of the token's contract
    usdm, usdmSupply,           \* balanceOf, totalSupply
    allowance,                  \* what a holder lets the bridge take
    burnedOnL1, unlockedBurn,
    paused, guardian,
    clock, windowStart, unlockedInWindow,
    released,                   \* the releases so far: [at, burn, to, amount] (history)
    decided, executed           \* calls the guardians decided on, and that were executed,
                                \* by nonce

tokenVars == <<usdc, reserve, usdm, usdmSupply, allowance>>
releaseVars == <<unlockedBurn, windowStart, unlockedInWindow, released>>
guardVars == <<paused, guardian, decided, executed>>
vaultVars == <<tokenVars, burnedOnL1, releaseVars, guardVars, clock>>

Accounts == Holders \cup {Vault}
GuardCalls == {"pause", "unpause", "handOver"}

VaultInit ==
    /\ usdc = UsdcAtStart /\ reserve = 0
    /\ usdm = [a \in Accounts |-> 0] /\ usdmSupply = 0
    /\ allowance = [h \in Holders |-> 0]
    /\ burnedOnL1 = {} /\ unlockedBurn = {} /\ released = {}
    /\ paused = FALSE /\ guardian = Council /\ decided = <<>> /\ executed = <<>>
    /\ clock = 0 /\ windowStart = 0 /\ unlockedInWindow = 0

-----------------------------------------------------------------------------
(* USDm.sol                                                                 *)

DepositTo(u, to, n) ==
    /\ usdc[u] >= n
    /\ usdc' = [usdc EXCEPT ![u] = @ - n]
    /\ reserve' = reserve + n
    /\ usdm' = [usdm EXCEPT ![to] = @ + n]
    /\ usdmSupply' = usdmSupply + n
    /\ UNCHANGED <<allowance, burnedOnL1, releaseVars, guardVars, clock>>

WithdrawTo(u, to, n) ==
    /\ usdm[u] >= n
    /\ usdm' = [usdm EXCEPT ![u] = @ - n]
    /\ usdmSupply' = usdmSupply - n
    /\ reserve' = reserve - n
    /\ usdc' = [usdc EXCEPT ![to] = @ + n]
    /\ UNCHANGED <<allowance, burnedOnL1, releaseVars, guardVars, clock>>

Moved(from, to, n) ==
    [a \in Accounts |-> usdm[a] + (IF a = to THEN n ELSE 0) - (IF a = from THEN n ELSE 0)]

Transfer(u, to, n) ==
    /\ usdm[u] >= n
    /\ usdm' = Moved(u, to, n)
    /\ UNCHANGED <<usdc, reserve, usdmSupply, allowance, burnedOnL1, releaseVars, guardVars,
                   clock>>

Approve(u, n) ==
    /\ allowance' = [allowance EXCEPT ![u] = n]
    /\ UNCHANGED <<usdc, reserve, usdm, usdmSupply, burnedOnL1, releaseVars, guardVars, clock>>

TransferFrom(u, n) ==
    /\ allowance[u] >= n
    /\ allowance' = [allowance EXCEPT ![u] = @ - n]
    /\ usdm[u] >= n
    /\ usdm' = Moved(u, Vault, n)

-----------------------------------------------------------------------------
(* USDmLockBridge.sol                                                       *)

Lock(u, n) ==
    /\ ~paused
    /\ n > 0 /\ n >= MinLock
    /\ TransferFrom(u, n)
    /\ UNCHANGED <<usdc, reserve, usdmSupply, burnedOnL1, releaseVars, guardVars, clock>>

Accrue(n) ==
    LET anew == clock >= windowStart + WindowLen
        next == n + (IF anew THEN 0 ELSE unlockedInWindow)
    IN  /\ next <= MaxUnlock
        /\ windowStart' = IF anew THEN clock ELSE windowStart
        /\ unlockedInWindow' = next

\* The signatures over a release that can exist
Attestors(b, to, n) ==
    IF b \in burnedOnL1 /\ ReleaseOf[b] = [to |-> to, amount |-> n]
    THEN Committee ELSE Traitors

\* Deviation: the burn is not remembered
UnlockForgets(b, to, n, sigs) ==
    /\ ~paused
    /\ n > 0
    /\ Accepts(Committee, Threshold, sigs)
    /\ Accrue(n)
    /\ usdm[Vault] >= n
    /\ usdm' = Moved(Vault, to, n)
    /\ unlockedBurn' = unlockedBurn
    /\ released' = released \cup {[at |-> clock, burn |-> b, to |-> to, amount |-> n]}
    /\ UNCHANGED <<usdc, reserve, usdmSupply, allowance, burnedOnL1, guardVars, clock>>

Unlock(b, to, n, sigs) ==
    /\ ~paused
    /\ n > 0
    /\ b \notin unlockedBurn
    /\ Accepts(Committee, Threshold, sigs)
    /\ unlockedBurn' = unlockedBurn \cup {b}
    /\ Accrue(n)
    /\ usdm[Vault] >= n
    /\ usdm' = Moved(Vault, to, n)
    /\ released' = released \cup {[at |-> clock, burn |-> b, to |-> to, amount |-> n]}
    /\ UNCHANGED <<usdc, reserve, usdmSupply, allowance, burnedOnL1, guardVars, clock>>

\* The relayer's signers see a BRIDGE_BURN of USDm on L1
BurnOnL1(b) ==
    /\ burnedOnL1' = burnedOnL1 \cup {b}
    /\ UNCHANGED <<tokenVars, releaseVars, guardVars, clock>>

-----------------------------------------------------------------------------
(* GuardianMultisig.sol, and what it calls on the bridge                    *)

Decide(c) ==
    /\ Len(decided) = Len(executed) /\ Len(decided) < MaxGuardCalls
    /\ decided' = Append(decided, c)
    /\ UNCHANGED <<paused, guardian, executed, tokenVars, burnedOnL1, releaseVars, clock>>

SetPaused(caller, p) ==
    /\ caller = guardian
    /\ paused' = p
    /\ UNCHANGED guardian

SetGuardian(caller, g) ==
    /\ caller = guardian
    /\ guardian' = g
    /\ UNCHANGED paused

\* nonce is Len(executed): the digest that is signed names it.
Approvers(c, nonce) ==
    IF nonce < Len(decided) /\ decided[nonce + 1] = c THEN GuardSigners ELSE GuardTraitors

Execute(c, sigs) ==
    /\ Len(executed) < MaxGuardCalls
    /\ Accepts(GuardSigners, GuardThreshold, sigs)
    /\ executed' = Append(executed, c)
    /\ CASE c = "pause" -> SetPaused(Council, TRUE)
         [] c = "unpause" -> SetPaused(Council, FALSE)
         [] c = "handOver" -> SetGuardian(Council, Successor)
    /\ UNCHANGED <<decided, tokenVars, burnedOnL1, releaseVars, clock>>

\* The account the multisig handed over to uses the switch itself
SuccessorPauses(p) ==
    /\ SetPaused(Successor, p)
    /\ UNCHANGED <<decided, executed, tokenVars, burnedOnL1, releaseVars, clock>>

Tick ==
    /\ clock < MaxNow
    /\ clock' = clock + 1
    /\ UNCHANGED <<tokenVars, burnedOnL1, releaseVars, guardVars>>

-----------------------------------------------------------------------------
\* Sequences of signatures: as long as the threshold, or one less or more
Bundles(signers, threshold) == UNION {[1..k -> signers] : k \in (threshold - 1)..(threshold + 1)}

TokenCall ==
    \E u \in Holders, n \in Sums :
        \/ \E to \in Holders : DepositTo(u, to, n) \/ WithdrawTo(u, to, n) \/ Transfer(u, to, n)
        \/ Approve(u, n) \/ Lock(u, n)

UnlockCall ==
    \E b \in L1Burns, to \in Holders, n \in Sums :
        \E sigs \in Bundles(Attestors(b, to, n), Threshold) : Unlock(b, to, n, sigs)

GuardCall ==
    \E c \in GuardCalls :
        Decide(c) \/ \E sigs \in Bundles(Approvers(c, Len(executed)), GuardThreshold) :
                         Execute(c, sigs)

VaultNext ==
    \/ TokenCall \/ UnlockCall \/ GuardCall \/ Tick
    \/ \E p \in BOOLEAN : SuccessorPauses(p)
    \/ \E b \in L1Burns : BurnOnL1(b)

VaultSpec == VaultInit /\ [][VaultNext]_vaultVars

-----------------------------------------------------------------------------
\* The signers that may lie are too few: what the bridge released was burned on
\* L1, in that amount, for that recipient, and is released once.
ReleasedWasBurned ==
    /\ \A r \in released : r.burn \in burnedOnL1
                             /\ ReleaseOf[r.burn] = [to |-> r.to, amount |-> r.amount]
    /\ \A r, s \in released : r.burn = s.burn => r = s

ReleasedIn(from, to) ==
    MapThenSumSet(LAMBDA r : r.amount, {r \in released : r.at \in from..to})

\* The velocity cap: the contract's window counts what has left the bridge since
\* it began, and within the time of one window never more than two windows of
\* releases leave the bridge (the windows do not roll, so two of them can meet).
ReleaseCapped ==
    /\ ReleasedIn(windowStart, clock) <= MaxUnlock
    /\ \A t \in 0..MaxNow : ReleasedIn(t, t + WindowLen - 1) <= 2 * MaxUnlock

\* USDm is redeemable: its contract has the USDC of every token there is.
FullyBacked ==
    /\ reserve = usdmSupply
    /\ usdmSupply = SumFunction(usdm)

\* The pause switch moves only as its guardians decided: an approval counts for
\* its own nonce and for no later one.
ExecutedAsDecided ==
    \A i \in DOMAIN executed : i \in DOMAIN decided /\ executed[i] = decided[i]

=============================================================================
