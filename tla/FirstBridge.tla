---------------------------- MODULE FirstBridge ----------------------------
(***************************************************************************)
(* The first generation of bridges.  relayer.py watches two contracts of   *)
(* an Anvil chain that trust its key, MORMBridge.sol for ether and         *)
(* MORMBridgeERC20.sol for USDC; ether is credited as MORM on L1, USDC as  *)
(* a mirrored token.  Two further contracts have no relayer of their own:  *)
(* MORMBridgeMS.sol pays for a quorum of signatures, and                   *)
(* MORMBridgeOptimistic.sol pays what the treasury proposed if nobody      *)
(* challenged it in time.  The four share no state.                        *)
(*                                                                         *)
(* Anvil mines a block for each transaction and replaces none.  Between    *)
(* two calls of the relayer both chains move; calls fail before or after   *)
(* they did their work, and the relayer may crash.                         *)
(***************************************************************************)
EXTENDS SignerQuorum, TreasuryMints, Functions, FiniteSetsExt

CONSTANTS
    FirstLocks,         \* locks: [token, amount] of each
    FirstBurns,         \* burns on L1: [token, amount] of each
    MultiBurns,         \* burns to be paid by the bridge of signers: the amount
    ProposedBurns,      \* burns to be paid by the optimistic bridge: the amount
    FirstDeposit,       \* the ether that those two bridges have from locks
    Period,             \* challengePeriod
    MaxSeconds          \* bound: the clock of the optimistic bridge

ASSUME FirstBridgeAssumption ==
    /\ \A x \in {FirstLocks, FirstBurns} :
          x \in [DOMAIN x -> [token : {"MORM", "USDC"}, amount : Nat \ {0}]]
    /\ \A x \in {MultiBurns, ProposedBurns} : x \in [DOMAIN x -> Nat \ {0}]
    /\ DOMAIN FirstLocks \subseteq AllLocks
    /\ FirstDeposit \in Nat /\ Period \in Nat \ {0} /\ MaxSeconds \in Nat

VARIABLES
    \* The two bridges of the relayer: their balances, the blocks of the locks
    \* (0 for none), the burns that were paid, the latest block
    bridgeHas, lockBlock, paidBurns, anvilHead,
    \* L1, besides the mints: bridge_burns with evm_unlocked
    firstBurned, firstConfirmed,
    \* Relayer: last_evm_block, the sets in its memory, where it is in its loop
    lastEvmBlock, handledLockIds, handledBurnHashes, firstJob,
    \* The bridge of signers: its balance, its lockNonce, the burns there are and
    \* those that were paid
    multiHas, multiNonce, multiBurned, multiPaid,
    \* The optimistic bridge: its balance, its rows, its clock, and when a burn
    \* was paid and when challenged (history; -1 for never)
    optimisticHas, pending, seconds, paidAt, challengedAt

relayEvmVars == <<bridgeHas, lockBlock, paidBurns, anvilHead>>
relayerMemory == <<lastEvmBlock, handledLockIds, handledBurnHashes, firstJob>>
relayVars == <<relayEvmVars, firstBurned, firstConfirmed, relayerMemory, mintVars>>
multiVars == <<multiHas, multiNonce, multiBurned, multiPaid>>
optimisticVars == <<optimisticHas, pending, seconds, paidAt, challengedAt>>
firstVars == <<relayVars, multiVars, optimisticVars>>

NoRow == [proposedAt |-> -1, challenged |-> FALSE, finalized |-> FALSE]
FirstIdle == [at |-> "idle"]

FirstInit ==
    /\ MintsInit
    /\ bridgeHas = [t \in {"MORM", "USDC"} |-> 0] /\ anvilHead = 1
    /\ lockBlock = [l \in DOMAIN FirstLocks |-> 0] /\ paidBurns = {}
    /\ firstBurned = {} /\ firstConfirmed = {}
    /\ lastEvmBlock = 1 /\ handledLockIds = {} /\ handledBurnHashes = {}
    /\ firstJob = FirstIdle
    /\ multiHas = FirstDeposit /\ multiNonce = 0 /\ multiBurned = {} /\ multiPaid = {}
    /\ optimisticHas = FirstDeposit /\ seconds = 0
    /\ pending = [b \in DOMAIN ProposedBurns |-> NoRow]
    /\ paidAt = [b \in DOMAIN ProposedBurns |-> -1]
    /\ challengedAt = [b \in DOMAIN ProposedBurns |-> -1]

-----------------------------------------------------------------------------
(* L1: the mirror of USDC; a burn of MORM needs no lock                     *)

AmountOf(table, S) == MapThenSumSet(LAMBDA x : table[x].amount, S)
OfUsdc(table, S) == {x \in S : table[x].token = "USDC"}

UsdcMirror == AmountOf(FirstLocks, OfUsdc(FirstLocks, creditedLocks \cap DOMAIN FirstLocks))
                - AmountOf(FirstBurns, OfUsdc(FirstBurns, firstBurned))
UsdcOwed == AmountOf(FirstBurns, OfUsdc(FirstBurns, firstBurned \ paidBurns))

BurnFirst(b) ==
    /\ b \notin firstBurned
    /\ FirstBurns[b].token = "USDC" => UsdcMirror >= FirstBurns[b].amount
    /\ firstBurned' = firstBurned \cup {b}
    /\ UNCHANGED <<firstConfirmed, mintVars, relayEvmVars, relayerMemory>>

FirstMintsGoOn ==
    /\ L1Mints
    /\ UNCHANGED <<firstBurned, firstConfirmed, relayEvmVars, relayerMemory>>

-----------------------------------------------------------------------------
(* MORMBridge.sol and MORMBridgeERC20.sol                                   *)

Locked(l) ==
    /\ lockBlock[l] = 0
    /\ lockBlock' = [lockBlock EXCEPT ![l] = anvilHead + 1]
    /\ anvilHead' = anvilHead + 1
    /\ bridgeHas' = [bridgeHas EXCEPT ![FirstLocks[l].token] = @ + FirstLocks[l].amount]
    /\ UNCHANGED paidBurns

LockEther(l) ==
    /\ FirstLocks[l].token = "MORM"
    /\ Locked(l)
    /\ UNCHANGED <<firstBurned, firstConfirmed, mintVars, relayerMemory>>

LockToken(l) ==
    /\ FirstLocks[l].token # "MORM"
    /\ Locked(l)
    /\ UNCHANGED <<firstBurned, firstConfirmed, mintVars, relayerMemory>>

Pay(b) ==
    /\ bridgeHas[FirstBurns[b].token] >= FirstBurns[b].amount
    /\ bridgeHas' = [bridgeHas EXCEPT ![FirstBurns[b].token] = @ - FirstBurns[b].amount]
    /\ paidBurns' = paidBurns \cup {b}
    /\ anvilHead' = anvilHead + 1
    /\ UNCHANGED lockBlock

UnlockEther(b) ==
    /\ FirstBurns[b].token = "MORM"
    /\ b \notin paidBurns
    /\ Pay(b)

UnlockToken(b) ==
    /\ FirstBurns[b].token # "MORM"
    /\ b \notin paidBurns
    /\ Pay(b)

-----------------------------------------------------------------------------
(* relayer.py: poll_evm_locks                                               *)

PollFirstLocks ==
    /\ firstJob = FirstIdle
    /\ firstJob' = IF anvilHead < lastEvmBlock THEN [at |-> "polled"]
                   ELSE [at |-> "locks", head |-> anvilHead,
                         todo |-> {l \in DOMAIN FirstLocks :
                                     lockBlock[l] # 0 /\ lockBlock[l] \in lastEvmBlock..anvilHead}
                                  \ handledLockIds]
    /\ UNCHANGED <<lastEvmBlock, handledLockIds, handledBurnHashes, firstBurned,
                   firstConfirmed, mintVars, relayEvmVars>>

SubmitMint(l) ==
    /\ firstJob.at = "locks" /\ l \in firstJob.todo
    /\ QueueCredit(l)
    /\ handledLockIds' = handledLockIds \cup {l}
    /\ firstJob' = [firstJob EXCEPT !.todo = @ \ {l}]
    /\ UNCHANGED <<lastEvmBlock, handledBurnHashes, firstBurned, firstConfirmed, relayEvmVars>>

\* The POST fails, before or after the node has queued the mint
SubmitMintFails(l) ==
    /\ firstJob.at = "locks" /\ l \in firstJob.todo
    /\ QueueCredit(l) \/ UNCHANGED mintVars
    /\ firstJob' = [firstJob EXCEPT !.todo = @ \ {l}]
    /\ UNCHANGED <<lastEvmBlock, handledLockIds, handledBurnHashes, firstBurned,
                   firstConfirmed, relayEvmVars>>

FirstLocksDone ==
    /\ firstJob.at = "locks" /\ firstJob.todo = {}
    /\ lastEvmBlock' = firstJob.head + 1
    /\ firstJob' = [at |-> "polled"]
    /\ UNCHANGED <<handledLockIds, handledBurnHashes, firstBurned, firstConfirmed, mintVars,
                   relayEvmVars>>

-----------------------------------------------------------------------------
(* relayer.py: poll_morm_burns                                              *)

\* GET /bridge/burns?only_pending=1
PendingFirstBurns == firstBurned \ firstConfirmed

PollFirstBurns ==
    /\ firstJob.at = "polled"
    /\ firstJob' = [at |-> "burns", todo |-> PendingFirstBurns \ handledBurnHashes]
    /\ UNCHANGED <<lastEvmBlock, handledLockIds, handledBurnHashes, firstBurned,
                   firstConfirmed, mintVars, relayEvmVars>>

\* The unlock is mined, and its receipt comes within ten seconds or it does not
SendFirstUnlock(b) ==
    /\ firstJob.at = "burns" /\ b \in firstJob.todo
    /\ UnlockEther(b) \/ UnlockToken(b)
    /\ firstJob' \in {[firstJob EXCEPT !.todo = @ \ {b}],
                      [at |-> "confirm", todo |-> firstJob.todo \ {b}, burn |-> b]}
    /\ UNCHANGED <<lastEvmBlock, handledLockIds, handledBurnHashes, firstBurned,
                   firstConfirmed, mintVars>>

\* Not sent, or reverted: paid already, or too little in the bridge
FirstUnlockFails(b) ==
    /\ firstJob.at = "burns" /\ b \in firstJob.todo
    /\ firstJob' = [firstJob EXCEPT !.todo = @ \ {b}]
    /\ UNCHANGED <<lastEvmBlock, handledLockIds, handledBurnHashes, firstBurned,
                   firstConfirmed, mintVars, relayEvmVars>>

ConfirmFirstBurn ==
    /\ firstJob.at = "confirm"
    /\ firstConfirmed' = firstConfirmed \cup {firstJob.burn}
    /\ handledBurnHashes' = handledBurnHashes \cup {firstJob.burn}
    /\ firstJob' = [at |-> "burns", todo |-> firstJob.todo]
    /\ UNCHANGED <<lastEvmBlock, handledLockIds, firstBurned, mintVars, relayEvmVars>>

\* The POST fails, before or after the node has set the flag
ConfirmFirstFails ==
    /\ firstJob.at = "confirm"
    /\ firstConfirmed' \in {firstConfirmed, firstConfirmed \cup {firstJob.burn}}
    /\ firstJob' = [at |-> "burns", todo |-> firstJob.todo]
    /\ UNCHANGED <<lastEvmBlock, handledLockIds, handledBurnHashes, firstBurned, mintVars,
                   relayEvmVars>>

FirstBurnsDone ==
    /\ firstJob.at = "burns" /\ firstJob.todo = {}
    /\ firstJob' = FirstIdle
    /\ UNCHANGED <<lastEvmBlock, handledLockIds, handledBurnHashes, firstBurned,
                   firstConfirmed, mintVars, relayEvmVars>>

\* A call outside of the try blocks raises: the iteration of run() ends
FirstPollFails ==
    /\ firstJob.at \in {"locks", "polled"}
    /\ firstJob' = FirstIdle
    /\ UNCHANGED <<lastEvmBlock, handledLockIds, handledBurnHashes, firstBurned,
                   firstConfirmed, mintVars, relayEvmVars>>

\* The next process starts at the head of the chain
FirstCrash ==
    /\ lastEvmBlock' = anvilHead
    /\ handledLockIds' = {} /\ handledBurnHashes' = firstConfirmed
    /\ firstJob' = FirstIdle
    /\ UNCHANGED <<firstBurned, firstConfirmed, mintVars, relayEvmVars>>

RelayNext ==
    /\ \/ FirstMintsGoOn \/ PollFirstLocks \/ FirstLocksDone \/ PollFirstBurns
       \/ ConfirmFirstBurn \/ ConfirmFirstFails \/ FirstBurnsDone \/ FirstPollFails \/ FirstCrash
       \/ \E l \in DOMAIN FirstLocks :
             LockEther(l) \/ LockToken(l) \/ SubmitMint(l) \/ SubmitMintFails(l)
       \/ \E b \in DOMAIN FirstBurns :
             BurnFirst(b) \/ SendFirstUnlock(b) \/ FirstUnlockFails(b)
    /\ UNCHANGED <<multiVars, optimisticVars>>

-----------------------------------------------------------------------------
(* MORMBridgeMS.sol                                                         *)

MultiLock(n) ==
    /\ n > 0
    /\ multiHas' = multiHas + n
    /\ multiNonce' = multiNonce + 1
    /\ UNCHANGED <<multiBurned, multiPaid>>

MultiBurn(b) ==
    /\ multiBurned' = multiBurned \cup {b}
    /\ UNCHANGED <<multiHas, multiNonce, multiPaid>>

MultiUnlock(b, n, sigs) ==
    /\ n > 0
    /\ b \notin {p.burn : p \in multiPaid}
    /\ Accepts(Committee, Threshold, sigs)
    /\ multiHas >= n
    /\ multiPaid' = multiPaid \cup {[burn |-> b, amount |-> n]}
    /\ multiHas' = multiHas - n
    /\ UNCHANGED <<multiNonce, multiBurned>>

\* A signer that is no traitor attests a burn on L1 with its amount
MultiSigners(b, n) ==
    IF b \in multiBurned /\ n = MultiBurns[b] THEN Committee ELSE Traitors

MultiNext ==
    /\ \/ multiNonce = 0 /\ MultiLock(1)
       \/ \E b \in DOMAIN MultiBurns :
             \/ MultiBurn(b)
             \/ \E n \in 1..FirstDeposit : \E sigs \in [1..Threshold -> MultiSigners(b, n)] :
                   MultiUnlock(b, n, sigs)
    /\ UNCHANGED <<relayVars, optimisticVars>>

-----------------------------------------------------------------------------
(* MORMBridgeOptimistic.sol                                                 *)

Propose(b) ==
    /\ pending[b].proposedAt = -1 /\ paidAt[b] = -1
    /\ pending' = [pending EXCEPT ![b].proposedAt = seconds]
    /\ UNCHANGED <<optimisticHas, seconds, paidAt, challengedAt>>

Challenge(b) ==
    /\ pending[b].proposedAt # -1
    /\ ~(pending[b].challenged \/ pending[b].finalized)
    /\ seconds < pending[b].proposedAt + Period
    /\ pending' = [pending EXCEPT ![b].challenged = TRUE]
    /\ challengedAt' = [challengedAt EXCEPT ![b] = seconds]
    /\ UNCHANGED <<optimisticHas, seconds, paidAt>>

\* Deviation: the payment may be made in the last second of the period
FinalizeEarly(b) ==
    /\ pending[b].proposedAt # -1
    /\ ~(pending[b].challenged \/ pending[b].finalized)
    /\ seconds >= pending[b].proposedAt + Period - 1
    /\ optimisticHas >= ProposedBurns[b]
    /\ optimisticHas' = optimisticHas - ProposedBurns[b]
    /\ pending' = [pending EXCEPT ![b].finalized = TRUE]
    /\ paidAt' = [paidAt EXCEPT ![b] = seconds]
    /\ UNCHANGED <<seconds, challengedAt>>

Finalize(b) ==
    /\ pending[b].proposedAt # -1
    /\ ~(pending[b].challenged \/ pending[b].finalized)
    /\ seconds >= pending[b].proposedAt + Period
    /\ optimisticHas >= ProposedBurns[b]
    /\ optimisticHas' = optimisticHas - ProposedBurns[b]
    /\ pending' = [pending EXCEPT ![b].finalized = TRUE]
    /\ paidAt' = [paidAt EXCEPT ![b] = seconds]
    /\ UNCHANGED <<seconds, challengedAt>>

OptimisticLock ==
    /\ optimisticHas < FirstDeposit
    /\ optimisticHas' = optimisticHas + 1
    /\ UNCHANGED <<pending, seconds, paidAt, challengedAt>>

Second ==
    /\ seconds < MaxSeconds
    /\ seconds' = seconds + 1
    /\ UNCHANGED <<optimisticHas, pending, paidAt, challengedAt>>

OptimisticNext ==
    /\ \/ Second \/ OptimisticLock
       \/ \E b \in DOMAIN ProposedBurns : Propose(b) \/ Challenge(b) \/ Finalize(b)
    /\ UNCHANGED <<relayVars, multiVars>>

FirstNext == RelayNext \/ MultiNext \/ OptimisticNext

FirstSpec == FirstInit /\ [][FirstNext]_firstVars

-----------------------------------------------------------------------------
\* Whoever watches has the whole period: whatever was paid could be challenged for
\* that long, and a challenge and a payment exclude each other in any order.
ChallengeVoids ==
    \A b \in DOMAIN ProposedBurns :
        paidAt[b] # -1 => /\ challengedAt[b] = -1
                          /\ paidAt[b] - pending[b].proposedAt >= Period

\* The USDC bridge can pay the mirrored USDC of L1 and every burn it has not paid
\* yet: whatever receipts come too late, confirmations fail and processes crash,
\* the retries after them never pay a burn twice.
UsdcBacked == bridgeHas["USDC"] >= UsdcMirror + UsdcOwed

\* What the bridge of signers paid was burned on L1, in that amount, and is paid
\* once, as long as the traitors are fewer than its threshold.
MultiPaidWasBurned ==
    /\ \A p \in multiPaid : p.burn \in multiBurned /\ p.amount = MultiBurns[p.burn]
    /\ \A p, q \in multiPaid : p.burn = q.burn => p = q

=============================================================================
