----------------------------- MODULE UsdmBridge -----------------------------
(***************************************************************************)
(* The USDm half of export_relayer.py, between the lock bridge of an EVM   *)
(* chain (USDmLockBridge.sol) and the mirror of USDm on L1: a lock is      *)
(* credited on L1 once it is confirmed, a burn on L1 releases what is      *)
(* locked.  The relayer may crash at any point and restart from its file.  *)
(*                                                                         *)
(* As in ExportBridge the relayer's steps are its calls to the chains:     *)
(* between two of them both chains move, calls fail, answers come too      *)
(* late, the L1 node restarts without its mempool, and the EVM chain       *)
(* replaces its last blocks.  The other half of the relayer's loop, which  *)
(* signs for the same treasury, is OtherCredit of TreasuryMints here.      *)
(***************************************************************************)
EXTENDS SignerQuorum, TreasuryMints, Functions, FiniteSetsExt, SequencesExt

CONSTANTS
    UsdmLocks, LockAmount,      \* calls of lock(), and the USDm they lock
    UsdmBurns, BurnAmount,      \* BRIDGE_BURNs of USDm, and what they burn
    Keys, Needed,               \* SIGNER_PKS in their order, THRESHOLD
    LockConfirms, ResumeBuffer, \* EVM_CONFIRMS, EVM_REORG_BUFFER
    NoUsdmBurn, NoUsdmCursor,
    MaxBlock                    \* bound: EVM blocks

ASSUME UsdmBridgeAssumption ==
    /\ LockAmount \in [UsdmLocks -> Nat \ {0}] /\ BurnAmount \in [UsdmBurns -> Nat \ {0}]
    /\ Keys \in Seq(Nat) /\ Needed \in 1..Len(Keys)
    /\ LockConfirms \in Nat \ {0} /\ ResumeBuffer \in Nat
    /\ NoUsdmBurn \notin UsdmBurns /\ NoUsdmCursor \notin Nat
    /\ MaxBlock \in Nat \ {0} /\ UsdmLocks \subseteq AllLocks

VARIABLES
    \* L1, besides the mints: bridge_burns with evm_unlocked
    burnedUsdm, unlockedUsdm,
    \* EVM: the latest block, the blocks of locks and releases (0 for none), the
    \* submitter's transaction that is not mined, with its signatures
    block, lockedAt, releasedAt, unlockTx,
    \* Relayer: usdm_last_block, the one in its file, the sets it keeps in
    \* memory, and where it is in its loop
    usdmCursor, cursorSaved, handledUsdmBurns, handledLocks, usdmJob

usdmL1Vars == <<mintVars, burnedUsdm, unlockedUsdm>>
usdmEvmVars == <<block, lockedAt, releasedAt, unlockTx>>
usdmRelayerVars == <<usdmCursor, cursorSaved, handledUsdmBurns, handledLocks, usdmJob>>
usdmVars == <<usdmL1Vars, usdmEvmVars, usdmRelayerVars>>

NoTx == [burn |-> NoUsdmBurn, sigs |-> <<>>]
UsdmIdle == [at |-> "idle"]

UsdmInit ==
    /\ MintsInit
    /\ burnedUsdm = {} /\ unlockedUsdm = {}
    /\ block = 1 /\ unlockTx = NoTx
    /\ lockedAt = [l \in UsdmLocks |-> 0] /\ releasedAt = [b \in UsdmBurns |-> 0]
    /\ usdmCursor = 1 /\ cursorSaved = NoUsdmCursor
    /\ handledUsdmBurns = {} /\ handledLocks = {} /\ usdmJob = UsdmIdle

Total(amount, S) == SumFunctionOnSet(amount, S)

\* The mirror on L1, the escrow on the EVM chain, and the burns it still owes
Mirror == Total(LockAmount, creditedLocks \cap UsdmLocks) - Total(BurnAmount, burnedUsdm)
Escrow == Total(LockAmount, {l \in UsdmLocks : lockedAt[l] # 0})
            - Total(BurnAmount, {b \in UsdmBurns : releasedAt[b] # 0})
Owed == Total(BurnAmount, {b \in burnedUsdm : releasedAt[b] = 0})

-----------------------------------------------------------------------------
(* L1                                                                       *)

BurnUsdm(b) ==
    /\ b \notin burnedUsdm
    /\ Mirror >= BurnAmount[b]
    /\ burnedUsdm' = burnedUsdm \cup {b}
    /\ UNCHANGED <<unlockedUsdm, mintVars, usdmEvmVars, usdmRelayerVars>>

MintsGoOn ==
    /\ L1Mints
    /\ UNCHANGED <<burnedUsdm, unlockedUsdm, usdmEvmVars, usdmRelayerVars>>

-----------------------------------------------------------------------------
(* The EVM chain.  What happens is in block `block`.                        *)

MineBlock ==
    /\ block < MaxBlock
    /\ block' = block + 1
    /\ UNCHANGED <<lockedAt, releasedAt, unlockTx, usdmL1Vars, usdmRelayerVars>>

LockUsdm(l) ==
    /\ lockedAt[l] = 0
    /\ lockedAt' = [lockedAt EXCEPT ![l] = block]
    /\ UNCHANGED <<block, releasedAt, unlockTx, usdmL1Vars, usdmRelayerVars>>

UnlockMined ==
    LET b == unlockTx.burn
    IN  /\ b # NoUsdmBurn
        /\ releasedAt[b] = 0
        /\ Accepts(Committee, Threshold, unlockTx.sigs)
        /\ Escrow >= BurnAmount[b]
        /\ releasedAt' = [releasedAt EXCEPT ![b] = block]
        /\ unlockTx' = NoTx
        /\ UNCHANGED <<block, lockedAt, usdmL1Vars, usdmRelayerVars>>

\* AlreadyUnlocked, IsPaused, RateLimited, TransferFailed; or never mined
UnlockReverts ==
    /\ unlockTx # NoTx
    /\ unlockTx' = NoTx
    /\ UNCHANGED <<block, lockedAt, releasedAt, usdmL1Vars, usdmRelayerVars>>

\* The last d blocks are replaced by as many others, without what was in them; a
\* lock that goes may leave a release without cover, which then goes with it.
ReplaceBlocks(d) ==
    LET kept(at) == [x \in DOMAIN at |-> IF at[x] > block - d THEN 0 ELSE at[x]]
    IN  /\ d <= block
        /\ lockedAt' = kept(lockedAt) /\ releasedAt' = kept(releasedAt)
        /\ UNCHANGED <<block, unlockTx, usdmL1Vars, usdmRelayerVars>>

-----------------------------------------------------------------------------
(* The relayer: poll_l1_usdm_burns.                                         *)

\* GET /bridge/burns?only_pending=1
PendingUsdmBurns == burnedUsdm \ unlockedUsdm

PollUsdmBurns ==
    /\ usdmJob = UsdmIdle
    /\ usdmJob' = [at |-> "burns", todo |-> PendingUsdmBurns \ handledUsdmBurns]
    /\ UNCHANGED <<usdmCursor, cursorSaved, handledUsdmBurns, handledLocks, usdmL1Vars,
                   usdmEvmVars>>

\* POST /bridge/burn-confirmed, on one node and outside of any block
BurnConfirmed(b) == unlockedUsdm' = unlockedUsdm \cup {b}

\* _confirm_usdm_burn: the POST may fail, and is not repeated in this process
ConfirmUsdmBurn(b) ==
    /\ BurnConfirmed(b) \/ UNCHANGED unlockedUsdm
    /\ handledUsdmBurns' = handledUsdmBurns \cup {b}

AlreadyReleased(b) ==
    /\ usdmJob.at = "burns" /\ b \in usdmJob.todo
    /\ releasedAt[b] # 0
    /\ ConfirmUsdmBurn(b)
    /\ usdmJob' = [at |-> "burns", todo |-> usdmJob.todo \ {b}]
    /\ UNCHANGED <<usdmCursor, cursorSaved, handledLocks, burnedUsdm, mintVars, usdmEvmVars>>

\* Deviation: the signatures stay in the order of SIGNER_PKS
UnsortedSigs == SubSeq(Keys, 1, Needed)

\* The first THRESHOLD keys sign, since the burn they are shown is the one that
\* L1 has; order_sigs sorts the signatures by their signers' addresses.
OrderedSigs == SetToSortSeq(ToSet(SubSeq(Keys, 1, Needed)), <)

SendUnlock(b) ==
    /\ usdmJob.at = "burns" /\ b \in usdmJob.todo
    /\ releasedAt[b] = 0
    /\ unlockTx' = [burn |-> b, sigs |-> OrderedSigs]
    /\ usdmJob' = [at |-> "receipt", todo |-> usdmJob.todo \ {b}, burn |-> b]
    /\ UNCHANGED <<usdmCursor, cursorSaved, handledUsdmBurns, handledLocks, usdmL1Vars,
                   block, lockedAt, releasedAt>>

\* The EVM node refuses the transaction, or its estimate says it will revert
UnlockRefused(b) ==
    /\ usdmJob.at = "burns" /\ b \in usdmJob.todo
    /\ releasedAt[b] = 0
    /\ usdmJob' = [at |-> "burns", todo |-> usdmJob.todo \ {b}]
    /\ UNCHANGED <<usdmCursor, cursorSaved, handledUsdmBurns, handledLocks, usdmL1Vars,
                   usdmEvmVars>>

UnlockReceipt ==
    /\ usdmJob.at = "receipt"
    /\ releasedAt[usdmJob.burn] # 0
    /\ ConfirmUsdmBurn(usdmJob.burn)
    /\ usdmJob' = [at |-> "burns", todo |-> usdmJob.todo]
    /\ UNCHANGED <<usdmCursor, cursorSaved, handledLocks, burnedUsdm, mintVars, usdmEvmVars>>

\* The receipt says reverted, or none came in 60 seconds
NoUnlockReceipt ==
    /\ usdmJob.at = "receipt"
    /\ usdmJob' = [at |-> "burns", todo |-> usdmJob.todo]
    /\ UNCHANGED <<usdmCursor, cursorSaved, handledUsdmBurns, handledLocks, usdmL1Vars,
                   usdmEvmVars>>

-----------------------------------------------------------------------------
(* The relayer: poll_evm_locks.                                             *)

LocksIn(first, last) == {l \in UsdmLocks : lockedAt[l] # 0 /\ lockedAt[l] \in first..last}

\* Deviation: blocks count as safe when they are mined
ScanLocksToHead ==
    /\ usdmJob.at = "burns" /\ usdmJob.todo = {}
    /\ usdmJob' = IF block < usdmCursor THEN UsdmIdle
                  ELSE [at |-> "locks", todo |-> LocksIn(usdmCursor, block) \ handledLocks,
                        safe |-> block]
    /\ UNCHANGED <<usdmCursor, cursorSaved, handledUsdmBurns, handledLocks, usdmL1Vars,
                   usdmEvmVars>>

ScanLocks ==
    LET safe == block - LockConfirms
    IN  /\ usdmJob.at = "burns" /\ usdmJob.todo = {}
        /\ usdmJob' = IF safe < usdmCursor THEN UsdmIdle
                      ELSE [at |-> "locks", todo |-> LocksIn(usdmCursor, safe) \ handledLocks,
                            safe |-> safe]
        /\ UNCHANGED <<usdmCursor, cursorSaved, handledUsdmBurns, handledLocks, usdmL1Vars,
                       usdmEvmVars>>

CreditLock(l) ==
    /\ usdmJob.at = "locks" /\ l \in usdmJob.todo
    /\ QueueCredit(l)
    /\ usdmJob' = [usdmJob EXCEPT !.todo = @ \ {l}]
    /\ handledLocks' = handledLocks \cup {l}
    /\ UNCHANGED <<usdmCursor, cursorSaved, handledUsdmBurns, burnedUsdm, unlockedUsdm,
                   usdmEvmVars>>

\* An exception, before or after the node has queued the transaction
CreditLockFails(l) ==
    /\ usdmJob.at = "locks" /\ l \in usdmJob.todo
    /\ QueueCredit(l) \/ UNCHANGED mintVars
    /\ usdmJob' = [usdmJob EXCEPT !.todo = @ \ {l}]
    /\ UNCHANGED <<usdmCursor, cursorSaved, handledUsdmBurns, handledLocks, burnedUsdm,
                   unlockedUsdm, usdmEvmVars>>

\* _save_state: written beside and renamed, so the file holds the old cursor or
\* the new one; a failure is logged and no more
SaveState(next) == cursorSaved' = next

\* The cursor moves on, whatever became of the locks
AdvanceUsdmCursor ==
    /\ usdmJob.at = "locks" /\ usdmJob.todo = {}
    /\ usdmCursor' = usdmJob.safe + 1
    /\ SaveState(usdmJob.safe + 1) \/ UNCHANGED cursorSaved
    /\ usdmJob' = UsdmIdle
    /\ UNCHANGED <<handledUsdmBurns, handledLocks, usdmL1Vars, usdmEvmVars>>

\* A call outside of the try blocks raises: the iteration of run() ends
UsdmPollFails ==
    /\ usdmJob.at = "burns"
    /\ usdmJob' = UsdmIdle
    /\ UNCHANGED <<usdmCursor, cursorSaved, handledUsdmBurns, handledLocks, usdmL1Vars,
                   usdmEvmVars>>

\* A crash, and the start of the next process
UsdmCrash ==
    /\ usdmCursor' = IF cursorSaved = NoUsdmCursor THEN block
                     ELSE Max({0, cursorSaved - ResumeBuffer})
    /\ handledUsdmBurns' = unlockedUsdm /\ handledLocks' = {}
    /\ usdmJob' = UsdmIdle
    /\ UNCHANGED <<cursorSaved, usdmL1Vars, usdmEvmVars>>

-----------------------------------------------------------------------------
UsdmChains ==
    \/ MintsGoOn \/ MineBlock \/ UnlockMined \/ UnlockReverts
    \/ \E b \in UsdmBurns : BurnUsdm(b)
    \/ \E l \in UsdmLocks : LockUsdm(l)
    \/ \E d \in 1..LockConfirms : ReplaceBlocks(d)

UsdmRelayer ==
    \/ PollUsdmBurns \/ UnlockReceipt \/ NoUnlockReceipt \/ ScanLocks \/ AdvanceUsdmCursor
    \/ \E b \in UsdmBurns : AlreadyReleased(b) \/ SendUnlock(b)
    \/ \E l \in UsdmLocks : CreditLock(l)

UsdmCallFails ==
    \/ UsdmPollFails
    \/ \E b \in UsdmBurns : UnlockRefused(b)
    \/ \E l \in UsdmLocks : CreditLockFails(l)

UsdmNext == UsdmChains \/ UsdmRelayer \/ UsdmCallFails \/ UsdmCrash

UsdmSpec == UsdmInit /\ [][UsdmNext]_usdmVars

\* The loop goes on and EVM blocks are mined; and what is tried ever again
\* succeeds some time: sending the release of a burn, and the contract's taking it.
UsdmFairness ==
    /\ WF_usdmVars(UsdmRelayer)
    /\ \A b \in UsdmBurns : SF_usdmVars(SendUnlock(b))
                              /\ SF_usdmVars(unlockTx.burn = b /\ UnlockMined)

UsdmFairSpec == UsdmSpec /\ UsdmFairness

-----------------------------------------------------------------------------
\* The escrow covers the mirror on L1 and the burns that are not released yet,
\* through crashes, lost answers, late releases and replaced blocks.
MirrorBacked == Escrow >= Mirror + Owed

\* A burn that the relayer has not ticked off is released in the end: the
\* signatures it sends are the ones the contract takes, and no crash, failed call,
\* late receipt, revert or replaced block makes it forget one.
BurnsReleased ==
    \A b \in UsdmBurns :
        b \in burnedUsdm \ (unlockedUsdm \cup handledUsdmBurns) ~> releasedAt[b] # 0

=============================================================================
