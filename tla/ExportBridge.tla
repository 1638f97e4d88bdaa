---------------------------- MODULE ExportBridge ----------------------------
(***************************************************************************)
(* The export bridge: MORM burned on L1 is minted as wMORM on an EVM chain *)
(* (MORMExportBridge.sol, mintFromBurn), wMORM that leaves through exit()  *)
(* is credited on L1 again, and the relayer between them                   *)
(* (export_relayer.py) may crash at any point and restart from its file.   *)
(*                                                                         *)
(* The relayer's steps are its calls to the two chains: between two of     *)
(* them both chains move, calls fail, answers come too late, the L1 node   *)
(* restarts without its mempool, and the EVM chain replaces its last       *)
(* blocks.  The quorum of signers is abstracted: they sign what the L1     *)
(* says.  The circuit breaker of the contract is abstracted to mints that  *)
(* revert.  The events of one poll are taken in any order.                 *)
(***************************************************************************)
EXTENDS Integers, Sequences, FiniteSetsExt, Functions

CONSTANTS
    Burns, Amount,      \* BRIDGE_BURNs, and the MORM they burn
    Exits, Wei,         \* calls of exit(), and what they burn of wMORM
    Scale,              \* L1_MORM_SCALE, wMORM units in a MORM
    Confirms,           \* EVM_CONFIRMS
    ReorgBuffer,        \* EVM_REORG_BUFFER
    Reserve,            \* what the treasury owns besides the burned MORM
    Circulating,        \* what the users of L1 own before the bridge opens
    NoBurn, NoCursor,
    MaxHead, MaxNonce   \* bounds: EVM blocks, treasury transactions

ASSUME BridgeAssumption ==
    /\ Amount \in [Burns -> Nat \ {0}] /\ Wei \in [Exits -> Nat \ {0}]
    /\ Scale \in Nat \ {0} /\ Confirms \in Nat \ {0} /\ ReorgBuffer \in Nat
    /\ Reserve \in Nat /\ Circulating \in Nat
    /\ NoBurn \notin Burns /\ NoCursor \notin Nat
    /\ MaxHead \in Nat \ {0} /\ MaxNonce \in Nat

VARIABLES
    \* L1: the treasury's nonce and its net income from the bridge,
    \* bridge_burns with evm_unlocked, bridge_mints, the mempool, _seen_txs
    nonce, income, burned, confirmed, credited, pool, seen,
    \* EVM: the latest block, the blocks of mints and exits (0 for none),
    \* wMORM in circulation, the submitter's transaction that is not mined
    head, mintedAt, exitAt, supply, sent,
    \* Relayer: its cursor, the cursor in its file, the sets it keeps in
    \* memory, and where it is in the loop of run()
    lastBlock, saved, handledBurns, handledExits, job

l1Vars == <<nonce, income, burned, confirmed, credited, pool, seen>>
evmVars == <<head, mintedAt, exitAt, supply, sent>>
relayerVars == <<lastBlock, saved, handledBurns, handledExits, job>>
vars == <<l1Vars, evmVars, relayerVars>>

Idle == [at |-> "idle"]

Init ==
    /\ nonce = 0 /\ income = 0
    /\ burned = {} /\ confirmed = {} /\ credited = {} /\ pool = <<>> /\ seen = {}
    /\ head = 1 /\ supply = 0 /\ sent = NoBurn
    /\ mintedAt = [b \in Burns |-> 0] /\ exitAt = [e \in Exits |-> 0]
    /\ lastBlock = 1 /\ saved = NoCursor
    /\ handledBurns = {} /\ handledExits = {} /\ job = Idle

\* poll_evm_exits credits whole MORM: the remainder is lost
Whole(e) == Wei[e] \div Scale

-----------------------------------------------------------------------------
(* L1, in the part of MormLedger and MormMempool the bridge touches.        *)

Burn(b) ==
    /\ b \notin burned
    /\ Circulating - income >= Amount[b]
    /\ burned' = burned \cup {b}
    /\ income' = income + Amount[b]
    /\ UNCHANGED <<nonce, confirmed, credited, pool, seen, evmVars, relayerVars>>

\* Deviation: evm_lock_id is not looked up
SealMintAgain ==
    LET tx == Head(pool)
    IN  /\ pool # <<>>
        /\ pool' = Tail(pool)
        /\ IF tx.nonce = nonce /\ Reserve + income >= Whole(tx.exit)
           THEN /\ nonce' = nonce + 1
                /\ income' = income - Whole(tx.exit)
                /\ credited' = credited \cup {tx.exit}
           ELSE UNCHANGED <<nonce, income, credited>>
        /\ UNCHANGED <<burned, confirmed, seen, evmVars, relayerVars>>

\* The producer takes the next BRIDGE_MINT, and drops it if it is refused
SealMint ==
    LET tx == Head(pool)
    IN  /\ pool # <<>>
        /\ pool' = Tail(pool)
        /\ IF /\ tx.nonce = nonce
              /\ tx.exit \notin credited
              /\ Reserve + income >= Whole(tx.exit)
           THEN /\ nonce' = nonce + 1
                /\ income' = income - Whole(tx.exit)
                /\ credited' = credited \cup {tx.exit}
           ELSE UNCHANGED <<nonce, income, credited>>
        /\ UNCHANGED <<burned, confirmed, seen, evmVars, relayerVars>>

\* The treasury's key signs for other services too
OtherTreasuryTx ==
    /\ nonce < MaxNonce
    /\ nonce' = nonce + 1
    /\ UNCHANGED <<income, burned, confirmed, credited, pool, seen, evmVars, relayerVars>>

NodeRestart ==
    /\ pool' = <<>> /\ seen' = {}
    /\ UNCHANGED <<nonce, income, burned, confirmed, credited, evmVars, relayerVars>>

-----------------------------------------------------------------------------
(* The EVM chain.  An event is in block `head` when it happens.             *)

NewBlock ==
    /\ head < MaxHead
    /\ head' = head + 1
    /\ UNCHANGED <<mintedAt, exitAt, supply, sent, l1Vars, relayerVars>>

MintFromBurn ==
    /\ sent # NoBurn
    /\ mintedAt[sent] = 0
    /\ mintedAt' = [mintedAt EXCEPT ![sent] = head]
    /\ supply' = supply + Scale * Amount[sent]
    /\ sent' = NoBurn
    /\ UNCHANGED <<head, exitAt, l1Vars, relayerVars>>

\* AlreadyMinted, IsPaused, RateLimited, CapExceeded; or never mined
MintReverts ==
    /\ sent # NoBurn
    /\ sent' = NoBurn
    /\ UNCHANGED <<head, mintedAt, exitAt, supply, l1Vars, relayerVars>>

Exit(e) ==
    /\ exitAt[e] = 0
    /\ supply >= Wei[e]
    /\ exitAt' = [exitAt EXCEPT ![e] = head]
    /\ supply' = supply - Wei[e]
    /\ UNCHANGED <<head, mintedAt, sent, l1Vars, relayerVars>>

\* The last d blocks are replaced by as many others, without what was in them
Reorg(d) ==
    LET kept(at) == [x \in DOMAIN at |-> IF at[x] > head - d THEN 0 ELSE at[x]]
        unminted == {b \in Burns : mintedAt[b] > head - d}
        unexited == {e \in Exits : exitAt[e] > head - d}
    IN  /\ d <= head
        /\ mintedAt' = kept(mintedAt) /\ exitAt' = kept(exitAt)
        /\ supply' = supply - Scale * SumFunctionOnSet(Amount, unminted)
                            + SumFunctionOnSet(Wei, unexited)
        /\ UNCHANGED <<head, sent, l1Vars, relayerVars>>

-----------------------------------------------------------------------------
(* The relayer, forward: poll_l1_burns.                                     *)

PollBurns ==
    /\ job = Idle
    /\ job' = [at |-> "burns", todo |-> burned \ (confirmed \cup handledBurns)]
    /\ UNCHANGED <<lastBlock, saved, handledBurns, handledExits, l1Vars, evmVars>>

GoOnWithBurns(todo) == job' = [at |-> "burns", todo |-> todo]

\* _confirm_burn: the POST may fail, and is not repeated in this process
ConfirmBurn(b) ==
    /\ confirmed' \in {confirmed, confirmed \cup {b}}
    /\ handledBurns' = handledBurns \cup {b}

AlreadyMinted(b) ==
    /\ job.at = "burns" /\ b \in job.todo
    /\ mintedAt[b] # 0
    /\ ConfirmBurn(b)
    /\ GoOnWithBurns(job.todo \ {b})
    /\ UNCHANGED <<lastBlock, saved, handledExits, nonce, income, burned, credited,
                   pool, seen, evmVars>>

\* The submitter's nonce is the count of its mined transactions, so one that is
\* not mined is replaced
SendMint(b) ==
    /\ job.at = "burns" /\ b \in job.todo
    /\ mintedAt[b] = 0
    /\ sent' = b
    /\ job' = [at |-> "receipt", todo |-> job.todo \ {b}, burn |-> b]
    /\ UNCHANGED <<lastBlock, saved, handledBurns, handledExits, l1Vars,
                   head, mintedAt, exitAt, supply>>

\* The EVM node refuses the transaction, for instance as an underpriced
\* replacement
SendFails(b) ==
    /\ job.at = "burns" /\ b \in job.todo
    /\ mintedAt[b] = 0
    /\ GoOnWithBurns(job.todo \ {b})
    /\ UNCHANGED <<lastBlock, saved, handledBurns, handledExits, l1Vars, evmVars>>

Receipt ==
    /\ job.at = "receipt"
    /\ mintedAt[job.burn] # 0
    /\ ConfirmBurn(job.burn)
    /\ GoOnWithBurns(job.todo)
    /\ UNCHANGED <<lastBlock, saved, handledExits, nonce, income, burned, credited,
                   pool, seen, evmVars>>

\* Deviation: a burn whose receipt did not come counts as handled
NoReceiptGivesUp ==
    /\ job.at = "receipt"
    /\ GoOnWithBurns(job.todo)
    /\ handledBurns' = handledBurns \cup {job.burn}
    /\ UNCHANGED <<lastBlock, saved, handledExits, l1Vars, evmVars>>

\* The receipt says reverted, or none came in 60 seconds
NoReceipt ==
    /\ job.at = "receipt"
    /\ GoOnWithBurns(job.todo)
    /\ UNCHANGED <<lastBlock, saved, handledBurns, handledExits, l1Vars, evmVars>>

-----------------------------------------------------------------------------
(* The relayer, reverse: poll_evm_exits.                                    *)

\* Deviation: blocks count as safe when they are mined
ScanToHead ==
    LET found == {e \in Exits : exitAt[e] # 0 /\ exitAt[e] \in lastBlock..head}
    IN  /\ job.at = "burns" /\ job.todo = {}
        /\ job' = IF head < lastBlock THEN Idle
                  ELSE [at |-> "exits", todo |-> found \ handledExits, safe |-> head]
        /\ UNCHANGED <<lastBlock, saved, handledBurns, handledExits, l1Vars, evmVars>>

ScanExits ==
    LET safe == head - Confirms
        found == {e \in Exits : exitAt[e] # 0 /\ exitAt[e] \in lastBlock..safe}
    IN  /\ job.at = "burns" /\ job.todo = {}
        /\ job' = IF safe < lastBlock THEN Idle
                  ELSE [at |-> "exits", todo |-> found \ handledExits, safe |-> safe]
        /\ UNCHANGED <<lastBlock, saved, handledBurns, handledExits, l1Vars, evmVars>>

\* Less than one MORM: only noted in the dust file
ExitIsDust(e) ==
    /\ job.at = "exits" /\ e \in job.todo
    /\ Whole(e) = 0
    /\ job' = [job EXCEPT !.todo = @ \ {e}]
    /\ handledExits' = handledExits \cup {e}
    /\ UNCHANGED <<lastBlock, saved, handledBurns, l1Vars, evmVars>>

\* _credit_l1 signs for the nonce that the tables have; submit_tx says ok to a
\* transaction it has seen before without queueing it
Queue(tx) ==
    /\ seen' = seen \cup {tx}
    /\ pool' = IF tx \in seen THEN pool ELSE Append(pool, tx)

CreditL1(e) ==
    /\ job.at = "exits" /\ e \in job.todo
    /\ Whole(e) > 0
    /\ Queue([exit |-> e, nonce |-> nonce])
    /\ job' = [job EXCEPT !.todo = @ \ {e}]
    /\ handledExits' = handledExits \cup {e}
    /\ UNCHANGED <<lastBlock, saved, handledBurns, nonce, income, burned, confirmed,
                   credited, evmVars>>

\* An exception, before or after the node has queued the transaction
CreditFails(e) ==
    /\ job.at = "exits" /\ e \in job.todo
    /\ Whole(e) > 0
    /\ \/ Queue([exit |-> e, nonce |-> nonce])
       \/ UNCHANGED <<pool, seen>>
    /\ job' = [job EXCEPT !.todo = @ \ {e}]
    /\ UNCHANGED <<lastBlock, saved, handledBurns, handledExits, nonce, income, burned,
                   confirmed, credited, evmVars>>

\* The cursor moves on, whatever became of the exits; _save_state may fail
AdvanceCursor ==
    /\ job.at = "exits" /\ job.todo = {}
    /\ lastBlock' = job.safe + 1
    /\ saved' \in {saved, job.safe + 1}
    /\ job' = Idle
    /\ UNCHANGED <<handledBurns, handledExits, l1Vars, evmVars>>

\* A call outside of the try blocks raises: the iteration of run() ends
PollFails ==
    /\ job.at = "burns"
    /\ job' = Idle
    /\ UNCHANGED <<lastBlock, saved, handledBurns, handledExits, l1Vars, evmVars>>

\* A crash, and the start of the next process
Crash ==
    /\ lastBlock' = IF saved = NoCursor THEN head ELSE Max({0, saved - ReorgBuffer})
    /\ handledBurns' = confirmed /\ handledExits' = {}
    /\ job' = Idle
    /\ UNCHANGED <<saved, l1Vars, evmVars>>

-----------------------------------------------------------------------------
L1 == OtherTreasuryTx \/ NodeRestart \/ SealMint \/ \E b \in Burns : Burn(b)

Evm == NewBlock \/ MintFromBurn \/ MintReverts
         \/ (\E e \in Exits : Exit(e)) \/ (\E d \in 1..Confirms : Reorg(d))

Forward == PollBurns \/ Receipt \/ NoReceipt
             \/ \E b \in Burns : AlreadyMinted(b) \/ SendMint(b)

Backward == ScanExits \/ AdvanceCursor \/ \E e \in Exits : ExitIsDust(e) \/ CreditL1(e)

Relayer == Forward \/ Backward

CallFails == PollFails \/ (\E b \in Burns : SendFails(b)) \/ (\E e \in Exits : CreditFails(e))

Next == L1 \/ Evm \/ Relayer \/ CallFails \/ Crash

Spec == Init /\ [][Next]_vars

\* The loop of run() goes on, the L1 producer seals, EVM blocks are mined; and
\* what is tried ever again succeeds some time: sending the mint of a burn, and
\* the contract's taking it.
Fairness ==
    /\ WF_vars(Relayer) /\ WF_vars(SealMint) /\ WF_vars(NewBlock)
    /\ \A b \in Burns : SF_vars(SendMint(b)) /\ SF_vars(sent = b /\ MintFromBurn)

FairSpec == Spec /\ Fairness

\* Nothing fails, nothing is replaced, and nobody else uses the treasury's key
SmoothNext ==
    \/ SealMint \/ NewBlock \/ MintFromBurn \/ Relayer
    \/ \E b \in Burns : Burn(b)
    \/ \E e \in Exits : Exit(e)
SmoothSpec == Init /\ [][SmoothNext]_vars /\ Fairness

-----------------------------------------------------------------------------
MintTx == [exit : Exits, nonce : Nat]

\* Every wMORM is backed: the treasury holds at least as much MORM from burns as
\* there is wMORM, through crashes, lost answers, late mints and replaced blocks.
ExportBacked == Scale * income >= supply

\* An exit is credited, or about to be, only for wMORM that stays burned: the
\* confirmation depth outlasts any replacement of the EVM chain's last blocks.
CreditedFinal ==
    /\ \A e \in credited : exitAt[e] # 0
    /\ \A i \in DOMAIN pool : exitAt[pool[i].exit] # 0

\* A burn that the relayer has not ticked off is minted in the end: no crash,
\* failed call, late receipt, revert or replaced block makes it forget one.
Pending(b) == b \in burned \ (confirmed \cup handledBurns)
BurnsMinted == \A b \in Burns : Pending(b) ~> mintedAt[b] # 0

\* export_relayer.py:12-13, the relayer waits for the confirmations of an Exit,
\* "then submit L1 BRIDGE_MINT(token=MORM) crediting the mormAddress": an exit of
\* whole MORM is credited in the end, at least if nothing fails.
ExitsCredited ==
    \A e \in Exits :
        exitAt[e] \in 1..(MaxHead - Confirms) /\ Whole(e) > 0 ~> e \in credited

=============================================================================
