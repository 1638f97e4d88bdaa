------------------------- MODULE ExportBridgeProofs -------------------------
(***************************************************************************)
(* CreditedFinal for any number of burns and exits, any depth and any      *)
(* schedule.  By itself it is not inductive: an exit that is credited now  *)
(* could be of a block that the next Reorg replaces.  What is inductive is *)
(* that an exit is settled, with Confirms blocks above it, from the moment *)
(* the relayer's scan has found it.  ExportBacked for the same: the books  *)
(* of both chains are sums over what was burned, minted, exited and        *)
(* credited, and FinalInv says that what was credited stays exited.        *)
(***************************************************************************)
EXTENDS ExportBridge, SumTheorems

Settled(e) == exitAt[e] \in 1..(head - Confirms)

JobOK ==
    \/ job = Idle
    \/ job \in [at : {"burns"}, todo : SUBSET Burns]
    \/ job \in [at : {"receipt"}, todo : SUBSET Burns, burn : Burns]
    \/ job \in [at : {"exits"}, todo : SUBSET Exits, safe : Int]

CursorOK ==
    /\ lastBlock \in Int /\ saved \in Int \cup {NoCursor}
    /\ handledExits \subseteq Exits /\ burned \subseteq Burns

ChainOK == head \in Nat /\ exitAt \in [Exits -> Nat] /\ nonce \in Nat

PoolOK == pool \in Seq(MintTx)

FoundSettled == job.at = "exits" => \A e \in job.todo : Settled(e)
PoolSettled == \A i \in DOMAIN pool : Settled(pool[i].exit)
CreditedSettled == \A e \in credited : e \in Exits /\ Settled(e)

FinalInv ==
    /\ ChainOK /\ CursorOK /\ JobOK /\ PoolOK
    /\ FoundSettled /\ PoolSettled /\ CreditedSettled

(* The cursor a restarted relayer resumes from is a number.                 *)
LEMMA MaxIsInt == ASSUME NEW x \in Int PROVE Max({0, x}) \in Int
<1>1. CASE x <= 0
  <2>1. 0 \in {0, x} /\ \A y \in {0, x} : 0 >= y
    BY <1>1
  <2> QED BY <2>1 DEF Max
<1>2. CASE x > 0
  <2>1. x \in {0, x} /\ \A y \in {0, x} : x >= y
    BY <1>2
  <2> QED BY <2>1 DEF Max
<1> QED BY <1>1, <1>2

(* Initially nothing is found, queued or credited.                          *)
LEMMA FinalInit == ASSUME BridgeAssumption, Init PROVE FinalInv
BY DEF BridgeAssumption, Init, FinalInv, ChainOK, CursorOK, JobOK, PoolOK, FoundSettled,
       PoolSettled, CreditedSettled, Idle, MintTx

(* Queueing a credit for a settled exit keeps the mempool settled.          *)
LEMMA QueueSettled ==
    ASSUME FinalInv, NEW e \in Exits, Settled(e),
           Queue([exit |-> e, nonce |-> nonce]), UNCHANGED <<head, exitAt>>
    PROVE  PoolOK' /\ PoolSettled'
<1> DEFINE tx == [exit |-> e, nonce |-> nonce]
<1>1. tx \in MintTx /\ tx.exit = e
  BY DEF MintTx, FinalInv, ChainOK
<1>2. pool \in Seq(MintTx)
  BY DEF FinalInv, PoolOK
<1>3. CASE pool' = pool
  BY <1>3 DEF FinalInv, PoolOK, PoolSettled, Settled
<1>4. CASE pool' = Append(pool, tx)
  <2> HIDE DEF tx
  <2>1. pool' \in Seq(MintTx)
    BY <1>1, <1>2, <1>4
  <2>2. ASSUME NEW i \in DOMAIN pool'
        PROVE  exitAt[pool'[i].exit] \in 1..(head - Confirms)
    <3>1. CASE i \in DOMAIN pool
      <4>1. pool'[i] = pool[i]
        BY <1>1, <1>2, <1>4, <3>1
      <4> QED BY <3>1, <4>1 DEF FinalInv, PoolSettled, Settled
    <3>2. CASE i \notin DOMAIN pool
      <4>1. pool'[i] = tx
        BY <1>1, <1>2, <1>4, <2>2, <3>2
      <4> QED BY <1>1, <4>1 DEF Settled
    <3> QED BY <3>1, <3>2
  <2> QED BY <2>1, <2>2 DEF PoolOK, PoolSettled, Settled
<1> QED BY <1>3, <1>4 DEF Queue

(* What the steps that touch neither the mempool nor the found exits need.  *)
LEMMA UntouchedFinal ==
    ASSUME FinalInv, UNCHANGED <<head, exitAt, pool, credited>>
    PROVE  PoolOK' /\ PoolSettled' /\ CreditedSettled'
BY DEF FinalInv, PoolOK, PoolSettled, CreditedSettled, Settled

(* A step of the EVM chain that unsettles no exit.                          *)
LEMMA StillSettled ==
    ASSUME FinalInv, head' \in Nat, exitAt' \in [Exits -> Nat],
           \A e \in Exits : Settled(e) => Settled(e)',
           UNCHANGED <<l1Vars, relayerVars>>
    PROVE  FinalInv'
<1>1. ChainOK' /\ CursorOK' /\ JobOK' /\ PoolOK'
  BY DEF FinalInv, ChainOK, CursorOK, JobOK, PoolOK, l1Vars, relayerVars
<1>2. FoundSettled'
  <2>1. job.at = "exits" => job.todo \subseteq Exits
    BY DEF FinalInv, JobOK, Idle
  <2> QED BY <2>1 DEF FinalInv, FoundSettled, relayerVars
<1>3. PoolSettled'
  <2>1. ASSUME NEW i \in DOMAIN pool PROVE pool[i].exit \in Exits /\ Settled(pool[i].exit)
    <3>1. pool[i] \in MintTx
      BY DEF FinalInv, PoolOK
    <3> QED BY <3>1 DEF FinalInv, PoolSettled, MintTx
  <2> QED BY <2>1 DEF PoolSettled, l1Vars, Settled
<1>4. CreditedSettled'
  BY DEF FinalInv, CreditedSettled, l1Vars
<1> QED BY <1>1, <1>2, <1>3, <1>4 DEF FinalInv

(* Taking the next credit from the mempool.                                 *)
LEMMA SealFinal == ASSUME FinalInv, SealMint PROVE FinalInv'
<1>1. pool \in Seq(MintTx) /\ pool # <<>> /\ pool' = Tail(pool)
  BY DEF FinalInv, PoolOK, SealMint
<1>2. Head(pool) \in MintTx /\ Head(pool).exit \in Exits /\ Settled(Head(pool).exit)
  <2>1. Head(pool) \in MintTx /\ Head(pool) = pool[1] /\ 1 \in DOMAIN pool
    BY <1>1
  <2> QED BY <2>1 DEF FinalInv, PoolSettled, MintTx
<1>3. ChainOK' /\ CursorOK' /\ JobOK' /\ FoundSettled'
  BY DEF FinalInv, ChainOK, CursorOK, JobOK, FoundSettled, Settled, SealMint, evmVars,
         relayerVars
<1>4. PoolOK' /\ PoolSettled'
  <2>1. pool' \in Seq(MintTx)
    BY <1>1
  <2>2. ASSUME NEW i \in DOMAIN pool'
        PROVE  i + 1 \in DOMAIN pool /\ pool'[i] = pool[i + 1]
    BY <1>1
  <2>3. UNCHANGED <<head, exitAt>>
    BY DEF SealMint, evmVars
  <2>4. ASSUME NEW i \in DOMAIN pool'
        PROVE  exitAt[pool'[i].exit] \in 1..(head - Confirms)
    BY <2>2 DEF FinalInv, PoolSettled, Settled
  <2> QED BY <2>1, <2>3, <2>4 DEF PoolOK, PoolSettled, Settled
<1>5. CreditedSettled'
  <2>1. credited' \subseteq credited \cup {Head(pool).exit}
    BY DEF SealMint
  <2> QED BY <1>2, <2>1 DEF FinalInv, CreditedSettled, Settled, SealMint, evmVars
<1> QED BY <1>3, <1>4, <1>5 DEF FinalInv

(* A replacement of blocks never reaches below the confirmation depth.      *)
LEMMA ReorgFinal ==
    ASSUME BridgeAssumption, FinalInv, NEW d \in 1..Confirms, Reorg(d)
    PROVE  FinalInv'
<1>1. /\ head' = head /\ UNCHANGED <<l1Vars, relayerVars>>
      /\ exitAt' = [x \in DOMAIN exitAt |-> IF exitAt[x] > head - d THEN 0 ELSE exitAt[x]]
  BY DEF Reorg
<1>2. head \in Nat /\ exitAt \in [Exits -> Nat] /\ Confirms \in Nat
  BY DEF FinalInv, ChainOK, BridgeAssumption
<1>3. exitAt' \in [Exits -> Nat]
  BY <1>1, <1>2
<1>4. ASSUME NEW e \in Exits, Settled(e) PROVE Settled(e)'
  <2>1. ~(exitAt[e] > head - d)
    BY <1>2, <1>4 DEF Settled
  <2> QED BY <1>1, <1>2, <1>4, <2>1 DEF Settled
<1> QED BY <1>1, <1>2, <1>3, <1>4, StillSettled

(* Queueing the credit of an exit the scan has found.                       *)
LEMMA CreditFinal ==
    ASSUME FinalInv, NEW e \in Exits, job.at = "exits", e \in job.todo,
           Queue([exit |-> e, nonce |-> nonce]) \/ UNCHANGED <<pool, seen>>,
           job' = [job EXCEPT !.todo = @ \ {e}],
           handledExits' \in {handledExits, handledExits \cup {e}},
           UNCHANGED <<lastBlock, saved, nonce, burned, credited, evmVars>>
    PROVE  FinalInv'
<1>1. job \in [at : {"exits"}, todo : SUBSET Exits, safe : Int]
  BY DEF FinalInv, JobOK, Idle
<1>2. ChainOK' /\ CursorOK' /\ CreditedSettled'
  BY DEF FinalInv, ChainOK, CursorOK, CreditedSettled, Settled, evmVars
<1>3. JobOK' /\ FoundSettled'
  BY <1>1 DEF FinalInv, JobOK, FoundSettled, Settled, evmVars
<1>4. PoolOK' /\ PoolSettled'
  <2>1. Settled(e) /\ UNCHANGED <<head, exitAt>>
    BY DEF FinalInv, FoundSettled, evmVars
  <2>2. CASE UNCHANGED <<pool, seen>>
    BY <2>1, <2>2 DEF FinalInv, PoolOK, PoolSettled, Settled
  <2> QED BY <2>1, <2>2, QueueSettled
<1> QED BY <1>2, <1>3, <1>4 DEF FinalInv

-----------------------------------------------------------------------------
(* Every step keeps the invariant: L1's, the EVM chain's, the relayer's, and *)
(* those that fail.                                                          *)
LEMMA FinalL1 == ASSUME FinalInv, L1 PROVE FinalInv'
<1>1. CASE SealMint
  BY <1>1, SealFinal
<1>2. CASE OtherTreasuryTx
  BY <1>2, UntouchedFinal DEF OtherTreasuryTx, FinalInv, ChainOK, CursorOK, JobOK,
     FoundSettled, Settled, evmVars, relayerVars
<1>3. CASE NodeRestart
  BY <1>3 DEF NodeRestart, FinalInv, ChainOK, CursorOK, JobOK, PoolOK, FoundSettled,
     PoolSettled, CreditedSettled, Settled, evmVars, relayerVars
<1>4. CASE \E b \in Burns : Burn(b)
  BY <1>4, UntouchedFinal DEF Burn, FinalInv, ChainOK, CursorOK, JobOK,
     FoundSettled, Settled, evmVars, relayerVars
<1> QED BY <1>1, <1>2, <1>3, <1>4 DEF L1

LEMMA FinalEvm == ASSUME BridgeAssumption, FinalInv, Evm PROVE FinalInv'
<1>1. head \in Nat /\ exitAt \in [Exits -> Nat] /\ Confirms \in Nat \ {0}
  BY DEF FinalInv, ChainOK, BridgeAssumption
<1>2. CASE NewBlock
  BY <1>1, <1>2, StillSettled DEF NewBlock, Settled
<1>3. CASE MintFromBurn \/ MintReverts
  BY <1>1, <1>3, StillSettled DEF MintFromBurn, MintReverts, Settled
<1>4. CASE \E e \in Exits : Exit(e)
  <2>1. PICK e \in Exits : Exit(e)
    BY <1>4
  <2>2. head' = head /\ UNCHANGED <<l1Vars, relayerVars>>
    BY <2>1 DEF Exit
  <2>3. exitAt' = [exitAt EXCEPT ![e] = head] /\ exitAt[e] = 0
    BY <2>1 DEF Exit
  <2>4. \A x \in Exits : Settled(x) => Settled(x)'
    BY <1>1, <2>2, <2>3 DEF Settled
  <2>5. exitAt' \in [Exits -> Nat]
    BY <1>1, <2>3
  <2> QED BY <1>1, <2>2, <2>4, <2>5, StillSettled
<1>5. CASE \E d \in 1..Confirms : Reorg(d)
  BY <1>5, ReorgFinal
<1> QED BY <1>2, <1>3, <1>4, <1>5 DEF Evm

LEMMA FinalForward == ASSUME FinalInv, Forward \/ \E b \in Burns : SendFails(b) PROVE FinalInv'
<1>1. PoolOK' /\ PoolSettled' /\ CreditedSettled'
  BY UntouchedFinal DEF Forward, PollBurns, Receipt, NoReceipt, AlreadyMinted, SendMint,
     SendFails, l1Vars, evmVars
<1>2. ChainOK' /\ CursorOK'
  BY DEF FinalInv, ChainOK, CursorOK, Forward, PollBurns, Receipt, NoReceipt, AlreadyMinted,
     SendMint, SendFails, l1Vars, evmVars
<1>3. job'.at # "exits" /\ JobOK'
  <2>1. CASE PollBurns
    BY <2>1 DEF PollBurns, FinalInv, JobOK, CursorOK
  <2>2. CASE Receipt \/ NoReceipt
    <3>1. job \in [at : {"receipt"}, todo : SUBSET Burns, burn : Burns]
      BY <2>2 DEF Receipt, NoReceipt, FinalInv, JobOK, Idle
    <3>2. job' = [at |-> "burns", todo |-> job.todo]
      BY <2>2 DEF Receipt, NoReceipt, GoOnWithBurns
    <3> QED BY <3>1, <3>2 DEF JobOK
  <2>3. CASE \E b \in Burns : AlreadyMinted(b) \/ SendMint(b) \/ SendFails(b)
    <3>1. PICK b \in Burns : AlreadyMinted(b) \/ SendMint(b) \/ SendFails(b)
      BY <2>3
    <3>2. job \in [at : {"burns"}, todo : SUBSET Burns]
      BY <3>1 DEF AlreadyMinted, SendMint, SendFails, FinalInv, JobOK, Idle
    <3>3. \/ job' = [at |-> "burns", todo |-> job.todo \ {b}]
          \/ job' = [at |-> "receipt", todo |-> job.todo \ {b}, burn |-> b]
      BY <3>1 DEF AlreadyMinted, SendMint, SendFails, GoOnWithBurns
    <3> QED BY <3>2, <3>3 DEF JobOK
  <2> QED BY <2>1, <2>2, <2>3 DEF Forward
<1> QED BY <1>1, <1>2, <1>3 DEF FinalInv, FoundSettled

(* Scanning finds exits with Confirms blocks above them.                    *)
LEMMA FinalScan == ASSUME BridgeAssumption, FinalInv, ScanExits PROVE FinalInv'
<1>1. PoolOK' /\ PoolSettled' /\ CreditedSettled' /\ ChainOK' /\ CursorOK'
  BY UntouchedFinal DEF ScanExits, l1Vars, evmVars, FinalInv, ChainOK, CursorOK
<1>2. head \in Nat /\ exitAt \in [Exits -> Nat] /\ Confirms \in Nat /\ lastBlock \in Int
  BY DEF FinalInv, ChainOK, CursorOK, BridgeAssumption
<1>3. CASE job' = Idle
  BY <1>1, <1>3 DEF FinalInv, JobOK, FoundSettled, Idle
<1>4. CASE job' # Idle
  <2> DEFINE found == {e \in Exits : exitAt[e] # 0 /\ exitAt[e] \in lastBlock..(head - Confirms)}
  <2>1. job' = [at |-> "exits", todo |-> found \ handledExits, safe |-> head - Confirms]
    BY <1>4 DEF ScanExits
  <2>2. \A e \in found : Settled(e)
    BY <1>2 DEF Settled
  <2>3. UNCHANGED <<head, exitAt>>
    BY DEF ScanExits, evmVars
  <2>4. JobOK'
    BY <1>2, <2>1 DEF JobOK
  <2>5. FoundSettled'
    BY <2>1, <2>2, <2>3 DEF FoundSettled, Settled
  <2> QED BY <1>1, <2>4, <2>5 DEF FinalInv
<1> QED BY <1>3, <1>4

LEMMA FinalBackward ==
    ASSUME BridgeAssumption, FinalInv, Backward \/ \E e \in Exits : CreditFails(e)
    PROVE  FinalInv'
<1>1. CASE ScanExits
  BY <1>1, FinalScan
<1>2. CASE AdvanceCursor
  <2>1. job \in [at : {"exits"}, todo : SUBSET Exits, safe : Int]
    BY <1>2 DEF AdvanceCursor, FinalInv, JobOK, Idle
  <2>2. CursorOK' /\ ChainOK'
    BY <1>2, <2>1 DEF AdvanceCursor, FinalInv, CursorOK, ChainOK, l1Vars, evmVars
  <2>3. PoolOK' /\ PoolSettled' /\ CreditedSettled'
    BY <1>2, UntouchedFinal DEF AdvanceCursor, l1Vars, evmVars
  <2>4. job' = Idle
    BY <1>2 DEF AdvanceCursor
  <2> QED BY <2>2, <2>3, <2>4 DEF FinalInv, JobOK, FoundSettled, Idle
<1>3. CASE \E e \in Exits : ExitIsDust(e) \/ CreditL1(e) \/ CreditFails(e)
  <2>1. PICK e \in Exits : ExitIsDust(e) \/ CreditL1(e) \/ CreditFails(e)
    BY <1>3
  <2>2. /\ job.at = "exits" /\ e \in job.todo
        /\ Queue([exit |-> e, nonce |-> nonce]) \/ UNCHANGED <<pool, seen>>
        /\ job' = [job EXCEPT !.todo = @ \ {e}]
        /\ handledExits' \in {handledExits, handledExits \cup {e}}
        /\ UNCHANGED <<lastBlock, saved, nonce, burned, credited, evmVars>>
    BY <2>1 DEF ExitIsDust, CreditL1, CreditFails, l1Vars
  <2> QED BY <2>2, CreditFinal
<1> QED BY <1>1, <1>2, <1>3 DEF Backward

LEMMA FinalStops == ASSUME BridgeAssumption, FinalInv, Crash \/ PollFails PROVE FinalInv'
<1>1. PoolOK' /\ PoolSettled' /\ CreditedSettled' /\ ChainOK'
  BY UntouchedFinal DEF Crash, PollFails, l1Vars, evmVars, FinalInv, ChainOK
<1>2. job' = Idle
  BY DEF Crash, PollFails
<1>3. CursorOK'
  <2>1. CASE Crash
    <3>1. saved # NoCursor => Max({0, saved - ReorgBuffer}) \in Int
      BY MaxIsInt DEF FinalInv, CursorOK, BridgeAssumption
    <3> QED BY <2>1, <3>1 DEF Crash, FinalInv, CursorOK, ChainOK, l1Vars, evmVars
  <2>2. CASE PollFails
    BY <2>2 DEF PollFails, FinalInv, CursorOK, l1Vars
  <2> QED BY <2>1, <2>2
<1> QED BY <1>1, <1>2, <1>3 DEF FinalInv, JobOK, FoundSettled, Idle

LEMMA FinalNext == ASSUME BridgeAssumption, FinalInv, [Next]_vars PROVE FinalInv'
<1>1. CASE UNCHANGED vars
  BY <1>1 DEF vars, l1Vars, evmVars, relayerVars, FinalInv, ChainOK, CursorOK, JobOK, PoolOK,
     FoundSettled, PoolSettled, CreditedSettled, Settled
<1>2. CASE L1
  BY <1>2, FinalL1
<1>3. CASE Evm
  BY <1>3, FinalEvm
<1>4. CASE Relayer \/ CallFails
  BY <1>4, FinalForward, FinalBackward, FinalStops DEF Relayer, CallFails
<1>5. CASE Crash
  BY <1>5, FinalStops
<1> QED BY <1>1, <1>2, <1>3, <1>4, <1>5 DEF Next

(* For any numbers, the relayer credits an exit, or queues its credit, only *)
(* if no replacement of the EVM chain's last Confirms blocks undoes it:     *)
(* export_relayer.py's `safe` block, lock_id lookup and cursor together.    *)
THEOREM OnlyFinalCredited == Spec => []CreditedFinal
<1>1. Init => FinalInv
  BY BridgeAssumption, FinalInit
<1>2. FinalInv /\ [Next]_vars => FinalInv'
  BY BridgeAssumption, FinalNext
<1>3. FinalInv => CreditedFinal
  BY DEF FinalInv, CreditedSettled, PoolSettled, Settled, CreditedFinal
<1> QED BY <1>1, <1>2, <1>3, PTL DEF Spec

-----------------------------------------------------------------------------
(* ExportBacked says nothing of which burns are minted, so it is not        *)
(* inductive either.  What is: both sides are the sums of what was burned,  *)
(* minted, exited and credited, nothing is minted or on its way to be that  *)
(* was not burned, and (by FinalInv) nothing credited that has not exited.  *)
MintUnits == [b \in Burns |-> Scale * Amount[b]]
WholeUnits == [e \in Exits |-> Scale * Whole(e)]

Minted == {b \in Burns : mintedAt[b] # 0}
Exited == {e \in Exits : exitAt[e] # 0}

MintsBurned ==
    /\ Minted \subseteq burned /\ sent \in burned \cup {NoBurn}
    /\ job.at = "burns" => job.todo \subseteq burned
    /\ job.at = "receipt" => job.todo \subseteq burned /\ job.burn \in burned

SupplyIsSum ==
    supply = SumFunctionOnSet(MintUnits, Minted) - SumFunctionOnSet(Wei, Exited)

IncomeIsSum ==
    Scale * income = SumFunctionOnSet(MintUnits, burned)
                       - SumFunctionOnSet(WholeUnits, credited)

BooksOK ==
    /\ head >= 1 /\ mintedAt \in [Burns -> Nat] /\ income \in Int
    /\ IsFiniteSet(burned) /\ IsFiniteSet(Exited)

BooksInv == BooksOK /\ MintsBurned /\ SupplyIsSum /\ IncomeIsSum

(* The summands are integers, and a credit is at most what was burned for it. *)
LEMMA UnitsAreInts ==
    ASSUME BridgeAssumption
    PROVE  /\ \A b \in Burns : MintUnits[b] \in Nat
           /\ \A b \in Burns : Amount[b] \in Int
           /\ \A b \in Burns : MintUnits[b] = Scale * Amount[b]
           /\ \A e \in Exits : WholeUnits[e] \in Int
           /\ \A e \in Exits : Wei[e] \in Nat
           /\ \A e \in Exits : Whole(e) \in Int
           /\ \A e \in Exits : WholeUnits[e] <= Wei[e]
           /\ Scale \in Int
<1>1. ASSUME NEW b \in Burns
      PROVE  /\ MintUnits[b] \in Nat /\ Amount[b] \in Int
             /\ MintUnits[b] = Scale * Amount[b]
  <2>1. Scale \in Nat /\ Amount[b] \in Nat
    BY DEF BridgeAssumption
  <2>2. \A x, y \in Nat : x * y \in Nat
    OBVIOUS
  <2> QED BY <2>1, <2>2 DEF MintUnits
<1>2. ASSUME NEW e \in Exits
      PROVE  /\ WholeUnits[e] \in Int /\ Wei[e] \in Nat /\ Whole(e) \in Int
             /\ WholeUnits[e] <= Wei[e]
  <2>1. Scale \in Nat \ {0} /\ Wei[e] \in Nat
    BY DEF BridgeAssumption
  <2>2. \A x \in Nat : \A k \in Nat \ {0} :
          x \div k \in Int /\ k * (x \div k) \in Int /\ k * (x \div k) <= x
    OBVIOUS
  <2> QED BY <2>1, <2>2 DEF WholeUnits, Whole
<1>3. Scale \in Int
  BY DEF BridgeAssumption
<1> QED BY <1>1, <1>2, <1>3

(* What is needed of the sums of subsets of what was burned and exited.     *)
LEMMA PartsFinite ==
    ASSUME BridgeAssumption, FinalInv, BooksInv
    PROVE  /\ burned \in SUBSET Burns /\ credited \in SUBSET Exited
           /\ IsFiniteSet(burned) /\ IsFiniteSet(Minted) /\ IsFiniteSet(Exited)
           /\ IsFiniteSet(credited)
           /\ Minted \in SUBSET burned /\ Exited \in SUBSET Exits
<1>1. burned \in SUBSET Burns /\ Minted \in SUBSET burned /\ Exited \in SUBSET Exits
  BY DEF FinalInv, CursorOK, BooksInv, MintsBurned, Exited
<1>2. credited \in SUBSET Exited
  BY DEF FinalInv, CreditedSettled, Settled, Exited
<1>3. IsFiniteSet(burned) /\ IsFiniteSet(Exited)
  BY DEF BooksInv, BooksOK
<1> QED BY <1>1, <1>2, <1>3, FS_Subset

(* Both sides are their sums, so what is burned covers what circulates.     *)
LEMMA BooksBack == ASSUME BridgeAssumption, FinalInv, BooksInv PROVE ExportBacked
<1> DEFINE M == SumFunctionOnSet(MintUnits, Minted)
           B == SumFunctionOnSet(MintUnits, burned)
           X == SumFunctionOnSet(Wei, Exited)
           Y == SumFunctionOnSet(Wei, credited)
           W == SumFunctionOnSet(WholeUnits, credited)
<1>1. M <= B
  <2>1. \A x \in burned : MintUnits[x] \in Nat
    BY PartsFinite, UnitsAreInts
  <2> QED BY <2>1, PartsFinite, SumPart
<1>2. Y <= X
  <2>1. \A x \in Exited : Wei[x] \in Nat
    BY PartsFinite, UnitsAreInts
  <2> QED BY <2>1, PartsFinite, SumPart
<1>3. W <= Y
  <2>1. \A x \in credited : WholeUnits[x] \in Int
    BY PartsFinite, UnitsAreInts
  <2>2. \A x \in credited : Wei[x] \in Int
    BY PartsFinite, UnitsAreInts
  <2>3. \A x \in credited : WholeUnits[x] <= Wei[x]
    BY PartsFinite, UnitsAreInts
  <2> QED BY <2>1, <2>2, <2>3, PartsFinite, SumMonotone
<1>4. M \in Int /\ B \in Int /\ X \in Int /\ Y \in Int /\ W \in Int
  <2>1. \A x \in burned : MintUnits[x] \in Int
    BY PartsFinite, UnitsAreInts
  <2>2. \A x \in Exited : Wei[x] \in Int
    BY PartsFinite, UnitsAreInts
  <2>3. \A x \in credited : WholeUnits[x] \in Int
    BY PartsFinite, UnitsAreInts
  <2>4. \A x \in Minted : MintUnits[x] \in Int
    BY <2>1, PartsFinite
  <2>5. \A x \in credited : Wei[x] \in Int
    BY <2>2, PartsFinite
  <2> QED BY <2>1, <2>2, <2>3, <2>4, <2>5, PartsFinite, SumInt
<1>5. supply = M - X /\ Scale * income = B - W
  BY DEF BooksInv, SupplyIsSum, IncomeIsSum
<1> HIDE DEF M, B, X, Y, W
<1> QED BY <1>1, <1>2, <1>3, <1>4, <1>5 DEF ExportBacked

(* Nothing is burned, minted or exited at first.                            *)
LEMMA BooksInit == ASSUME BridgeAssumption, Init PROVE BooksInv
<1>1. Minted = {} /\ Exited = {} /\ burned = {} /\ credited = {}
  BY DEF Init, Minted, Exited
<1>2. IsFiniteSet({})
  BY FS_EmptySet
<1>3. \A f : SumFunctionOnSet(f, {}) = 0
  BY SumEmpty
<1>4. Scale * 0 = 0
  BY UnitsAreInts
<1>5. BooksOK /\ MintsBurned
  BY <1>1, <1>2 DEF Init, BooksOK, MintsBurned, Idle
<1>6. SupplyIsSum
  <2>1. SumFunctionOnSet(MintUnits, Minted) = 0 /\ SumFunctionOnSet(Wei, Exited) = 0
    BY <1>1, <1>3
  <2> QED BY <2>1 DEF SupplyIsSum, Init
<1>7. IncomeIsSum
  <2>1. /\ SumFunctionOnSet(MintUnits, burned) = 0
        /\ SumFunctionOnSet(WholeUnits, credited) = 0
    BY <1>1, <1>3
  <2> QED BY <2>1, <1>4 DEF IncomeIsSum, Init
<1> QED BY <1>5, <1>6, <1>7 DEF BooksInv

(* Steps that leave the sums alone.                                         *)
LEMMA SumsKept ==
    ASSUME BooksInv, UNCHANGED <<income, burned, credited, mintedAt, exitAt, supply>>
    PROVE  SupplyIsSum' /\ IncomeIsSum'
<1>1. Minted' = Minted /\ Exited' = Exited
  BY DEF Minted, Exited
<1> QED BY <1>1 DEF BooksInv, SupplyIsSum, IncomeIsSum, MintUnits, WholeUnits, Whole

LEMMA BooksBurn ==
    ASSUME BridgeAssumption, FinalInv, BooksInv, NEW b \in Burns, Burn(b)
    PROVE  BooksInv'
<1>1. b \notin burned /\ burned' = burned \cup {b} /\ income' = income + Amount[b]
  BY DEF Burn
<1>2. UNCHANGED <<credited, head, mintedAt, exitAt, supply, sent, job>>
  BY DEF Burn, evmVars, relayerVars
<1>3. Minted' = Minted /\ Exited' = Exited
  BY <1>2 DEF Minted, Exited
<1>4. BooksOK' /\ MintsBurned'
  <2>1. IsFiniteSet(burned')
    BY <1>1, PartsFinite, FS_AddElement
  <2>2. Amount[b] \in Int
    BY UnitsAreInts
  <2> QED BY <1>1, <1>2, <1>3, <2>1, <2>2 DEF BooksInv, BooksOK, MintsBurned
<1>5. SupplyIsSum'
  BY <1>2, <1>3 DEF BooksInv, SupplyIsSum, MintUnits
<1>6. IncomeIsSum'
  <2>1. SumFunctionOnSet(MintUnits, burned \cup {b})
          = MintUnits[b] + SumFunctionOnSet(MintUnits, burned)
    <3>1. \A x \in burned : MintUnits[x] \in Int
      BY PartsFinite, UnitsAreInts
    <3>2. MintUnits[b] \in Int
      BY UnitsAreInts
    <3> QED BY <1>1, <3>1, <3>2, PartsFinite, SumAdd
  <2>2. Scale * income + Scale * Amount[b] = Scale * (income + Amount[b])
    BY FactorOut, UnitsAreInts DEF BooksInv, BooksOK
  <2>3. MintUnits[b] = Scale * Amount[b] /\ MintUnits[b] \in Int
    BY UnitsAreInts
  <2>4. Scale * income = SumFunctionOnSet(MintUnits, burned)
                           - SumFunctionOnSet(WholeUnits, credited)
    BY DEF BooksInv, IncomeIsSum
  <2>5. SumFunctionOnSet(MintUnits, burned) \in Int
    <3>1. \A x \in burned : MintUnits[x] \in Int
      BY PartsFinite, UnitsAreInts
    <3> QED BY <3>1, PartsFinite, SumInt
  <2>6. SumFunctionOnSet(WholeUnits, credited) \in Int
    <3>1. \A x \in credited : WholeUnits[x] \in Int
      BY PartsFinite, UnitsAreInts
    <3> QED BY <3>1, PartsFinite, SumInt
  <2> DEFINE B == SumFunctionOnSet(MintUnits, burned)
             W == SumFunctionOnSet(WholeUnits, credited)
  <2>7. SumFunctionOnSet(MintUnits, burned') = MintUnits[b] + B
    BY <1>1, <2>1
  <2>8. SumFunctionOnSet(WholeUnits, credited') = W
    BY <1>2
  <2>9. Scale * income' = Scale * income + MintUnits[b]
    BY <1>1, <2>2, <2>3
  <2>10. Scale * income' = (MintUnits[b] + B) - W
    <3> HIDE DEF B, W
    <3>1. Scale * income = B - W /\ B \in Int /\ W \in Int
      BY <2>4, <2>5, <2>6 DEF B, W
    <3> QED BY <2>3, <2>9, <3>1
  <2>11. MintUnits' = MintUnits /\ WholeUnits' = WholeUnits
    BY DEF MintUnits, WholeUnits, Whole
  <2> QED BY <2>7, <2>8, <2>10, <2>11 DEF IncomeIsSum
<1> QED BY <1>4, <1>5, <1>6 DEF BooksInv

LEMMA BooksSeal ==
    ASSUME BridgeAssumption, FinalInv, BooksInv, SealMint
    PROVE  BooksInv'
<1> DEFINE e == Head(pool).exit
<1>1. e \in Exits
  <2>1. Head(pool) \in MintTx
    BY DEF FinalInv, PoolOK, SealMint
  <2> QED BY <2>1 DEF MintTx
<1>2. UNCHANGED <<burned, head, mintedAt, exitAt, supply, sent, job>>
  BY DEF SealMint, evmVars, relayerVars
<1>3. Minted' = Minted /\ Exited' = Exited
  BY <1>2 DEF Minted, Exited
<1>4. CASE UNCHANGED <<nonce, income, credited>>
  <2>1. BooksOK' /\ MintsBurned'
    BY <1>2, <1>3, <1>4 DEF BooksInv, BooksOK, MintsBurned
  <2> QED BY <1>2, <1>4, <2>1, SumsKept DEF BooksInv
<1>5. CASE e \notin credited /\ income' = income - Whole(e) /\ credited' = credited \cup {e}
  <2> HIDE DEF e
  <2>1. Whole(e) \in Int /\ WholeUnits[e] \in Int /\ WholeUnits[e] = Scale * Whole(e)
    BY <1>1, UnitsAreInts DEF WholeUnits
  <2>2. BooksOK' /\ MintsBurned'
    BY <1>2, <1>3, <1>5, <2>1 DEF BooksInv, BooksOK, MintsBurned
  <2>3. SupplyIsSum'
    BY <1>2, <1>3 DEF BooksInv, SupplyIsSum, MintUnits
  <2>4. \A x \in credited : WholeUnits[x] \in Int
    BY PartsFinite, UnitsAreInts
  <2>5. SumFunctionOnSet(WholeUnits, credited \cup {e})
          = WholeUnits[e] + SumFunctionOnSet(WholeUnits, credited)
    BY <1>5, <2>1, <2>4, PartsFinite, SumAdd
  <2>6. \A x \in burned : MintUnits[x] \in Int
    BY PartsFinite, UnitsAreInts
  <2> DEFINE B == SumFunctionOnSet(MintUnits, burned)
             W == SumFunctionOnSet(WholeUnits, credited)
  <2>7. B \in Int /\ W \in Int
    BY <2>4, <2>6, PartsFinite, SumInt
  <2>8. Scale * (income - Whole(e)) = Scale * income - Scale * Whole(e)
    <3>1. - Whole(e) \in Int /\ income \in Int /\ Scale \in Int
      BY <2>1, UnitsAreInts DEF BooksInv, BooksOK
    <3>2. \A k, a, c \in Int : k * (a - c) = k * a - k * c
      OBVIOUS
    <3> QED BY <2>1, <3>1, <3>2
  <2>9. Scale * income = B - W
    BY DEF BooksInv, IncomeIsSum
  <2>10. Scale * income' = B - (WholeUnits[e] + W)
    <3>1. Scale * income' = Scale * income - WholeUnits[e]
      BY <1>5, <2>1, <2>8
    <3> HIDE DEF B, W
    <3> QED BY <2>1, <2>7, <2>9, <3>1
  <2>11. SumFunctionOnSet(MintUnits, burned') = B
    BY <1>2
  <2>12. SumFunctionOnSet(WholeUnits, credited') = WholeUnits[e] + W
    BY <1>5, <2>5
  <2>13. MintUnits' = MintUnits /\ WholeUnits' = WholeUnits
    BY DEF MintUnits, WholeUnits, Whole
  <2>14. IncomeIsSum'
    BY <2>10, <2>11, <2>12, <2>13 DEF IncomeIsSum
  <2> QED BY <2>2, <2>3, <2>14 DEF BooksInv
<1> QED BY <1>4, <1>5 DEF SealMint

(* The mint of a burn, which was not minted before.                         *)
LEMMA BooksMint ==
    ASSUME BridgeAssumption, FinalInv, BooksInv, MintFromBurn
    PROVE  BooksInv'
<1>1. sent \in burned /\ sent \in Burns /\ sent \notin Minted
  BY PartsFinite DEF MintFromBurn, BooksInv, MintsBurned, Minted
<1>2. UNCHANGED <<income, burned, credited, head, exitAt, job>> /\ sent' = NoBurn
  BY DEF MintFromBurn, l1Vars, relayerVars
<1>3. mintedAt' = [mintedAt EXCEPT ![sent] = head] /\ supply' = supply + Scale * Amount[sent]
  BY DEF MintFromBurn
<1>4. head \in Nat /\ head >= 1 /\ mintedAt \in [Burns -> Nat]
  BY DEF FinalInv, ChainOK, BooksInv, BooksOK
<1>5. Minted' = Minted \cup {sent} /\ Exited' = Exited
  <2>1. mintedAt'[sent] # 0 /\ \A b \in Burns \ {sent} : mintedAt'[b] = mintedAt[b]
    BY <1>1, <1>3, <1>4
  <2> QED BY <1>1, <1>2, <2>1 DEF Minted, Exited
<1>6. BooksOK' /\ MintsBurned'
  <2>1. mintedAt' \in [Burns -> Nat]
    BY <1>1, <1>3, <1>4
  <2> QED BY <1>1, <1>2, <1>5, <2>1 DEF BooksInv, BooksOK, MintsBurned
<1>7. SupplyIsSum'
  <2>1. \A x \in Minted : MintUnits[x] \in Int
    BY PartsFinite, UnitsAreInts
  <2>2. MintUnits[sent] = Scale * Amount[sent] /\ MintUnits[sent] \in Int
    BY <1>1, UnitsAreInts
  <2>3. \A x \in Exited : Wei[x] \in Int
    BY PartsFinite, UnitsAreInts
  <2> DEFINE M == SumFunctionOnSet(MintUnits, Minted)
             X == SumFunctionOnSet(Wei, Exited)
  <2>4. SumFunctionOnSet(MintUnits, Minted \cup {sent}) = MintUnits[sent] + M
    BY <1>1, <2>1, <2>2, PartsFinite, SumAdd
  <2>5. M \in Int /\ X \in Int
    BY <2>1, <2>3, PartsFinite, SumInt
  <2>6. SumFunctionOnSet(MintUnits, Minted') = MintUnits[sent] + M
    BY <1>5, <2>4
  <2>7. SumFunctionOnSet(Wei, Exited') = X
    BY <1>5
  <2>8. supply = M - X
    BY DEF BooksInv, SupplyIsSum
  <2>9. supply' = (MintUnits[sent] + M) - X
    <3> HIDE DEF M, X
    <3> QED BY <1>3, <2>2, <2>5, <2>8
  <2>10. MintUnits' = MintUnits
    BY DEF MintUnits
  <2> QED BY <2>6, <2>7, <2>9, <2>10 DEF SupplyIsSum
<1>8. IncomeIsSum'
  BY <1>2 DEF BooksInv, IncomeIsSum, MintUnits, WholeUnits, Whole
<1> QED BY <1>6, <1>7, <1>8 DEF BooksInv

(* A call of exit().                                                        *)
LEMMA BooksExit ==
    ASSUME BridgeAssumption, FinalInv, BooksInv, NEW e \in Exits, Exit(e)
    PROVE  BooksInv'
<1>1. e \notin Exited
  BY DEF Exit, Exited
<1>2. UNCHANGED <<income, burned, credited, head, mintedAt, sent, job>>
  BY DEF Exit, l1Vars, relayerVars
<1>3. exitAt' = [exitAt EXCEPT ![e] = head] /\ supply' = supply - Wei[e]
  BY DEF Exit
<1>4. head \in Nat /\ head >= 1 /\ exitAt \in [Exits -> Nat]
  BY DEF FinalInv, ChainOK, BooksInv, BooksOK
<1>5. Exited' = Exited \cup {e} /\ Minted' = Minted
  <2>1. exitAt'[e] # 0 /\ \A x \in Exits \ {e} : exitAt'[x] = exitAt[x]
    BY <1>3, <1>4
  <2> QED BY <1>2, <2>1 DEF Minted, Exited
<1>6. BooksOK' /\ MintsBurned'
  <2>1. IsFiniteSet(Exited')
    BY <1>5, PartsFinite, FS_AddElement
  <2> QED BY <1>2, <1>5, <2>1 DEF BooksInv, BooksOK, MintsBurned
<1>7. SupplyIsSum'
  <2>1. \A x \in Minted : MintUnits[x] \in Int
    BY PartsFinite, UnitsAreInts
  <2>2. Wei[e] \in Int
    BY UnitsAreInts
  <2>3. \A x \in Exited : Wei[x] \in Int
    BY PartsFinite, UnitsAreInts
  <2> DEFINE M == SumFunctionOnSet(MintUnits, Minted)
             X == SumFunctionOnSet(Wei, Exited)
  <2>4. SumFunctionOnSet(Wei, Exited \cup {e}) = Wei[e] + X
    BY <1>1, <2>2, <2>3, PartsFinite, SumAdd
  <2>5. M \in Int /\ X \in Int
    BY <2>1, <2>3, PartsFinite, SumInt
  <2>6. SumFunctionOnSet(Wei, Exited') = Wei[e] + X
    BY <1>5, <2>4
  <2>7. SumFunctionOnSet(MintUnits, Minted') = M
    BY <1>5
  <2>8. supply = M - X
    BY DEF BooksInv, SupplyIsSum
  <2>9. supply' = M - (Wei[e] + X)
    <3> HIDE DEF M, X
    <3> QED BY <1>3, <2>2, <2>5, <2>8
  <2>10. MintUnits' = MintUnits
    BY DEF MintUnits
  <2> QED BY <2>6, <2>7, <2>9, <2>10 DEF SupplyIsSum
<1>8. IncomeIsSum'
  BY <1>2 DEF BooksInv, IncomeIsSum, MintUnits, WholeUnits, Whole
<1> QED BY <1>6, <1>7, <1>8 DEF BooksInv

(* A replacement of blocks takes mints and exits out of the supply again.   *)
LEMMA BooksReorg ==
    ASSUME BridgeAssumption, FinalInv, BooksInv, NEW d \in 1..Confirms, Reorg(d)
    PROVE  BooksInv'
<1> DEFINE unminted == {b \in Burns : mintedAt[b] > head - d}
           unexited == {e \in Exits : exitAt[e] > head - d}
<1>1. /\ d \in Nat /\ head \in Nat /\ d <= head
      /\ mintedAt \in [Burns -> Nat] /\ exitAt \in [Exits -> Nat]
  BY DEF BridgeAssumption, Reorg, FinalInv, ChainOK, BooksInv, BooksOK
<1>2. UNCHANGED <<income, burned, credited, head, sent, job>>
  BY DEF Reorg, l1Vars, relayerVars
<1>3. /\ mintedAt' = [b \in Burns |-> IF mintedAt[b] > head - d THEN 0 ELSE mintedAt[b]]
      /\ exitAt' = [e \in Exits |-> IF exitAt[e] > head - d THEN 0 ELSE exitAt[e]]
  BY <1>1 DEF Reorg
<1>4. supply' = supply - Scale * SumFunctionOnSet(Amount, unminted)
                       + SumFunctionOnSet(Wei, unexited)
  BY DEF Reorg
<1>5. unminted \in SUBSET Minted /\ unexited \in SUBSET Exited
  BY <1>1 DEF Minted, Exited
<1>6. Minted' = Minted \ unminted /\ Exited' = Exited \ unexited
  BY <1>1, <1>3 DEF Minted, Exited
<1> HIDE DEF unminted, unexited
<1>7. BooksOK' /\ MintsBurned'
  <2>1. mintedAt' \in [Burns -> Nat]
    BY <1>1, <1>3
  <2>2. IsFiniteSet(Exited')
    BY <1>6, PartsFinite, FS_Difference
  <2> QED BY <1>2, <1>6, <2>1, <2>2 DEF BooksInv, BooksOK, MintsBurned
<1>8. SupplyIsSum'
  <2> DEFINE M == SumFunctionOnSet(MintUnits, Minted)
             X == SumFunctionOnSet(Wei, Exited)
             Mu == SumFunctionOnSet(MintUnits, unminted)
             Xu == SumFunctionOnSet(Wei, unexited)
             Mk == SumFunctionOnSet(MintUnits, Minted \ unminted)
             Xk == SumFunctionOnSet(Wei, Exited \ unexited)
  <2>1. \A x \in Minted : MintUnits[x] \in Int
    BY PartsFinite, UnitsAreInts
  <2>2. \A x \in Exited : Wei[x] \in Int
    BY PartsFinite, UnitsAreInts
  <2>3. M = Mu + Mk
    BY <1>5, <2>1, PartsFinite, SumSplit
  <2>4. X = Xu + Xk
    BY <1>5, <2>2, PartsFinite, SumSplit
  <2>5. IsFiniteSet(unminted) /\ IsFiniteSet(unexited)
    BY <1>5, PartsFinite, FS_Subset
  <2>6. Mu = Scale * SumFunctionOnSet(Amount, unminted)
    <3>1. \A x \in unminted : Amount[x] \in Int
      BY <1>5, UnitsAreInts DEF Minted
    <3>2. \A x \in unminted : MintUnits[x] = Scale * Amount[x]
      BY <1>5, UnitsAreInts DEF Minted
    <3> QED BY <2>5, <3>1, <3>2, UnitsAreInts, SumScale
  <2>7. Mu \in Int /\ Xu \in Int /\ Mk \in Int /\ Xk \in Int
    <3>1. \A x \in unminted : MintUnits[x] \in Int
      BY <1>5, <2>1
    <3>2. \A x \in unexited : Wei[x] \in Int
      BY <1>5, <2>2
    <3>3. \A x \in Minted \ unminted : MintUnits[x] \in Int
      BY <2>1
    <3>4. \A x \in Exited \ unexited : Wei[x] \in Int
      BY <2>2
    <3>5. IsFiniteSet(Minted \ unminted) /\ IsFiniteSet(Exited \ unexited)
      BY PartsFinite, FS_Difference
    <3> QED BY <2>5, <3>1, <3>2, <3>3, <3>4, <3>5, SumInt
  <2>8. supply = M - X
    BY DEF BooksInv, SupplyIsSum
  <2>9. supply' = supply - Mu + Xu
    BY <1>4, <2>6
  <2>10. supply' = Mk - Xk
    <3> HIDE DEF M, X, Mu, Xu, Mk, Xk
    <3> QED BY <2>3, <2>4, <2>7, <2>8, <2>9
  <2>11. MintUnits' = MintUnits
    BY DEF MintUnits
  <2> QED BY <1>6, <2>10, <2>11 DEF SupplyIsSum
<1>9. IncomeIsSum'
  BY <1>2 DEF BooksInv, IncomeIsSum, MintUnits, WholeUnits, Whole
<1> QED BY <1>7, <1>8, <1>9 DEF BooksInv

(* Steps of the chains and of the relayer that move no money.               *)
LEMMA BooksUntouched ==
    ASSUME BooksInv, UNCHANGED <<income, burned, credited, mintedAt, exitAt, supply>>,
           head' \in {head, head + 1}, head \in Nat, MintsBurned'
    PROVE  BooksInv'
<1>1. Exited' = Exited
  BY DEF Exited
<1>2. BooksOK'
  BY <1>1 DEF BooksInv, BooksOK
<1> QED BY <1>2, SumsKept DEF BooksInv

LEMMA BooksL1 == ASSUME BridgeAssumption, FinalInv, BooksInv, L1 PROVE BooksInv'
<1>1. CASE SealMint
  BY <1>1, BooksSeal
<1>2. CASE OtherTreasuryTx \/ NodeRestart
  <2>1. UNCHANGED <<income, burned, credited, mintedAt, exitAt, supply, head, sent, job>>
    BY <1>2 DEF OtherTreasuryTx, NodeRestart, evmVars, relayerVars
  <2>2. MintsBurned'
    BY <2>1 DEF BooksInv, MintsBurned, Minted
  <2> QED BY <2>1, <2>2, BooksUntouched DEF FinalInv, ChainOK
<1>3. CASE \E b \in Burns : Burn(b)
  BY <1>3, BooksBurn
<1> QED BY <1>1, <1>2, <1>3 DEF L1

LEMMA BooksEvm == ASSUME BridgeAssumption, FinalInv, BooksInv, Evm PROVE BooksInv'
<1>1. CASE NewBlock \/ MintReverts
  <2>1. /\ UNCHANGED <<income, burned, credited, mintedAt, exitAt, supply, job>>
        /\ head' \in {head, head + 1} /\ sent' \in {sent, NoBurn}
    BY <1>1 DEF NewBlock, MintReverts, l1Vars, relayerVars
  <2>2. MintsBurned'
    BY <2>1 DEF BooksInv, MintsBurned, Minted
  <2> QED BY <2>1, <2>2, BooksUntouched DEF FinalInv, ChainOK
<1>2. CASE MintFromBurn
  BY <1>2, BooksMint
<1>3. CASE \E e \in Exits : Exit(e)
  BY <1>3, BooksExit
<1>4. CASE \E d \in 1..Confirms : Reorg(d)
  BY <1>4, BooksReorg
<1> QED BY <1>1, <1>2, <1>3, <1>4 DEF Evm

LEMMA BooksForward ==
    ASSUME FinalInv, BooksInv, Forward \/ \E b \in Burns : SendFails(b)
    PROVE  BooksInv'
<1>1. UNCHANGED <<income, burned, credited, mintedAt, exitAt, supply, head>>
  BY DEF Forward, PollBurns, Receipt, NoReceipt, AlreadyMinted, SendMint, SendFails,
     l1Vars, evmVars
<1>2. burned \subseteq Burns /\ Minted' = Minted
  BY <1>1 DEF FinalInv, CursorOK, Minted
<1>3. MintsBurned'
  <2>1. CASE PollBurns
    <3>1. job' = [at |-> "burns", todo |-> burned \ (confirmed \cup handledBurns)]
          /\ sent' = sent
      BY <2>1 DEF PollBurns, evmVars
    <3> QED BY <1>1, <1>2, <3>1 DEF BooksInv, MintsBurned
  <2>2. CASE Receipt \/ NoReceipt
    <3>1. job.at = "receipt" /\ job' = [at |-> "burns", todo |-> job.todo] /\ sent' = sent
      BY <2>2 DEF Receipt, NoReceipt, GoOnWithBurns, evmVars
    <3> QED BY <1>1, <1>2, <3>1 DEF BooksInv, MintsBurned
  <2>3. CASE \E b \in Burns : AlreadyMinted(b) \/ SendMint(b) \/ SendFails(b)
    <3>1. PICK b \in Burns : AlreadyMinted(b) \/ SendMint(b) \/ SendFails(b)
      BY <2>3
    <3>2. job.todo \subseteq burned /\ b \in burned
      BY <3>1 DEF AlreadyMinted, SendMint, SendFails, BooksInv, MintsBurned
    <3>3. \/ job' = [at |-> "burns", todo |-> job.todo \ {b}] /\ sent' = sent
          \/ job' = [at |-> "receipt", todo |-> job.todo \ {b}, burn |-> b] /\ sent' = b
      BY <3>1 DEF AlreadyMinted, SendMint, SendFails, GoOnWithBurns, evmVars
    <3> QED BY <1>1, <1>2, <3>2, <3>3 DEF BooksInv, MintsBurned
  <2> QED BY <2>1, <2>2, <2>3 DEF Forward
<1> QED BY <1>1, <1>3, BooksUntouched DEF FinalInv, ChainOK

LEMMA BooksElsewhere ==
    ASSUME FinalInv, BooksInv,
           Backward \/ (\E e \in Exits : CreditFails(e)) \/ PollFails \/ Crash
    PROVE  BooksInv'
<1>1. UNCHANGED <<income, burned, credited, mintedAt, exitAt, supply, head, sent>>
  BY DEF Backward, ScanExits, AdvanceCursor, ExitIsDust, CreditL1, CreditFails, PollFails,
     Crash, l1Vars, evmVars
<1>2. job'.at \notin {"burns", "receipt"}
  <2>1. CASE \E e \in Exits : ExitIsDust(e) \/ CreditL1(e) \/ CreditFails(e)
    <3>1. PICK e \in Exits : ExitIsDust(e) \/ CreditL1(e) \/ CreditFails(e)
      BY <2>1
    <3>2. job.at = "exits" /\ job' = [job EXCEPT !.todo = @ \ {e}]
      BY <3>1 DEF ExitIsDust, CreditL1, CreditFails
    <3>3. job \in [at : {"exits"}, todo : SUBSET Exits, safe : Int]
      BY <3>2 DEF FinalInv, JobOK, Idle
    <3> QED BY <3>2, <3>3
  <2>2. CASE ScanExits \/ AdvanceCursor \/ PollFails \/ Crash
    BY <2>2 DEF ScanExits, AdvanceCursor, PollFails, Crash, Idle
  <2> QED BY <2>1, <2>2 DEF Backward
<1>3. MintsBurned'
  BY <1>1, <1>2 DEF BooksInv, MintsBurned, Minted
<1> QED BY <1>1, <1>3, BooksUntouched DEF FinalInv, ChainOK

LEMMA BooksNext ==
    ASSUME BridgeAssumption, FinalInv, BooksInv, [Next]_vars
    PROVE  BooksInv'
<1>1. CASE UNCHANGED vars
  <2>1. MintsBurned'
    BY <1>1 DEF vars, l1Vars, evmVars, relayerVars, BooksInv, MintsBurned, Minted
  <2> QED BY <1>1, <2>1, BooksUntouched
           DEF vars, l1Vars, evmVars, FinalInv, ChainOK
<1>2. CASE L1
  BY <1>2, BooksL1
<1>3. CASE Evm
  BY <1>3, BooksEvm
<1>4. CASE Relayer \/ CallFails
  BY <1>4, BooksForward, BooksElsewhere DEF Relayer, CallFails
<1>5. CASE Crash
  BY <1>5, BooksElsewhere
<1> QED BY <1>1, <1>2, <1>3, <1>4, <1>5 DEF Next

(* For any numbers of burns and exits, any amounts, scale and confirmation   *)
(* depth: however crashes, lost answers, late mints, retries and replaced    *)
(* blocks interleave, MORMExportBridge.sol's wMORM is covered by MORM that   *)
(* was burned on L1 and not credited again by export_relayer.py.             *)
THEOREM ExportAlwaysBacked == Spec => []ExportBacked
<1>1. Init => FinalInv /\ BooksInv
  BY BridgeAssumption, FinalInit, BooksInit
<1>2. FinalInv /\ BooksInv /\ [Next]_vars => FinalInv' /\ BooksInv'
  BY BridgeAssumption, FinalNext, BooksNext
<1>3. FinalInv /\ BooksInv => ExportBacked
  BY BridgeAssumption, BooksBack
<1> QED BY <1>1, <1>2, <1>3, PTL DEF Spec

=============================================================================
