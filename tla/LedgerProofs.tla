---------------------------- MODULE LedgerProofs ----------------------------
(***************************************************************************)
(* Theorems about the ledger for every number of accounts, orders, jobs,   *)
(* locks and signers, and every supply, fee and amount: what the handlers  *)
(* keep and promise, that the escrow account implements EscrowVault, that  *)
(* balances and stakes add up to the genesis supply, and the mirrored      *)
(* tokens to what was minted and not burned.                               *)
(***************************************************************************)
EXTENDS LedgerEscrow, SumTheorems

(***************************************************************************)
(* The fee of an order is a natural number not above the order's value, so *)
(* that the seller's amount is natural.                                    *)
(***************************************************************************)
LEMMA FeeBounded ==
    ASSUME NEW v \in Values
    PROVE  Fee(v) \in Nat /\ Fee(v) <= v
<1> DEFINE q == (v * FeeBps) \div BpsDenom
<1>1. v \in Nat /\ FeeBps \in Nat /\ BpsDenom \in Nat /\ BpsDenom > 0 /\ FeeBps <= BpsDenom
  BY LedgerAssumption
<1>2. v * FeeBps \in Nat
  BY <1>1
<1>3. q \in Nat /\ q * BpsDenom <= v * FeeBps
  BY <1>1, <1>2
<1>4. v * FeeBps <= v * BpsDenom
  BY <1>1
<1>5. q <= v
  BY <1>1, <1>3, <1>4
<1>6. QED
  BY <1>3, <1>5 DEF Fee

(***************************************************************************)
(* What an UPDATE of one balance, or of two, does to the balances.         *)
(***************************************************************************)
LEMMA AddTyped ==
    ASSUME NEW bal \in [Accounts -> Int], NEW R, NEW a \in Accounts, NEW n \in Int
    PROVE  Add(bal, R, a, n) \in [Accounts -> Int]
BY DEF Add

LEMMA MoveTyped ==
    ASSUME NEW bal \in [Accounts -> Int], NEW R,
           NEW from \in Accounts, NEW to \in Accounts, NEW n \in Int
    PROVE  Move(bal, R, from, to, n) \in [Accounts -> Int]
<1>1. -n \in Int
  OBVIOUS
<1>2. QED
  BY <1>1, AddTyped DEF Move

LEMMA AccountsOfUsers ==
    Users \subseteq Accounts /\ Treasury \in Accounts /\ Escrow \in Accounts
BY LedgerAssumption DEF Accounts

-----------------------------------------------------------------------------
(***************************************************************************)
(* Type correctness, handler by handler: each has a step for the accounts, *)
(* and one for each group of tables it writes.                             *)
(***************************************************************************)
LEMMA NonceTyped ==
    ASSUME AccountsTypeOK, NEW s \in Accounts, Spend(s)
    PROVE  nonce' \in [Accounts -> Nat]
BY DEF AccountsTypeOK, Spend

LEMMA StatusesTyped ==
    /\ Created \in 0..5 /\ Packed \in 0..5 /\ Opened \in 0..5
    /\ Paid \in 0..5 /\ Refunded \in 0..5
    /\ Posted \in 0..3 /\ Claimed \in 0..3 /\ Done \in 0..3
BY DEF Created, Packed, Opened, Paid, Refunded, Posted, Claimed, Done

LEMMA ValuesTyped == \A v \in Values : v \in Nat /\ v \in Int
BY LedgerAssumption

LEMMA OrderStatusTyped ==
    ASSUME MarketTypeOK, NEW o \in Orders, NEW k \in 0..5
    PROVE  [orders EXCEPT ![o].status = k] \in [Orders -> OrderRow]
<1>1. orders \in [Orders -> OrderRow] /\ orders[o] \in OrderRow
  BY DEF MarketTypeOK
<1>2. [orders[o] EXCEPT !.status = k] \in OrderRow
  BY <1>1 DEF OrderRow
<1>3. QED
  BY <1>1, <1>2

LEMMA JobStatusTyped ==
    ASSUME MarketTypeOK, NEW j \in Jobs, NEW k \in 0..3
    PROVE  /\ [jobs EXCEPT ![j].status = k] \in [Jobs -> JobRow]
           /\ \A a \in Accounts :
                [jobs EXCEPT ![j].status = k, ![j].claimer = a] \in [Jobs -> JobRow]
<1>1. jobs \in [Jobs -> JobRow] /\ jobs[j] \in JobRow
  BY DEF MarketTypeOK
<1>2. [jobs[j] EXCEPT !.status = k] \in JobRow
  BY <1>1 DEF JobRow
<1>3. [jobs EXCEPT ![j].status = k] \in [Jobs -> JobRow]
  BY <1>1, <1>2
<1>4. ASSUME NEW a \in Accounts
      PROVE  [jobs EXCEPT ![j].status = k, ![j].claimer = a] \in [Jobs -> JobRow]
  <2> DEFINE js == [jobs EXCEPT ![j].status = k]
  <2>1. js \in [Jobs -> JobRow] /\ js[j] \in JobRow
    BY <1>3
  <2>2. [js[j] EXCEPT !.claimer = a] \in JobRow
    <3> HIDE DEF js
    <3> QED BY <2>1 DEF JobRow
  <2>3. [js EXCEPT ![j].claimer = a] \in [Jobs -> JobRow]
    <3> HIDE DEF js
    <3> QED BY <2>1, <2>2
  <2>4. QED
    BY <2>3
<1>5. QED
  BY <1>3, <1>4

LEMMA MarketTyped ==
    ASSUME TypeOK, NEW s \in Users, MarketTx(s)
    PROVE  TypeOK'
<1> USE AccountsOfUsers, NonceTyped DEF TypeOK
<1>1. UNCHANGED <<bridgeVars, registryVars, multisigVars, cosigned>>
  BY DEF MarketTx, RegisterContent, CreateOrder, SubmitProof, ViewRewardTx,
         PostJob, ClaimJob, SubmitWorkProof
<1>2. BridgeTypeOK' /\ ControlTypeOK'
  BY <1>1 DEF bridgeVars, registryVars, multisigVars, BridgeTypeOK, ControlTypeOK
<1>3. ASSUME NEW c \in Contents, NEW g \in Generations \cup {NoGeneration},
             NEW k \in Services \cup {NoService}, RegisterContent(s, c, g, k)
      PROVE  AccountsTypeOK' /\ MarketTypeOK'
  <2>1. AccountsTypeOK'
    BY <1>3 DEF RegisterContent, AccountsTypeOK
  <2>2. MarketTypeOK'
    BY <1>3 DEF RegisterContent, MarketTypeOK
  <2>3. QED
    BY <2>1, <2>2
<1>4. ASSUME NEW o \in Orders, NEW c \in Contents, NEW seller \in Accounts,
             NEW v \in Values, CreateOrder(s, o, c, seller, v)
      PROVE  AccountsTypeOK' /\ MarketTypeOK'
  <2> DEFINE b == Move(balance, rows', s, Treasury, Fee(v))
  <2>1. v \in Nat /\ Fee(v) \in Int /\ v - Fee(v) \in Nat /\ v - Fee(v) \in Int
    BY FeeBounded, LedgerAssumption
  <2>2. b \in [Accounts -> Int]
    BY <2>1, MoveTyped DEF AccountsTypeOK
  <2>3. Move(b, rows', s, Escrow, v - Fee(v)) \in [Accounts -> Int]
    <3> HIDE DEF b
    <3> QED BY <2>1, <2>2, MoveTyped
  <2>4. AccountsTypeOK'
    BY <1>4, <2>3 DEF CreateOrder, AccountsTypeOK
  <2>5. [status |-> Created, buyer |-> s, seller |-> seller, amount |-> v - Fee(v)]
          \in OrderRow
    BY <2>1 DEF OrderRow, Created
  <2>6. MarketTypeOK'
    BY <1>4, <2>5 DEF CreateOrder, MarketTypeOK
  <2>7. QED
    BY <2>4, <2>6
<1>5. ASSUME NEW o \in Orders, NEW role, SubmitProof(s, o, role)
      PROVE  AccountsTypeOK' /\ MarketTypeOK'
  <2>1. AccountsTypeOK'
    BY <1>5 DEF SubmitProof, AccountsTypeOK
  <2>2. MarketTypeOK'
    <3>1. orders' \in [Orders -> OrderRow]
      <4>1. /\ [orders EXCEPT ![o].status = Packed] \in [Orders -> OrderRow]
            /\ [orders EXCEPT ![o].status = Opened] \in [Orders -> OrderRow]
        BY OrderStatusTyped, StatusesTyped
      <4>2. QED
        BY <1>5, <4>1 DEF SubmitProof
    <3>2. QED
      BY <1>5, <3>1 DEF SubmitProof, MarketTypeOK
  <2>3. QED
    BY <2>1, <2>2
<1>6. ASSUME NEW c \in Contents, NEW i \in Cells, ViewRewardTx(s, c, i)
      PROVE  AccountsTypeOK' /\ MarketTypeOK'
  <2>1. AccountsTypeOK'
    <3>1. ViewReward \in Int
      BY LedgerAssumption
    <3>2. Move(balance, rows', Treasury, s, ViewReward) \in [Accounts -> Int]
      BY <3>1, MoveTyped DEF AccountsTypeOK
    <3>3. balance' \in [Accounts -> Int]
      BY <1>6, <3>2 DEF ViewRewardTx
    <3>4. QED
      BY <1>6, <3>3 DEF ViewRewardTx, AccountsTypeOK
  <2>2. MarketTypeOK'
    BY <1>6 DEF ViewRewardTx, MarketTypeOK
  <2>3. QED
    BY <2>1, <2>2
<1>7. ASSUME NEW j \in Jobs, NEW c \in Contents, NEW v \in Values, PostJob(s, j, c, v)
      PROVE  AccountsTypeOK' /\ MarketTypeOK'
  <2>0. v \in Nat /\ v \in Int
    BY LedgerAssumption
  <2>1. AccountsTypeOK'
    <3>1. balance' \in [Accounts -> Int]
      BY <1>7, <2>0, MoveTyped DEF PostJob, AccountsTypeOK
    <3>2. QED
      BY <1>7, <3>1 DEF PostJob, AccountsTypeOK
  <2>2. MarketTypeOK'
    <3>1. [status |-> Posted, poster |-> s, claimer |-> Escrow, reward |-> v] \in JobRow
      BY <2>0 DEF JobRow, Posted
    <3>2. QED
      BY <1>7, <3>1 DEF PostJob, MarketTypeOK
  <2>3. QED
    BY <2>1, <2>2
<1>8. ASSUME NEW j \in Jobs, ClaimJob(s, j)
      PROVE  AccountsTypeOK' /\ MarketTypeOK'
  <2>1. AccountsTypeOK'
    BY <1>8 DEF ClaimJob, AccountsTypeOK
  <2>2. MarketTypeOK'
    <3>1. jobs' \in [Jobs -> JobRow]
      <4>1. [jobs EXCEPT ![j].status = Claimed, ![j].claimer = s] \in [Jobs -> JobRow]
        BY JobStatusTyped, StatusesTyped
      <4>2. QED
        BY <1>8, <4>1 DEF ClaimJob
    <3>2. QED
      BY <1>8, <3>1 DEF ClaimJob, MarketTypeOK
  <2>3. QED
    BY <2>1, <2>2
<1>9. ASSUME NEW j \in Jobs, SubmitWorkProof(s, j)
      PROVE  AccountsTypeOK' /\ MarketTypeOK'
  <2>0. jobs[j] \in JobRow /\ jobs[j].reward \in Nat /\ jobs[j].reward \in Int
    BY DEF MarketTypeOK, JobRow
  <2>1. AccountsTypeOK'
    <3>1. Move(balance, rows', Escrow, s, jobs[j].reward) \in [Accounts -> Int]
      BY <2>0, MoveTyped DEF AccountsTypeOK
    <3>2. balance' \in [Accounts -> Int]
      BY <1>9, <3>1 DEF SubmitWorkProof
    <3>3. QED
      BY <1>9, <3>2 DEF SubmitWorkProof, AccountsTypeOK
  <2>2. MarketTypeOK'
    <3>1. jobs' \in [Jobs -> JobRow]
      <4>1. [jobs EXCEPT ![j].status = Done] \in [Jobs -> JobRow]
        BY JobStatusTyped, StatusesTyped
      <4>2. QED
        BY <1>9, <4>1 DEF SubmitWorkProof
    <3>2. workers' \in [Accounts -> [completed : Nat, earned : Nat]]
      BY <1>9, <2>0 DEF SubmitWorkProof, MarketTypeOK
    <3>3. QED
      BY <1>9, <3>1, <3>2 DEF SubmitWorkProof, MarketTypeOK
  <2>3. QED
    BY <2>1, <2>2
<1>10. QED
  BY <1>2, <1>3, <1>4, <1>5, <1>6, <1>7, <1>8, <1>9 DEF MarketTx

LEMMA MoneyTyped ==
    ASSUME TypeOK, NEW s \in Users, MoneyTx(s)
    PROVE  TypeOK'
<1> USE AccountsOfUsers, NonceTyped DEF TypeOK
<1>1. UNCHANGED <<marketVars, registryVars, multisigVars, cosigned>>
  BY DEF MoneyTx, Stake, Transfer, BridgeBurn
<1>2. MarketTypeOK' /\ ControlTypeOK'
  BY <1>1 DEF marketVars, registryVars, multisigVars, MarketTypeOK, ControlTypeOK
<1>3. ASSUME NEW v \in Values, Stake(s, v)
      PROVE  AccountsTypeOK' /\ BridgeTypeOK'
  <2>1. v \in Nat
    BY LedgerAssumption
  <2>2. AccountsTypeOK'
    BY <1>3, <2>1 DEF Stake, Add, AccountsTypeOK
  <2>3. BridgeTypeOK'
    BY <1>3 DEF Stake, bridgeVars, BridgeTypeOK
  <2>4. QED
    BY <2>2, <2>3
<1>4. ASSUME NEW to \in Accounts, NEW v \in Values, Transfer(s, to, v)
      PROVE  AccountsTypeOK' /\ BridgeTypeOK'
  <2>1. AccountsTypeOK'
    BY <1>4, MoveTyped, LedgerAssumption DEF Transfer, AccountsTypeOK
  <2>2. BridgeTypeOK'
    BY <1>4 DEF Transfer, bridgeVars, BridgeTypeOK
  <2>3. QED
    BY <2>1, <2>2
<1>5. ASSUME NEW t \in AllTokens, NEW v \in Values, BridgeBurn(s, t, v)
      PROVE  AccountsTypeOK' /\ BridgeTypeOK'
  <2>1. v \in Nat /\ v \in Int
    BY LedgerAssumption
  <2>2. balance' \in [Accounts -> Int]
    BY <1>5, <2>1, MoveTyped DEF BridgeBurn, AccountsTypeOK
  <2>3. AccountsTypeOK'
    BY <1>5, <2>2 DEF BridgeBurn, AccountsTypeOK
  <2>4. tokens' \in [Accounts -> [Tokens -> Int]]
    BY <1>5, <2>1 DEF BridgeBurn, BridgeTypeOK
  <2>5. burns' \subseteq BurnRow
    <3>1. nonce[s] \in Nat
      BY DEF AccountsTypeOK
    <3>2. [burner |-> s, nonce |-> nonce[s], token |-> t, amount |-> v] \in BurnRow
      BY <2>1, <3>1 DEF BurnRow
    <3>3. QED
      BY <1>5, <3>2 DEF BridgeBurn, BridgeTypeOK
  <2>6. BridgeTypeOK'
    BY <1>5, <2>4, <2>5 DEF BridgeBurn, BridgeTypeOK
  <2>7. QED
    BY <2>3, <2>6
<1>6. QED
  BY <1>2, <1>3, <1>4, <1>5 DEF MoneyTx

\* The kind of an operation gives it its payload.
LEMMA MintPayload ==
    ASSUME NEW op \in TreasuryOps, op.kind = "BRIDGE_MINT"
    PROVE  /\ op.lock \in EvmLocks /\ op.to \in Accounts
           /\ op.token \in AllTokens /\ op.amount \in Values
           /\ op.amount \in Nat /\ op.amount \in Int
<1>1. op \in [kind : {"BRIDGE_MINT"}, lock : EvmLocks, to : Accounts,
              token : AllTokens, amount : Values]
  BY DEF TreasuryOps
<1>2. op.amount \in Values
  BY <1>1
<1>3. op.amount \in Nat /\ op.amount \in Int
  BY <1>2, ValuesTyped
<1>4. QED
  BY <1>1, <1>3

LEMMA FinalizePayload ==
    ASSUME NEW op \in TreasuryOps, op.kind = "FINALIZE"
    PROVE  op.order \in Orders /\ op.valid \in BOOLEAN
BY DEF TreasuryOps

\* What a treasury-only handler leaves well typed, and what it never writes.
LEMMA HandlerTyped ==
    ASSUME TypeOK, NEW op \in TreasuryOps, NEW R \in SUBSET Accounts, TreasuryHandler(op, R),
           nonce' \in [Accounts -> Nat]
    PROVE  /\ AccountsTypeOK' /\ MarketTypeOK' /\ BridgeTypeOK'
           /\ services' \subseteq Services /\ producers' \subseteq Producers
<1> USE AccountsOfUsers DEF TypeOK, registryVars
<1>1. CASE BridgeMint(op, R)
  <2>1. /\ op.lock \in EvmLocks /\ op.to \in Accounts
        /\ op.token \in AllTokens /\ op.amount \in Nat /\ op.amount \in Int
    BY <1>1, MintPayload DEF BridgeMint
  <2>2. balance' \in [Accounts -> Int]
    <3>1. Move(balance, rows', Treasury, op.to, op.amount) \in [Accounts -> Int]
      BY <2>1, MoveTyped DEF AccountsTypeOK
    <3>2. QED
      BY <1>1, <3>1 DEF BridgeMint, AccountsTypeOK
  <2>3. AccountsTypeOK'
    BY <1>1, <2>1, <2>2 DEF BridgeMint, AccountsTypeOK
  <2>4. tokens' \in [Accounts -> [Tokens -> Int]]
    BY <1>1, <2>1 DEF BridgeMint, BridgeTypeOK
  <2>5. [lock |-> op.lock, to |-> op.to, token |-> op.token, amount |-> op.amount] \in MintRow
    BY <2>1 DEF MintRow
  <2>6. BridgeTypeOK'
    BY <1>1, <2>4, <2>5 DEF BridgeMint, BridgeTypeOK
  <2>7. MarketTypeOK' /\ UNCHANGED registryVars
    BY <1>1 DEF BridgeMint, marketVars, MarketTypeOK
  <2>8. QED
    BY <2>3, <2>6, <2>7 DEF ControlTypeOK
<1>2. CASE RegisterAiService(op, R) \/ RegisterProducer(op, R)
  <2>1. AccountsTypeOK'
    BY <1>2 DEF RegisterAiService, RegisterProducer, AccountsTypeOK
  <2>2. MarketTypeOK' /\ BridgeTypeOK'
    BY <1>2 DEF RegisterAiService, RegisterProducer, marketVars, bridgeVars,
                MarketTypeOK, BridgeTypeOK
  <2>3. services' \subseteq Services /\ producers' \subseteq Producers
    BY <1>2 DEF RegisterAiService, RegisterProducer, TreasuryOps, ControlTypeOK
  <2>4. QED
    BY <2>1, <2>2, <2>3
<1>3. CASE FinalizeValid(op, R)
  <2> DEFINE ord == orders[op.order]
  <2>1. /\ op.order \in Orders /\ ord \in OrderRow
        /\ ord.seller \in Accounts /\ ord.amount \in Int
    BY <1>3, FinalizePayload DEF FinalizeValid, MarketTypeOK, OrderRow
  <2>2. balance' \in [Accounts -> Int]
    BY <1>3, <2>1, MoveTyped DEF FinalizeValid, AccountsTypeOK
  <2>3. AccountsTypeOK'
    BY <1>3, <2>2 DEF FinalizeValid, AccountsTypeOK
  <2>4. MarketTypeOK'
    <3>1. orders' \in [Orders -> OrderRow]
      <4>1. [orders EXCEPT ![op.order].status = Paid] \in [Orders -> OrderRow]
        BY <2>1, OrderStatusTyped, StatusesTyped
      <4>2. QED
        BY <1>3, <4>1 DEF FinalizeValid
    <3>2. QED
      BY <1>3, <3>1 DEF FinalizeValid, MarketTypeOK
  <2>5. BridgeTypeOK' /\ UNCHANGED registryVars
    BY <1>3 DEF FinalizeValid, bridgeVars, BridgeTypeOK
  <2>6. QED
    BY <2>3, <2>4, <2>5 DEF ControlTypeOK
<1>4. CASE FinalizeInvalid(op, R)
  <2> DEFINE ord == orders[op.order]
             b == Move(balance, R, Escrow, ord.buyer, ord.amount)
  <2>1. /\ op.order \in Orders /\ ord \in OrderRow
        /\ ord.seller \in Accounts /\ ord.buyer \in Accounts /\ ord.amount \in Int
    BY <1>4, FinalizePayload DEF FinalizeInvalid, MarketTypeOK, OrderRow
  <2>2. b \in [Accounts -> Int] /\ stake[ord.seller] \in Int
    <3> HIDE DEF ord
    <3>1. balance \in [Accounts -> Int]
      BY DEF AccountsTypeOK
    <3>2. b \in [Accounts -> Int]
      BY <2>1, <3>1, MoveTyped
    <3>3. QED
      BY <2>1, <3>2 DEF AccountsTypeOK
  <2>3. Add(b, R, Treasury, stake[ord.seller]) \in [Accounts -> Int]
    <3> HIDE DEF b, ord
    <3> QED BY <2>2, AddTyped
  <2>4. AccountsTypeOK'
    BY <1>4, <2>1, <2>3 DEF FinalizeInvalid, AccountsTypeOK
  <2>5. MarketTypeOK'
    <3>1. orders' \in [Orders -> OrderRow]
      <4>1. [orders EXCEPT ![op.order].status = Refunded] \in [Orders -> OrderRow]
        BY <2>1, OrderStatusTyped, StatusesTyped
      <4>2. QED
        BY <1>4, <4>1 DEF FinalizeInvalid
    <3>2. QED
      BY <1>4, <3>1 DEF FinalizeInvalid, MarketTypeOK
  <2>6. BridgeTypeOK' /\ UNCHANGED registryVars
    BY <1>4 DEF FinalizeInvalid, bridgeVars, BridgeTypeOK
  <2>7. QED
    BY <2>4, <2>5, <2>6 DEF ControlTypeOK
<1>5. QED
  BY <1>1, <1>2, <1>3, <1>4 DEF TreasuryHandler

LEMMA TreasuryTyped ==
    ASSUME TypeOK, TreasuryTx
    PROVE  TypeOK'
<1> USE AccountsOfUsers DEF TypeOK
<1>1. ASSUME NEW op \in TreasuryOps, DirectTreasuryTx(op)
      PROVE  TypeOK'
  <2>1. rows \cup {Treasury} \in SUBSET Accounts /\ nonce' \in [Accounts -> Nat]
    BY <1>1, NonceTyped DEF DirectTreasuryTx, AccountsTypeOK
  <2>2. TreasuryHandler(op, rows \cup {Treasury}) /\ UNCHANGED <<multisigVars, cosigned>>
    BY <1>1 DEF DirectTreasuryTx
  <2>3. QED
    BY <2>1, <2>2, HandlerTyped DEF multisigVars, ControlTypeOK
<1>2. ASSUME NEW S \in SignerSets, NEW m \in 1..Cardinality(S), RegisterTreasurySigners(S, m)
      PROVE  TypeOK'
  <2>1. S \subseteq Users /\ m \in Nat
    BY LedgerAssumption, FS_CardinalityType
  <2>2. AccountsTypeOK'
    BY <1>2, NonceTyped DEF RegisterTreasurySigners, AccountsTypeOK
  <2>3. MarketTypeOK' /\ BridgeTypeOK'
    BY <1>2 DEF RegisterTreasurySigners, marketVars, bridgeVars, MarketTypeOK, BridgeTypeOK
  <2>4. ControlTypeOK'
    BY <1>2, <2>1 DEF RegisterTreasurySigners, registryVars, ControlTypeOK
  <2>5. QED
    BY <2>2, <2>3, <2>4
<1>3. ASSUME NEW s \in Users, NEW op \in TreasuryOps, MultisigTx(s, op)
      PROVE  TypeOK'
  <2>1. rows \cup {s} \in SUBSET Accounts /\ nonce' \in [Accounts -> Nat]
    BY <1>3 DEF MultisigTx, AccountsTypeOK
  <2>2. TreasuryHandler(op, rows \cup {s}) /\ UNCHANGED <<multisigVars, cosigned>>
    BY <1>3 DEF MultisigTx
  <2>3. QED
    BY <2>1, <2>2, HandlerTyped DEF multisigVars, ControlTypeOK
<1>4. QED
  BY <1>1, <1>2, <1>3 DEF TreasuryTx

LEMMA CosignTyped ==
    ASSUME TypeOK, NEW u \in UNION SignerSets, NEW op \in TreasuryOps,
           NEW n \in 0..MaxNonce[Treasury], Cosign(u, op, n)
    PROVE  TypeOK'
<1>1. u \in Users /\ n \in Nat
  BY LedgerAssumption
<1>2. [op |-> op, nonce |-> n, by |-> u] \in Cosignature
  BY <1>1 DEF Cosignature
<1>3. AccountsTypeOK' /\ BridgeTypeOK'
  BY DEF Cosign, TypeOK, accountVars, bridgeVars, AccountsTypeOK, BridgeTypeOK
<1>4. MarketTypeOK'
  BY DEF Cosign, TypeOK, marketVars, MarketTypeOK
<1>5. ControlTypeOK'
  BY <1>2 DEF Cosign, TypeOK, registryVars, multisigVars, ControlTypeOK
<1>6. QED
  BY <1>3, <1>4, <1>5 DEF TypeOK

LEMMA InitTyped == Init => TypeOK
<1> SUFFICES ASSUME Init PROVE TypeOK
  OBVIOUS
<1> USE AccountsOfUsers DEF Init
<1>1. NoOrder \in OrderRow /\ NoJob \in JobRow
  BY DEF NoOrder, NoJob, OrderRow, JobRow
<1>2. MarketTypeOK
  BY <1>1 DEF MarketTypeOK
<1>3. AccountsTypeOK
  BY LedgerAssumption DEF AccountsTypeOK
<1>4. BridgeTypeOK
  BY DEF BridgeTypeOK
<1>5. ControlTypeOK
  BY DEF ControlTypeOK
<1>6. QED
  BY <1>2, <1>3, <1>4, <1>5 DEF TypeOK

LEMMA StepTyped ==
    ASSUME TypeOK, [Next]_vars
    PROVE  TypeOK'
<1>1. CASE UNCHANGED vars
  <2>1. AccountsTypeOK' /\ BridgeTypeOK'
    BY <1>1 DEF TypeOK, vars, accountVars, bridgeVars, AccountsTypeOK, BridgeTypeOK
  <2>2. MarketTypeOK'
    BY <1>1 DEF TypeOK, vars, marketVars, MarketTypeOK
  <2>3. ControlTypeOK'
    BY <1>1 DEF TypeOK, vars, registryVars, multisigVars, ControlTypeOK
  <2>4. QED
    BY <2>1, <2>2, <2>3 DEF TypeOK
<1>2. QED
  BY <1>1, MarketTyped, MoneyTyped, TreasuryTyped, CosignTyped DEF Next

\* Every table stays well typed under every transaction of every account.
THEOREM TypeCorrect == Spec => []TypeOK
BY InitTyped, StepTyped, PTL DEF Spec

-----------------------------------------------------------------------------
(***************************************************************************)
(* Slashing is final.  LockInv is the strengthening: a locked account has  *)
(* no stake left, and the escrow account, which has no key and so can never*)
(* submit a packing proof, is never the seller of an order that can be     *)
(* finalized and therefore never locked.                                   *)
(***************************************************************************)
LockInv ==
    /\ \A a \in Accounts : locked[a] => stake[a] = 0
    /\ ~locked[Escrow]
    /\ \A o \in Orders : orders[o].status \in {Packed, Opened} => orders[o].seller # Escrow

KeepsLocked(a) ==
    /\ locked'[a]
    /\ nonce'[a] = nonce[a]
    /\ balance'[a] >= balance[a]
    /\ stake[a] = 0 /\ stake'[a] = 0

\* Only the account an amount is taken from ends up with less.
LEMMA AddKeeps ==
    ASSUME NEW bal \in [Accounts -> Int], NEW R, NEW a \in Accounts, NEW x \in Accounts,
           NEW n \in Int, n >= 0 \/ a # x
    PROVE  Add(bal, R, a, n)[x] >= bal[x]
BY DEF Add

LEMMA MoveKeeps ==
    ASSUME NEW bal \in [Accounts -> Int], NEW R, NEW from \in Accounts, NEW to \in Accounts,
           NEW n \in Nat, NEW x \in Accounts, x # from
    PROVE  Move(bal, R, from, to, n)[x] >= bal[x]
<1> DEFINE b == Add(bal, R, from, -n)
<1>1. n \in Int /\ -n \in Int
  OBVIOUS
<1>2. b \in [Accounts -> Int] /\ b[x] >= bal[x]
  BY <1>1, AddTyped, AddKeeps
<1>3. Add(b, R, to, n)[x] >= b[x]
  <2> HIDE DEF b
  <2> QED BY <1>1, <1>2, AddKeeps
<1>4. Add(b, R, to, n) \in [Accounts -> Int]
  <2> HIDE DEF b
  <2> QED BY <1>1, <1>2, AddTyped
<1>5. QED
  BY <1>2, <1>3, <1>4 DEF Move

LEMMA SpendKeeps ==
    ASSUME TypeOK, NEW s \in Accounts, NEW x \in Accounts, x # s, Spend(s)
    PROVE  nonce'[x] = nonce[x]
BY DEF Spend, TypeOK, AccountsTypeOK

LEMMA MarketKeepsLocked ==
    ASSUME TypeOK, LockInv, NEW s \in Users, MarketTx(s),
           NEW x \in Accounts \ {Treasury}, locked[x]
    PROVE  KeepsLocked(x)
<1> USE AccountsOfUsers
<1>1. /\ UNCHANGED <<stake, locked>> /\ Spend(s) /\ ~locked[s]
  BY DEF MarketTx, RegisterContent, CreateOrder, SubmitProof, ViewRewardTx,
         PostJob, ClaimJob, SubmitWorkProof, Accepts
<1>2. x # s /\ x # Treasury /\ x # Escrow /\ stake[x] = 0 /\ x \in Accounts
  BY <1>1 DEF LockInv
<1>3. nonce'[x] = nonce[x]
  BY <1>1, <1>2, SpendKeeps
<1>4. balance \in [Accounts -> Int] /\ balance[x] >= balance[x]
  BY <1>2 DEF TypeOK, AccountsTypeOK
<1>5. ASSUME NEW o \in Orders, NEW c \in Contents, NEW seller \in Accounts,
             NEW v \in Values, CreateOrder(s, o, c, seller, v)
      PROVE  balance'[x] >= balance[x]
  <2> DEFINE b == Move(balance, rows', s, Treasury, Fee(v))
  <2>1. Fee(v) \in Nat /\ Fee(v) \in Int /\ v - Fee(v) \in Nat /\ v - Fee(v) \in Int
    BY FeeBounded, ValuesTyped
  <2>2. b \in [Accounts -> Int] /\ b[x] >= balance[x]
    BY <1>2, <1>4, <2>1, MoveTyped, MoveKeeps
  <2>3. Move(b, rows', s, Escrow, v - Fee(v))[x] >= b[x]
    <3> HIDE DEF b
    <3> QED BY <1>2, <2>1, <2>2, MoveKeeps
  <2>4. Move(b, rows', s, Escrow, v - Fee(v)) \in [Accounts -> Int]
    <3> HIDE DEF b
    <3> QED BY <2>1, <2>2, MoveTyped
  <2>5. balance' = Move(b, rows', s, Escrow, v - Fee(v))
    BY <1>5 DEF CreateOrder
  <2>6. QED
    <3> HIDE DEF b
    <3> QED BY <1>2, <1>4, <2>2, <2>3, <2>4, <2>5
<1>6. ASSUME NEW c \in Contents, NEW i \in Cells, ViewRewardTx(s, c, i)
      PROVE  balance'[x] >= balance[x]
  BY <1>2, <1>4, <1>6, MoveKeeps, LedgerAssumption DEF ViewRewardTx
<1>7. ASSUME NEW j \in Jobs, NEW c \in Contents, NEW v \in Values, PostJob(s, j, c, v)
      PROVE  balance'[x] >= balance[x]
  BY <1>2, <1>4, <1>7, MoveKeeps, ValuesTyped DEF PostJob
<1>8. ASSUME NEW j \in Jobs, SubmitWorkProof(s, j)
      PROVE  balance'[x] >= balance[x]
  <2>1. jobs[j].reward \in Nat
    BY DEF TypeOK, MarketTypeOK, JobRow
  <2>2. QED
    BY <1>2, <1>4, <1>8, <2>1, MoveKeeps DEF SubmitWorkProof
<1>9. balance'[x] >= balance[x]
  <2>1. balance' = balance => balance'[x] >= balance[x]
    BY <1>4
  <2>2. QED
    BY <1>5, <1>6, <1>7, <1>8, <2>1
       DEF MarketTx, RegisterContent, SubmitProof, ClaimJob
<1>10. QED
  BY <1>1, <1>2, <1>3, <1>9 DEF KeepsLocked

LEMMA MoneyKeepsLocked ==
    ASSUME TypeOK, LockInv, NEW s \in Users, MoneyTx(s),
           NEW x \in Accounts \ {Treasury}, locked[x]
    PROVE  KeepsLocked(x)
<1> USE AccountsOfUsers
<1>1. locked' = locked /\ Spend(s) /\ ~locked[s]
  BY DEF MoneyTx, Stake, Transfer, BridgeBurn, Accepts
<1>2. x # s /\ x # Treasury /\ stake[x] = 0 /\ x \in Accounts
  BY <1>1 DEF LockInv
<1>3. nonce'[x] = nonce[x]
  BY <1>1, <1>2, SpendKeeps
<1>4. balance \in [Accounts -> Int] /\ stake \in [Accounts -> Nat]
  BY DEF TypeOK, AccountsTypeOK
<1>5. ASSUME NEW v \in Values, Stake(s, v)
      PROVE  balance'[x] >= balance[x] /\ stake'[x] = 0
  BY <1>2, <1>4, <1>5, ValuesTyped DEF Stake, Add
<1>6. ASSUME NEW to \in Accounts, NEW v \in Values, Transfer(s, to, v)
      PROVE  balance'[x] >= balance[x] /\ stake'[x] = 0
  BY <1>2, <1>4, <1>6, MoveKeeps, ValuesTyped DEF Transfer
<1>7. ASSUME NEW t \in AllTokens, NEW v \in Values, BridgeBurn(s, t, v)
      PROVE  balance'[x] >= balance[x] /\ stake'[x] = 0
  <2>1. balance' = balance \/ balance' = Move(balance, rows', s, Treasury, v)
    BY <1>7 DEF BridgeBurn
  <2>2. v \in Nat
    BY ValuesTyped
  <2>3. Move(balance, rows', s, Treasury, v)[x] >= balance[x]
    BY <1>2, <1>4, <2>2, MoveKeeps
  <2>4. balance[x] >= balance[x]
    BY <1>2, <1>4
  <2>5. stake' = stake
    BY <1>7 DEF BridgeBurn
  <2>6. QED
    BY <1>2, <2>1, <2>3, <2>4, <2>5
<1>8. balance'[x] >= balance[x] /\ stake'[x] = 0
  BY <1>5, <1>6, <1>7 DEF MoneyTx
<1>9. QED
  BY <1>1, <1>2, <1>3, <1>8 DEF KeepsLocked

LEMMA HandlerKeepsLocked ==
    ASSUME TypeOK, LockInv, NEW op \in TreasuryOps, NEW R \in SUBSET Accounts,
           TreasuryHandler(op, R), NEW x \in Accounts \ {Treasury}, locked[x]
    PROVE  locked'[x] /\ balance'[x] >= balance[x] /\ stake[x] = 0 /\ stake'[x] = 0
<1> USE AccountsOfUsers
<1>1. x # Treasury /\ x # Escrow /\ stake[x] = 0 /\ x \in Accounts
  BY DEF LockInv
<1>2. /\ balance \in [Accounts -> Int] /\ stake \in [Accounts -> Nat]
      /\ locked \in [Accounts -> BOOLEAN] /\ balance[x] >= balance[x]
  BY <1>1 DEF TypeOK, AccountsTypeOK
<1>3. CASE BridgeMint(op, R)
  <2>1. op.to \in Accounts /\ op.amount \in Nat
    BY <1>3, MintPayload DEF BridgeMint
  <2>2. Move(balance, rows', Treasury, op.to, op.amount)[x] >= balance[x]
    BY <1>1, <1>2, <2>1, MoveKeeps
  <2>3. balance' = balance \/ balance' = Move(balance, rows', Treasury, op.to, op.amount)
    BY <1>3 DEF BridgeMint
  <2>4. UNCHANGED <<stake, locked>>
    BY <1>3 DEF BridgeMint
  <2>5. QED
    BY <1>1, <1>2, <2>2, <2>3, <2>4
<1>4. CASE RegisterAiService(op, R) \/ RegisterProducer(op, R)
  BY <1>1, <1>2, <1>4 DEF RegisterAiService, RegisterProducer
<1>5. CASE FinalizeValid(op, R)
  <2>1. op.order \in Orders /\ orders[op.order].seller \in Accounts
        /\ orders[op.order].amount \in Nat
    BY <1>5, FinalizePayload DEF FinalizeValid, TypeOK, MarketTypeOK, OrderRow
  <2>2. Move(balance, R, Escrow, orders[op.order].seller, orders[op.order].amount)[x]
          >= balance[x]
    BY <1>1, <1>2, <2>1, MoveKeeps
  <2>3. QED
    BY <1>1, <1>5, <2>2 DEF FinalizeValid
<1>6. CASE FinalizeInvalid(op, R)
  <2> DEFINE ord == orders[op.order]
             b == Move(balance, R, Escrow, ord.buyer, ord.amount)
  <2>1. /\ op.order \in Orders /\ ord.seller \in Accounts /\ ord.buyer \in Accounts
        /\ ord.amount \in Nat /\ ord.amount \in Int
    BY <1>6, FinalizePayload DEF FinalizeInvalid, TypeOK, MarketTypeOK, OrderRow
  <2>2. b \in [Accounts -> Int] /\ b[x] >= balance[x]
    <3> HIDE DEF ord
    <3> QED BY <1>1, <1>2, <2>1, MoveKeeps, MoveTyped
  <2>3. stake[ord.seller] \in Int
    BY <1>2, <2>1
  <2>4. Add(b, R, Treasury, stake[ord.seller]) \in [Accounts -> Int]
        /\ Add(b, R, Treasury, stake[ord.seller])[x] >= b[x]
    <3> HIDE DEF b, ord
    <3> QED BY <1>1, <2>2, <2>3, AddTyped, AddKeeps
  <2>5. balance' = Add(b, R, Treasury, stake[ord.seller])
    BY <1>6 DEF FinalizeInvalid
  <2>6. balance'[x] >= balance[x]
    <3> HIDE DEF b, ord
    <3> QED BY <1>1, <1>2, <2>2, <2>4, <2>5
  <2>7. stake'[x] = 0 /\ locked'[x]
    BY <1>1, <1>2, <1>6, <2>1 DEF FinalizeInvalid
  <2>8. QED
    BY <1>1, <2>6, <2>7
<1>7. QED
  BY <1>3, <1>4, <1>5, <1>6 DEF TreasuryHandler

LEMMA TreasuryKeepsLocked ==
    ASSUME TypeOK, LockInv, TreasuryTx, NEW x \in Accounts \ {Treasury}, locked[x]
    PROVE  KeepsLocked(x)
<1> USE AccountsOfUsers
<1>1. ASSUME NEW op \in TreasuryOps, DirectTreasuryTx(op)
      PROVE  KeepsLocked(x)
  <2>1. nonce'[x] = nonce[x]
    BY <1>1, SpendKeeps DEF DirectTreasuryTx
  <2>2. rows \cup {Treasury} \in SUBSET Accounts /\ TreasuryHandler(op, rows \cup {Treasury})
    BY <1>1 DEF DirectTreasuryTx, TypeOK, AccountsTypeOK
  <2>3. QED
    BY <2>1, <2>2, HandlerKeepsLocked DEF KeepsLocked
<1>2. ASSUME NEW S \in SignerSets, NEW m \in 1..Cardinality(S), RegisterTreasurySigners(S, m)
      PROVE  KeepsLocked(x)
  <2>1. nonce'[x] = nonce[x]
    BY <1>2, SpendKeeps DEF RegisterTreasurySigners
  <2>2. balance[x] >= balance[x] /\ stake[x] = 0
    BY DEF TypeOK, AccountsTypeOK, LockInv
  <2>3. QED
    BY <1>2, <2>1, <2>2 DEF RegisterTreasurySigners, KeepsLocked
<1>3. ASSUME NEW s \in Users, NEW op \in TreasuryOps, MultisigTx(s, op)
      PROVE  KeepsLocked(x)
  <2>1. nonce'[x] = nonce[x]
    BY <1>3 DEF MultisigTx, Accepts, TypeOK, AccountsTypeOK
  <2>2. rows \cup {s} \in SUBSET Accounts /\ TreasuryHandler(op, rows \cup {s})
    BY <1>3 DEF MultisigTx, TypeOK, AccountsTypeOK
  <2>3. QED
    BY <2>1, <2>2, HandlerKeepsLocked DEF KeepsLocked
<1>4. QED
  BY <1>1, <1>2, <1>3 DEF TreasuryTx

LEMMA StepKeepsLocked ==
    ASSUME TypeOK, LockInv, [Next]_vars, NEW x \in Accounts \ {Treasury}, locked[x]
    PROVE  KeepsLocked(x)
<1>1. ASSUME accountVars' = accountVars
      PROVE  KeepsLocked(x)
  BY <1>1 DEF accountVars, KeepsLocked, LockInv, TypeOK, AccountsTypeOK
<1>2. CASE UNCHANGED vars
  BY <1>1, <1>2 DEF vars
<1>3. QED
  BY <1>1, <1>2, MarketKeepsLocked, MoneyKeepsLocked, TreasuryKeepsLocked DEF Next, Cosign

LEMMA MarketLockInv ==
    ASSUME TypeOK, LockInv, NEW s \in Users, MarketTx(s)
    PROVE  LockInv'
<1>1. UNCHANGED <<stake, locked>>
  BY DEF MarketTx, RegisterContent, CreateOrder, SubmitProof, ViewRewardTx,
         PostJob, ClaimJob, SubmitWorkProof
<1>2. s # Escrow
  BY LedgerAssumption
<1>3. ASSUME NEW o \in Orders, orders'[o].status \in {Packed, Opened}
      PROVE  orders'[o].seller # Escrow
  <2>1. orders \in [Orders -> OrderRow]
    BY DEF TypeOK, MarketTypeOK
  <2>2. ASSUME NEW p \in Orders, NEW c \in Contents, NEW seller \in Accounts,
               NEW v \in Values, CreateOrder(s, p, c, seller, v)
        PROVE  orders'[o] = orders[o]
    <3>1. orders' = [orders EXCEPT ![p] =
             [status |-> Created, buyer |-> s, seller |-> seller, amount |-> v - Fee(v)]]
      BY <2>2 DEF CreateOrder
    <3>2. o # p
      BY <1>3, <2>1, <3>1 DEF Created, Packed, Opened
    <3>3. QED
      BY <2>1, <3>1, <3>2
  <2>3. ASSUME NEW p \in Orders, NEW role, SubmitProof(s, p, role)
        PROVE  /\ orders'[o].seller = orders[o].seller
               /\ orders'[o] # orders[o] =>
                    s = orders[o].seller \/ orders[o].status = Packed
    BY <2>1, <2>3 DEF SubmitProof, OrderRow
  <2>4. orders' = orders \/ (\E p \in Orders, c \in Contents, seller \in Accounts, v \in Values :
                                CreateOrder(s, p, c, seller, v))
                         \/ (\E p \in Orders, role \in {"packing", "opening"} : SubmitProof(s, p, role))
    BY DEF MarketTx, RegisterContent, ViewRewardTx, PostJob, ClaimJob, SubmitWorkProof
  <2>5. QED
    BY <1>2, <1>3, <2>2, <2>3, <2>4 DEF LockInv
<1>4. QED
  BY <1>1, <1>3 DEF LockInv

LEMMA MoneyLockInv ==
    ASSUME TypeOK, LockInv, NEW s \in Users, MoneyTx(s)
    PROVE  LockInv'
<1> USE AccountsOfUsers
<1>1. UNCHANGED <<locked, orders>> /\ ~locked[s]
  BY DEF MoneyTx, Stake, Transfer, BridgeBurn, Accepts, marketVars
<1>2. stake \in [Accounts -> Nat]
  BY DEF TypeOK, AccountsTypeOK
<1>3. stake' = stake \/ \E v \in Values : stake' = Add(stake, rows', s, v)
  BY DEF MoneyTx, Stake, Transfer, BridgeBurn
<1>4. ASSUME NEW a \in Accounts, locked[a]
      PROVE  stake'[a] = 0
  BY <1>1, <1>2, <1>3, <1>4 DEF LockInv, Add
<1>5. QED
  BY <1>1, <1>4 DEF LockInv

LEMMA HandlerLockInv ==
    ASSUME TypeOK, LockInv, NEW op \in TreasuryOps, NEW R \in SUBSET Accounts,
           TreasuryHandler(op, R)
    PROVE  LockInv'
<1> USE AccountsOfUsers
<1>1. orders \in [Orders -> OrderRow]
  BY DEF TypeOK, MarketTypeOK
<1>2. CASE UNCHANGED <<stake, locked, orders>>
  BY <1>2 DEF LockInv
<1>3. CASE FinalizeValid(op, R)
  <2>1. \A o \in Orders : orders'[o].status \in {Packed, Opened} => orders'[o] = orders[o]
    BY <1>1, <1>3 DEF FinalizeValid, Paid, Packed, Opened
  <2>2. QED
    BY <1>3, <2>1 DEF FinalizeValid, LockInv
<1>4. CASE FinalizeInvalid(op, R)
  <2>1. op.order \in Orders /\ orders[op.order].status = Opened
        /\ orders[op.order].seller \in Accounts
    BY <1>1, <1>4, FinalizePayload DEF FinalizeInvalid, OrderRow
  <2>2. orders[op.order].seller # Escrow
    BY <2>1 DEF LockInv
  <2>3. \A o \in Orders : orders'[o].status \in {Packed, Opened} => orders'[o] = orders[o]
    BY <1>1, <1>4 DEF FinalizeInvalid, Refunded, Packed, Opened
  <2>4. ~locked'[Escrow]
    BY <1>4, <2>1, <2>2 DEF FinalizeInvalid, LockInv, TypeOK, AccountsTypeOK
  <2>5. \A a \in Accounts : locked'[a] => stake'[a] = 0
    BY <1>4, <2>1 DEF FinalizeInvalid, LockInv, TypeOK, AccountsTypeOK
  <2>6. QED
    BY <2>3, <2>4, <2>5 DEF LockInv
<1>5. QED
  BY <1>2, <1>3, <1>4
     DEF TreasuryHandler, BridgeMint, RegisterAiService, RegisterProducer, marketVars

LEMMA StepLockInv ==
    ASSUME TypeOK, LockInv, [Next]_vars
    PROVE  LockInv'
<1>1. ASSUME UNCHANGED <<stake, locked, orders>>
      PROVE  LockInv'
  BY <1>1 DEF LockInv
<1>2. ASSUME NEW s \in Users, rows \cup {s} \subseteq Accounts
      PROVE  rows \cup {s} \in SUBSET Accounts
  BY <1>2
<1>3. rows \subseteq Accounts
  BY DEF TypeOK, AccountsTypeOK
<1>4. CASE TreasuryTx
  <2>1. ASSUME NEW op \in TreasuryOps, DirectTreasuryTx(op)
        PROVE  LockInv'
    BY <1>3, <2>1, AccountsOfUsers, HandlerLockInv DEF DirectTreasuryTx
  <2>2. ASSUME NEW s \in Users, NEW op \in TreasuryOps, MultisigTx(s, op)
        PROVE  LockInv'
    BY <1>3, <2>2, AccountsOfUsers, HandlerLockInv DEF MultisigTx
  <2>3. QED
    BY <1>1, <1>4, <2>1, <2>2 DEF TreasuryTx, RegisterTreasurySigners, marketVars
<1>5. QED
  BY <1>1, <1>4, MarketLockInv, MoneyLockInv
     DEF Next, Cosign, vars, accountVars, marketVars

LEMMA InitLockInv == Init => LockInv
BY AccountsOfUsers DEF Init, LockInv, NoOrder, Packed, Opened

\* A slashed account never acts, pays or stakes again, whatever the others do.
THEOREM LockedFinal == Spec => LockedIsFinal
<1>1. TypeOK /\ LockInv /\ [Next]_vars
        => [\A a \in Accounts \ {Treasury} : locked[a] => KeepsLocked(a)]_vars
  BY StepKeepsLocked
<1>2. Init => TypeOK /\ LockInv
  BY InitTyped, InitLockInv
<1>3. TypeOK /\ LockInv /\ [Next]_vars => (TypeOK /\ LockInv)'
  BY StepTyped, StepLockInv
<1>4. QED
  BY <1>1, <1>2, <1>3, PTL DEF Spec, LockedIsFinal, KeepsLocked

-----------------------------------------------------------------------------
(***************************************************************************)
(* Each EVM lock is minted once: an invariant that is inductive as it is.  *)
(***************************************************************************)
LEMMA StepMintOnce ==
    ASSUME MintOnce, [Next]_vars
    PROVE  MintOnce'
<1>1. ASSUME mints' = mints
      PROVE  MintOnce'
  BY <1>1 DEF MintOnce
<1>2. ASSUME NEW op, NEW R, BridgeMint(op, R)
      PROVE  MintOnce'
  <2> DEFINE new == [lock |-> op.lock, to |-> op.to, token |-> op.token, amount |-> op.amount]
  <2>1. mints' = mints \cup {new} /\ \A m \in mints : m.lock # op.lock
    BY <1>2 DEF BridgeMint
  <2>2. new.lock = op.lock
    OBVIOUS
  <2>3. QED
    <3> HIDE DEF new
    <3> QED BY <2>1, <2>2 DEF MintOnce
<1>3. ASSUME NEW op, NEW R, TreasuryHandler(op, R)
      PROVE  MintOnce'
  BY <1>1, <1>2, <1>3 DEF TreasuryHandler, RegisterAiService, RegisterProducer,
     FinalizeValid, FinalizeInvalid, bridgeVars
<1>4. ASSUME NEW s \in Users, MarketTx(s) \/ MoneyTx(s)
      PROVE  mints' = mints
  BY <1>4 DEF MarketTx, RegisterContent, CreateOrder, SubmitProof, ViewRewardTx,
     PostJob, ClaimJob, SubmitWorkProof, MoneyTx, Stake, Transfer, BridgeBurn, bridgeVars
<1>5. CASE TreasuryTx
  BY <1>1, <1>3, <1>5 DEF TreasuryTx, DirectTreasuryTx, MultisigTx,
     RegisterTreasurySigners, bridgeVars
<1>6. QED
  BY <1>1, <1>4, <1>5 DEF Next, Cosign, vars, bridgeVars

\* No lock of the EVM side is minted twice, whoever holds the treasury.
THEOREM MintedOnce == Spec => []MintOnce
<1>1. Init => MintOnce
  BY DEF Init, MintOnce
<1>2. QED
  BY <1>1, StepMintOnce, PTL DEF Spec

-----------------------------------------------------------------------------
(***************************************************************************)
(* Once the signer set is active every treasury-only effect is cosigned.   *)
(***************************************************************************)
CosignedStep ==
    enabled =>
      /\ enabled' /\ signers' = signers /\ threshold' = threshold
      /\ \A m \in mints' \ mints :
            Authorised([kind |-> "BRIDGE_MINT", lock |-> m.lock, to |-> m.to,
                        token |-> m.token, amount |-> m.amount])
      /\ \A k \in producers' \ producers :
            Authorised([kind |-> "REGISTER_PRODUCER", pubkey |-> k])
      /\ \A k \in services' \ services :
            Authorised([kind |-> "REGISTER_AI_SERVICE", pubkey |-> k])
      /\ \A o \in Orders : orders[o].status = Opened /\ orders'[o].status # Opened =>
            Authorised([kind |-> "FINALIZE", order |-> o,
                        valid |-> orders'[o].status = Paid])
      /\ TreasuryEffect => nonce'[Treasury] > nonce[Treasury]

\* A step that touches none of the treasury-only tables.
LEMMA NoEffect ==
    ASSUME UNCHANGED <<multisigVars, mints, registryVars>>,
           \A o \in Orders : orders[o].status = Opened => orders'[o] = orders[o]
    PROVE  CosignedStep
BY DEF multisigVars, registryVars, CosignedStep, TreasuryEffect

\* The record a handler's operation is: nothing but its kind and its payload.
LEMMA OperationIs ==
    ASSUME NEW op \in TreasuryOps
    PROVE  /\ op.kind = "BRIDGE_MINT" =>
                op = [kind |-> "BRIDGE_MINT", lock |-> op.lock, to |-> op.to,
                      token |-> op.token, amount |-> op.amount]
           /\ op.kind = "REGISTER_AI_SERVICE" =>
                op = [kind |-> "REGISTER_AI_SERVICE", pubkey |-> op.pubkey]
           /\ op.kind = "REGISTER_PRODUCER" =>
                op = [kind |-> "REGISTER_PRODUCER", pubkey |-> op.pubkey]
           /\ op.kind = "FINALIZE" =>
                op = [kind |-> "FINALIZE", order |-> op.order, valid |-> op.valid]
BY DEF TreasuryOps

LEMMA HandlerEffect ==
    ASSUME TypeOK, NEW op \in TreasuryOps, NEW R, TreasuryHandler(op, R)
    PROVE  /\ \A m \in mints' \ mints :
                op = [kind |-> "BRIDGE_MINT", lock |-> m.lock, to |-> m.to,
                      token |-> m.token, amount |-> m.amount]
           /\ \A k \in producers' \ producers :
                op = [kind |-> "REGISTER_PRODUCER", pubkey |-> k]
           /\ \A k \in services' \ services :
                op = [kind |-> "REGISTER_AI_SERVICE", pubkey |-> k]
           /\ \A o \in Orders : orders[o].status = Opened /\ orders'[o].status # Opened =>
                op = [kind |-> "FINALIZE", order |-> o, valid |-> orders'[o].status = Paid]
<1>1. CASE BridgeMint(op, R)
  <2> DEFINE new == [lock |-> op.lock, to |-> op.to, token |-> op.token, amount |-> op.amount]
  <2>1. mints' = mints \cup {new} /\ UNCHANGED <<orders, services, producers>>
    BY <1>1 DEF BridgeMint, marketVars, registryVars
  <2>2. op = [kind |-> "BRIDGE_MINT", lock |-> new.lock, to |-> new.to,
              token |-> new.token, amount |-> new.amount]
    BY <1>1, OperationIs DEF BridgeMint
  <2>3. QED
    <3> HIDE DEF new
    <3> QED BY <2>1, <2>2
<1>2. CASE RegisterAiService(op, R)
  BY <1>2, OperationIs DEF RegisterAiService, marketVars, bridgeVars
<1>3. CASE RegisterProducer(op, R)
  BY <1>3, OperationIs DEF RegisterProducer, marketVars, bridgeVars
<1>4. ASSUME FinalizeValid(op, R) \/ FinalizeInvalid(op, R)
      PROVE  /\ UNCHANGED <<mints, services, producers>>
             /\ \A o \in Orders : orders[o].status = Opened /\ orders'[o].status # Opened =>
                  op = [kind |-> "FINALIZE", order |-> o, valid |-> orders'[o].status = Paid]
  <2>1. op.kind = "FINALIZE" /\ op.order \in Orders /\ op.valid \in BOOLEAN
    BY <1>4, FinalizePayload DEF FinalizeValid, FinalizeInvalid
  <2>2. op = [kind |-> "FINALIZE", order |-> op.order, valid |-> op.valid]
    BY <2>1, OperationIs
  <2>3. orders' = [orders EXCEPT ![op.order].status = IF op.valid THEN Paid ELSE Refunded]
    BY <1>4 DEF FinalizeValid, FinalizeInvalid
  <2>4. orders \in [Orders -> OrderRow]
    BY DEF TypeOK, MarketTypeOK
  <2>5. /\ \A o \in Orders : o # op.order => orders'[o] = orders[o]
        /\ orders'[op.order].status = IF op.valid THEN Paid ELSE Refunded
    BY <2>1, <2>3, <2>4 DEF OrderRow
  <2>6. (orders'[op.order].status = Paid) = op.valid
    BY <2>1, <2>5 DEF Paid, Refunded
  <2>7. QED
    BY <1>4, <2>2, <2>5, <2>6 DEF FinalizeValid, FinalizeInvalid, bridgeVars, registryVars
<1>5. QED
  BY <1>1, <1>2, <1>3, <1>4 DEF TreasuryHandler

LEMMA StepCosigned ==
    ASSUME TypeOK, [Next]_vars
    PROVE  CosignedStep
<1>0. orders \in [Orders -> OrderRow]
  BY DEF TypeOK, MarketTypeOK
<1>1. ASSUME NEW s \in Users, MarketTx(s)
      PROVE  CosignedStep
  <2>1. UNCHANGED <<multisigVars, mints, registryVars>>
    BY <1>1 DEF MarketTx, RegisterContent, CreateOrder, SubmitProof, ViewRewardTx,
       PostJob, ClaimJob, SubmitWorkProof, bridgeVars
  <2>2. ASSUME NEW p \in Orders, NEW c \in Contents, NEW seller \in Accounts,
               NEW v \in Values, CreateOrder(s, p, c, seller, v), NEW o \in Orders,
               orders[o].status = Opened
        PROVE  orders'[o] = orders[o]
    BY <1>0, <2>2 DEF CreateOrder, Opened
  <2>3. ASSUME NEW p \in Orders, NEW role, SubmitProof(s, p, role), NEW o \in Orders,
               orders[o].status = Opened
        PROVE  orders'[o] = orders[o]
    BY <1>0, <2>3 DEF SubmitProof, Opened, Packed, Created
  <2>4. \A o \in Orders : orders[o].status = Opened => orders'[o] = orders[o]
    BY <1>1, <2>2, <2>3 DEF MarketTx, RegisterContent, ViewRewardTx, PostJob, ClaimJob,
       SubmitWorkProof
  <2>5. QED
    BY <2>1, <2>4, NoEffect
<1>2. ASSUME NEW s \in Users, MoneyTx(s)
      PROVE  CosignedStep
  BY <1>2, NoEffect DEF MoneyTx, Stake, Transfer, BridgeBurn, bridgeVars, marketVars
<1>3. CASE UNCHANGED vars \/ \E u, op, n : Cosign(u, op, n)
  BY <1>3, NoEffect DEF vars, Cosign, bridgeVars, marketVars
<1>4. ASSUME NEW s \in Users, NEW op \in TreasuryOps, MultisigTx(s, op)
      PROVE  CosignedStep
  <2>1. Authorised(op) /\ TreasuryHandler(op, rows \cup {s}) /\ UNCHANGED multisigVars
    BY <1>4 DEF MultisigTx, Authorised
  <2>2. nonce'[Treasury] > nonce[Treasury]
    BY <1>4, AccountsOfUsers DEF MultisigTx, TypeOK, AccountsTypeOK
  <2>3. QED
    BY <2>1, <2>2, HandlerEffect DEF CosignedStep, multisigVars
<1>5. CASE TreasuryTx
  BY <1>4, <1>5 DEF TreasuryTx, DirectTreasuryTx, RegisterTreasurySigners, CosignedStep
<1>6. QED
  BY <1>1, <1>2, <1>3, <1>5 DEF Next

\* With the signer set active, every mint, producer, AI service and settled
\* order was cosigned by a quorum for the nonce it uses up.
THEOREM MultisigAuthority == Spec => CosignedOnly
<1>1. TypeOK /\ [Next]_vars => [CosignedStep]_vars
  BY StepCosigned
<1>2. QED
  BY <1>1, TypeCorrect, PTL DEF Spec, CosignedOnly, CosignedStep

-----------------------------------------------------------------------------
(***************************************************************************)
(* Burn ids are unique because a burn is keyed by a nonce already used.    *)
(***************************************************************************)
LEMMA NonceGrows ==
    ASSUME TypeOK, [Next]_vars, NEW a \in Accounts
    PROVE  nonce'[a] >= nonce[a]
<1>1. nonce \in [Accounts -> Nat] /\ nonce[a] \in Nat
  BY DEF TypeOK, AccountsTypeOK
<1>2. nonce' = nonce
        \/ (\E s \in Accounts : Spend(s))
        \/ (\E s \in Accounts : nonce' = [nonce EXCEPT ![Treasury] = @ + 1, ![s] = @ + 1])
  <2>1. ASSUME NEW s \in Users, MarketTx(s) \/ MoneyTx(s)
        PROVE  Spend(s)
    BY <2>1 DEF MarketTx, RegisterContent, CreateOrder, SubmitProof, ViewRewardTx,
       PostJob, ClaimJob, SubmitWorkProof, MoneyTx, Stake, Transfer, BridgeBurn
  <2>2. ASSUME TreasuryTx
        PROVE  \/ Spend(Treasury)
               \/ \E s \in Users : nonce' = [nonce EXCEPT ![Treasury] = @ + 1, ![s] = @ + 1]
    BY <2>2 DEF TreasuryTx, DirectTreasuryTx, MultisigTx, RegisterTreasurySigners
  <2>3. ASSUME UNCHANGED vars \/ \E u, op, n : Cosign(u, op, n)
        PROVE  nonce' = nonce
    BY <2>3 DEF vars, Cosign, accountVars
  <2>4. QED
    BY <2>1, <2>2, <2>3, AccountsOfUsers DEF Next
<1>3. QED
  BY <1>1, <1>2, AccountsOfUsers DEF Spend

LEMMA StepBurnIds ==
    ASSUME TypeOK, BurnIdsUnique, [Next]_vars
    PROVE  BurnIdsUnique'
<1> USE AccountsOfUsers
<1>1. \A b \in burns : b.burner \in Accounts /\ b.nonce \in Nat /\ nonce[b.burner] \in Nat
                       /\ nonce'[b.burner] \in Nat
  BY StepTyped DEF TypeOK, BridgeTypeOK, BurnRow, AccountsTypeOK
<1>2. \A b \in burns : b.nonce < nonce'[b.burner]
  BY <1>1, NonceGrows DEF BurnIdsUnique
<1>3. ASSUME burns' = burns
      PROVE  BurnIdsUnique'
  BY <1>2, <1>3 DEF BurnIdsUnique
<1>4. ASSUME NEW s \in Users, NEW t \in AllTokens, NEW v \in Values, BridgeBurn(s, t, v)
      PROVE  BurnIdsUnique'
  <2> DEFINE new == [burner |-> s, nonce |-> nonce[s], token |-> t, amount |-> v]
  <2>1. burns' = burns \cup {new} /\ Spend(s)
    BY <1>4 DEF BridgeBurn
  <2>2. nonce'[s] = nonce[s] + 1 /\ nonce[s] \in Nat
    BY <2>1 DEF Spend, TypeOK, AccountsTypeOK
  <2>3. new.burner = s /\ new.nonce = nonce[s]
    OBVIOUS
  <2>4. \A b \in burns : b.burner = s => b.nonce < nonce[s]
    BY DEF BurnIdsUnique
  <2>5. \A b \in burns : b.burner = s => b.nonce # nonce[s]
    BY <1>1, <2>2, <2>4
  <2>6. QED
    <3> HIDE DEF new
    <3>1. \A b \in burns' : b.nonce < nonce'[b.burner]
      BY <1>2, <2>1, <2>2, <2>3
    <3>2. \A b, d \in burns' : b.burner = d.burner /\ b.nonce = d.nonce => b = d
      BY <2>1, <2>3, <2>5 DEF BurnIdsUnique
    <3>3. QED
      BY <3>1, <3>2 DEF BurnIdsUnique
<1>5. burns' = burns
        \/ \E s \in Users, t \in AllTokens, v \in Values : BridgeBurn(s, t, v)
  <2>1. ASSUME NEW s \in Users, MarketTx(s) \/ MoneyTx(s)
        PROVE  burns' = burns
                 \/ \E t \in AllTokens, v \in Values : BridgeBurn(s, t, v)
    BY <2>1 DEF MarketTx, RegisterContent, CreateOrder, SubmitProof, ViewRewardTx,
       PostJob, ClaimJob, SubmitWorkProof, MoneyTx, Stake, Transfer, bridgeVars
  <2>2. ASSUME NEW op, NEW R, TreasuryHandler(op, R)
        PROVE  burns' = burns
    BY <2>2 DEF TreasuryHandler, BridgeMint, RegisterAiService, RegisterProducer,
       FinalizeValid, FinalizeInvalid, bridgeVars
  <2>3. ASSUME TreasuryTx
        PROVE  burns' = burns
    BY <2>2, <2>3 DEF TreasuryTx, DirectTreasuryTx, MultisigTx, RegisterTreasurySigners,
       bridgeVars
  <2>4. ASSUME UNCHANGED vars \/ \E u, op, n : Cosign(u, op, n)
        PROVE  burns' = burns
    BY <2>4 DEF vars, Cosign, bridgeVars
  <2>5. QED
    BY <2>1, <2>3, <2>4 DEF Next
<1>6. QED
  BY <1>3, <1>4, <1>5

\* No two burns share the id under which the EVM side pays.
THEOREM BurnsDistinct == Spec => []BurnIdsUnique
<1>1. Init => BurnIdsUnique
  BY DEF Init, BurnIdsUnique
<1>2. TypeOK /\ BurnIdsUnique /\ [Next]_vars => BurnIdsUnique'
  BY StepBurnIds
<1>3. QED
  BY <1>1, <1>2, TypeCorrect, PTL DEF Spec

-----------------------------------------------------------------------------
(***************************************************************************)
(* The strengthening: the treasury always has a row; once an order or a    *)
(* job exists the escrow account and the order's two parties have one too, *)
(* so that debiting and crediting them takes effect, and the escrow        *)
(* account itself is never the buyer who is refunded.                      *)
(***************************************************************************)
EscrowInv ==
    /\ Treasury \in rows
    /\ \A o \in Orders : orders[o].status # 0 =>
         /\ {Escrow, orders[o].buyer, orders[o].seller} \subseteq rows
         /\ orders[o].buyer # Escrow
    /\ \A j \in Jobs : jobs[j].status # 0 => Escrow \in rows

-----------------------------------------------------------------------------
(* What a move of money does to the vault.                                  *)

LEMMA VaultCredit ==
    ASSUME NEW bal \in [Accounts -> Int], NEW R, Escrow \in R,
           NEW from \in Accounts \ {Escrow}, NEW n \in Int
    PROVE  Move(bal, R, from, Escrow, n)[Escrow] = bal[Escrow] + n
<1> DEFINE b == Add(bal, R, from, -n)
<1>1. b \in [Accounts -> Int] /\ b[Escrow] = bal[Escrow]
  BY AccountsOfUsers DEF Add
<1>2. Add(b, R, Escrow, n)[Escrow] = b[Escrow] + n
  <2> HIDE DEF b
  <2> QED BY <1>1, AccountsOfUsers DEF Add
<1>3. QED
  <2> HIDE DEF b
  <2> QED BY <1>1, <1>2 DEF Move, b

LEMMA VaultDebit ==
    ASSUME NEW bal \in [Accounts -> Int], NEW R, Escrow \in R,
           NEW to \in Accounts \ {Escrow}, NEW n \in Int
    PROVE  Move(bal, R, Escrow, to, n)[Escrow] = bal[Escrow] - n
<1> DEFINE b == Add(bal, R, Escrow, -n)
<1>1. b \in [Accounts -> Int] /\ b[Escrow] = bal[Escrow] - n
  BY AccountsOfUsers DEF Add
<1>2. Add(b, R, to, n)[Escrow] = b[Escrow]
  <2> HIDE DEF b
  <2> QED BY <1>1, AccountsOfUsers DEF Add
<1>3. QED
  <2> HIDE DEF b
  <2> QED BY <1>1, <1>2 DEF Move, b

-----------------------------------------------------------------------------
(* What a change of one order or one job does to the deals.                 *)

LEMMA HeldTyped ==
    ASSUME TypeOK
    PROVE  /\ \A o \in Orders : held[<<"order", o>>] = OrderDeal(o) /\ <<"order", o>> \in LedgerDeals
           /\ \A j \in Jobs : held[<<"job", j>>] = JobDeal(j) /\ <<"job", j>> \in LedgerDeals
BY DEF held, LedgerDeals

LEMMA HeldSame ==
    ASSUME \A o \in Orders : OrderDeal(o)' = OrderDeal(o),
           \A j \in Jobs : JobDeal(j)' = JobDeal(j)
    PROVE  held' = held
BY DEF held, LedgerDeals

LEMMA HeldOrder ==
    ASSUME NEW o \in Orders, UNCHANGED jobs,
           \A p \in Orders \ {o} : orders'[p] = orders[p]
    PROVE  held' = [held EXCEPT ![<<"order", o>>] = OrderDeal(o)']
<1>1. \A p \in Orders \ {o} : OrderDeal(p)' = OrderDeal(p)
  BY DEF OrderDeal
<1>2. \A j \in Jobs : JobDeal(j)' = JobDeal(j)
  BY DEF JobDeal
<1> DEFINE new == [held EXCEPT ![<<"order", o>>] = OrderDeal(o)']
<1>3. held' = [d \in LedgerDeals |-> held'[d]] /\ new = [d \in LedgerDeals |-> new[d]]
  BY DEF held
<1>4. ASSUME NEW d \in LedgerDeals
      PROVE  held'[d] = new[d]
  <2>1. CASE d \in {"job"} \X Jobs
    BY <1>2, <2>1 DEF held, LedgerDeals
  <2>2. CASE d \in {"order"} \X Orders
    <3>1. PICK p \in Orders : d = <<"order", p>>
      BY <2>2
    <3>2. held'[d] = OrderDeal(p)' /\ held[d] = OrderDeal(p)
      BY <3>1 DEF held, LedgerDeals
    <3>3. p = o => new[d] = OrderDeal(o)'
      BY <3>1 DEF held
    <3>4. p # o => new[d] = held[d]
      BY <3>1 DEF held
    <3>5. QED
      BY <1>1, <3>2, <3>3, <3>4
  <2>3. QED
    BY <2>1, <2>2 DEF LedgerDeals
<1>5. QED
  BY <1>3, <1>4

LEMMA HeldJob ==
    ASSUME NEW j \in Jobs, UNCHANGED orders,
           \A p \in Jobs \ {j} : jobs'[p] = jobs[p]
    PROVE  held' = [held EXCEPT ![<<"job", j>>] = JobDeal(j)']
<1>1. \A p \in Jobs \ {j} : JobDeal(p)' = JobDeal(p)
  BY DEF JobDeal
<1>2. \A o \in Orders : OrderDeal(o)' = OrderDeal(o)
  BY DEF OrderDeal
<1> DEFINE new == [held EXCEPT ![<<"job", j>>] = JobDeal(j)']
<1>3. held' = [d \in LedgerDeals |-> held'[d]] /\ new = [d \in LedgerDeals |-> new[d]]
  BY DEF held
<1>4. ASSUME NEW d \in LedgerDeals
      PROVE  held'[d] = new[d]
  <2>1. CASE d \in {"order"} \X Orders
    BY <1>2, <2>1 DEF held, LedgerDeals
  <2>2. CASE d \in {"job"} \X Jobs
    <3>1. PICK p \in Jobs : d = <<"job", p>>
      BY <2>2
    <3>2. held'[d] = JobDeal(p)' /\ held[d] = JobDeal(p)
      BY <3>1 DEF held, LedgerDeals
    <3>3. p = j => new[d] = JobDeal(j)'
      BY <3>1 DEF held
    <3>4. p # j => new[d] = held[d]
      BY <3>1 DEF held
    <3>5. QED
      BY <1>1, <3>2, <3>3, <3>4
  <2>3. QED
    BY <2>1, <2>2 DEF LedgerDeals
<1>5. QED
  BY <1>3, <1>4

-----------------------------------------------------------------------------
(* The four steps that open or release a deal.                              *)

LEMMA CreateOrderOpens ==
    ASSUME TypeOK, NEW s \in Users, NEW o \in Orders, NEW c \in Contents,
           NEW seller \in Accounts, NEW v \in Values, CreateOrder(s, o, c, seller, v)
    PROVE  Vault!Open(<<"order", o>>)
<1> USE AccountsOfUsers
<1> DEFINE amt == v - Fee(v)
           b == Move(balance, rows', s, Treasury, Fee(v))
           d == <<"order", o>>
<1>1. Fee(v) \in Nat /\ Fee(v) \in Int /\ amt \in Nat /\ amt \in Int
  BY FeeBounded, ValuesTyped
<1>2. s # Escrow /\ Treasury # Escrow /\ Escrow \in rows' /\ balance \in [Accounts -> Int]
  BY LedgerAssumption DEF CreateOrder, TypeOK, AccountsTypeOK
<1>3. b \in [Accounts -> Int] /\ b[Escrow] = balance[Escrow]
  <2> DEFINE b1 == Add(balance, rows', s, -Fee(v))
  <2>1. b1 \in [Accounts -> Int] /\ b1[Escrow] = balance[Escrow]
    BY <1>1, <1>2 DEF Add
  <2>2. Add(b1, rows', Treasury, Fee(v)) \in [Accounts -> Int]
        /\ Add(b1, rows', Treasury, Fee(v))[Escrow] = b1[Escrow]
    <3> HIDE DEF b1
    <3> QED BY <1>1, <1>2, <2>1 DEF Add
  <2>3. QED
    <3> HIDE DEF b1
    <3> QED BY <2>1, <2>2 DEF Move, b1
<1>4. balance'[Escrow] = balance[Escrow] + amt
  <2>1. balance' = Move(b, rows', s, Escrow, amt)
    BY DEF CreateOrder
  <2>2. QED
    <3> HIDE DEF b, amt
    <3> QED BY <1>1, <1>2, <1>3, <2>1, VaultCredit
<1>5. OrderDeal(o).phase = "none"
  BY DEF CreateOrder, OrderDeal
<1>6. OrderDeal(o)' = [phase |-> "held", amount |-> amt]
  BY DEF CreateOrder, OrderDeal, Created, TypeOK, MarketTypeOK
<1>7. held' = [held EXCEPT ![d] = OrderDeal(o)']
  <2>1. UNCHANGED jobs /\ \A p \in Orders \ {o} : orders'[p] = orders[p]
    BY DEF CreateOrder, TypeOK, MarketTypeOK
  <2>2. QED
    BY <2>1, HeldOrder
<1>8. held[d].phase = "none" /\ d \in DOMAIN held
  BY <1>5, HeldTyped DEF held
<1>9. held'[d] = [phase |-> "held", amount |-> amt]
  BY <1>6, <1>7, <1>8
<1>10. held'[d].amount = amt
  BY <1>9
<1>11. held' = [held EXCEPT ![d] = [phase |-> "held", amount |-> held'[d].amount]]
  BY <1>6, <1>7, <1>10
<1>12. balance'[Escrow] = balance[Escrow] + held'[d].amount /\ held'[d].amount \in Nat
  BY <1>1, <1>4, <1>10
<1>13. QED
  BY <1>8, <1>11, <1>12 DEF Vault!Open

LEMMA PostJobOpens ==
    ASSUME TypeOK, NEW s \in Users, NEW j \in Jobs, NEW c \in Contents, NEW v \in Values,
           PostJob(s, j, c, v)
    PROVE  Vault!Open(<<"job", j>>)
<1> USE AccountsOfUsers
<1> DEFINE d == <<"job", j>>
<1>1. v \in Nat /\ v \in Int
  BY ValuesTyped
<1>2. s # Escrow /\ Escrow \in rows' /\ balance \in [Accounts -> Int]
  BY LedgerAssumption DEF PostJob, TypeOK, AccountsTypeOK
<1>3. balance'[Escrow] = balance[Escrow] + v
  BY <1>1, <1>2, VaultCredit DEF PostJob
<1>4. JobDeal(j).phase = "none"
  BY DEF PostJob, JobDeal
<1>5. JobDeal(j)' = [phase |-> "held", amount |-> v]
  BY DEF PostJob, JobDeal, Posted, TypeOK, MarketTypeOK
<1>6. held' = [held EXCEPT ![d] = JobDeal(j)']
  <2>1. UNCHANGED orders /\ \A p \in Jobs \ {j} : jobs'[p] = jobs[p]
    BY DEF PostJob, TypeOK, MarketTypeOK
  <2>2. QED
    BY <2>1, HeldJob
<1>7. held[d].phase = "none" /\ d \in DOMAIN held
  BY <1>4, HeldTyped DEF held
<1>8. held'[d] = [phase |-> "held", amount |-> v]
  BY <1>5, <1>6, <1>7
<1>9. held'[d].amount = v
  BY <1>8
<1>10. held' = [held EXCEPT ![d] = [phase |-> "held", amount |-> held'[d].amount]]
  BY <1>5, <1>6, <1>9
<1>11. balance'[Escrow] = balance[Escrow] + held'[d].amount /\ held'[d].amount \in Nat
  BY <1>1, <1>3, <1>9
<1>12. QED
  BY <1>7, <1>10, <1>11 DEF Vault!Open

LEMMA WorkProofReleases ==
    ASSUME TypeOK, EscrowInv, NEW s \in Users, NEW j \in Jobs, SubmitWorkProof(s, j)
    PROVE  Vault!Release(<<"job", j>>)
<1> USE AccountsOfUsers
<1> DEFINE d == <<"job", j>>
<1>1. jobs \in [Jobs -> JobRow] /\ jobs[j].reward \in Nat /\ jobs[j].reward \in Int
  BY DEF TypeOK, MarketTypeOK, JobRow
<1>2. s # Escrow /\ Escrow \in rows' /\ balance \in [Accounts -> Int]
  BY LedgerAssumption DEF SubmitWorkProof, EscrowInv, Claimed, TypeOK, AccountsTypeOK
<1>3. balance'[Escrow] = balance[Escrow] - jobs[j].reward
  BY <1>1, <1>2, VaultDebit DEF SubmitWorkProof
<1>4. JobDeal(j) = [phase |-> "held", amount |-> jobs[j].reward]
  BY DEF SubmitWorkProof, JobDeal, Claimed
<1>5. JobDeal(j)' = [phase |-> "released", amount |-> jobs[j].reward]
  BY <1>1 DEF SubmitWorkProof, JobDeal, Posted, Claimed, Done, JobRow
<1>6. held' = [held EXCEPT ![d] = JobDeal(j)']
  <2>1. UNCHANGED orders /\ \A p \in Jobs \ {j} : jobs'[p] = jobs[p]
    BY <1>1 DEF SubmitWorkProof
  <2>2. QED
    BY <2>1, HeldJob
<1>7. held[d] = [phase |-> "held", amount |-> jobs[j].reward]
  BY <1>4, HeldTyped
<1>8. [held[d] EXCEPT !.phase = "released"] = JobDeal(j)'
  BY <1>5, <1>7
<1>9. held' = [held EXCEPT ![d] = [held[d] EXCEPT !.phase = "released"]]
  BY <1>6, <1>8
<1>10. held[d].phase = "held" /\ balance'[Escrow] = balance[Escrow] - held[d].amount
  BY <1>3, <1>7
<1>11. QED
  BY <1>9, <1>10 DEF Vault!Release

LEMMA FinalizeReleases ==
    ASSUME TypeOK, LockInv, EscrowInv, NEW op \in TreasuryOps, NEW R \in SUBSET Accounts,
           rows \subseteq R, FinalizeValid(op, R) \/ FinalizeInvalid(op, R)
    PROVE  Vault!Release(<<"order", op.order>>)
<1> USE AccountsOfUsers
<1> DEFINE o == op.order
           ord == orders[o]
           d == <<"order", o>>
<1>1. /\ o \in Orders /\ orders \in [Orders -> OrderRow] /\ ord.status = Opened
      /\ ord.seller \in Accounts /\ ord.buyer \in Accounts
      /\ ord.amount \in Nat /\ ord.amount \in Int
  BY FinalizePayload DEF FinalizeValid, FinalizeInvalid, TypeOK, MarketTypeOK, OrderRow
<1>2. /\ Escrow \in R /\ ord.buyer # Escrow /\ ord.seller # Escrow /\ Treasury # Escrow
      /\ balance \in [Accounts -> Int] /\ stake \in [Accounts -> Nat]
  BY <1>1, LedgerAssumption DEF EscrowInv, LockInv, Opened, TypeOK, AccountsTypeOK
<1>4. balance'[Escrow] = balance[Escrow] - ord.amount
  <2>1. CASE FinalizeValid(op, R)
    <3>1. balance' = Move(balance, R, Escrow, ord.seller, ord.amount)
      BY <2>1 DEF FinalizeValid
    <3>2. QED
      <4> HIDE DEF ord
      <4> QED BY <1>1, <1>2, <3>1, VaultDebit
  <2>2. CASE FinalizeInvalid(op, R)
    <3> DEFINE b == Move(balance, R, Escrow, ord.buyer, ord.amount)
    <3>1. balance' = Add(b, R, Treasury, stake[ord.seller])
      BY <2>2 DEF FinalizeInvalid
    <3>2. b \in [Accounts -> Int] /\ b[Escrow] = balance[Escrow] - ord.amount
      <4> HIDE DEF ord
      <4> QED BY <1>1, <1>2, VaultDebit, MoveTyped
    <3>3. stake[ord.seller] \in Int
      BY <1>1, <1>2
    <3>4. Add(b, R, Treasury, stake[ord.seller])[Escrow] = b[Escrow]
      <4> HIDE DEF b, ord
      <4> QED BY <1>2, <3>2, <3>3 DEF Add
    <3>5. QED
      <4> HIDE DEF b, ord
      <4> QED BY <3>1, <3>2, <3>4
  <2>3. QED
    BY <2>1, <2>2
<1>5. OrderDeal(o) = [phase |-> "held", amount |-> ord.amount]
  BY <1>1 DEF OrderDeal, Opened, Created, Packed
<1>6. /\ orders'[o].status \in {Paid, Refunded} /\ orders'[o].amount = ord.amount
      /\ \A p \in Orders \ {o} : orders'[p] = orders[p]
      /\ UNCHANGED jobs
  BY <1>1 DEF FinalizeValid, FinalizeInvalid, OrderRow
<1>7. OrderDeal(o)' = [phase |-> "released", amount |-> ord.amount]
  BY <1>6 DEF OrderDeal, Opened, Created, Packed, Paid, Refunded
<1>8. held' = [held EXCEPT ![d] = OrderDeal(o)']
  BY <1>1, <1>6, HeldOrder
<1>9. held[d] = [phase |-> "held", amount |-> ord.amount]
  BY <1>1, <1>5, HeldTyped
<1>10. [held[d] EXCEPT !.phase = "released"] = OrderDeal(o)'
  BY <1>7, <1>9
<1>11. held' = [held EXCEPT ![d] = [held[d] EXCEPT !.phase = "released"]]
  BY <1>8, <1>10
<1>12. held[d].phase = "held" /\ balance'[Escrow] = balance[Escrow] - held[d].amount
  BY <1>4, <1>9
<1>13. QED
  BY <1>11, <1>12 DEF Vault!Release

-----------------------------------------------------------------------------
(* Every other step leaves the deals alone and takes nothing from the vault.*)

LEMMA DealsKept ==
    ASSUME UNCHANGED <<orders, jobs>>, balance'[Escrow] >= balance[Escrow]
    PROVE  Vault!Next
<1>1. held' = held
  BY HeldSame DEF OrderDeal, JobDeal
<1>2. QED
  BY <1>1 DEF Vault!Next, Vault!Deposit

LEMMA MarketVault ==
    ASSUME TypeOK, EscrowInv, NEW s \in Users, MarketTx(s)
    PROVE  Vault!Next
<1> USE AccountsOfUsers
<1>1. balance \in [Accounts -> Int] /\ balance[Escrow] >= balance[Escrow]
  BY DEF TypeOK, AccountsTypeOK
<1>2. ASSUME NEW c \in Contents, NEW g, NEW k, RegisterContent(s, c, g, k)
      PROVE  Vault!Next
  BY <1>1, <1>2, DealsKept DEF RegisterContent
<1>3. ASSUME NEW o \in Orders, NEW c \in Contents, NEW seller \in Accounts,
             NEW v \in Values, CreateOrder(s, o, c, seller, v)
      PROVE  Vault!Next
  BY <1>3, CreateOrderOpens DEF Vault!Next, LedgerDeals
<1>4. ASSUME NEW o \in Orders, NEW role, SubmitProof(s, o, role)
      PROVE  Vault!Next
  <2>1. \A p \in Orders : OrderDeal(p)' = OrderDeal(p)
    BY <1>4 DEF SubmitProof, OrderDeal, Created, Packed, Opened, TypeOK, MarketTypeOK, OrderRow
  <2>2. \A j \in Jobs : JobDeal(j)' = JobDeal(j)
    BY <1>4 DEF SubmitProof, JobDeal
  <2>3. held' = held
    BY <2>1, <2>2, HeldSame
  <2>4. QED
    BY <1>1, <1>4, <2>3 DEF SubmitProof, Vault!Next, Vault!Deposit
<1>5. ASSUME NEW c \in Contents, NEW i \in Cells, ViewRewardTx(s, c, i)
      PROVE  Vault!Next
  <2>1. Treasury # Escrow /\ ViewReward \in Nat
    BY LedgerAssumption
  <2>2. balance'[Escrow] >= balance[Escrow]
    BY <1>1, <1>5, <2>1, MoveKeeps DEF ViewRewardTx
  <2>3. QED
    BY <1>5, <2>2, DealsKept DEF ViewRewardTx
<1>6. ASSUME NEW j \in Jobs, NEW c \in Contents, NEW v \in Values, PostJob(s, j, c, v)
      PROVE  Vault!Next
  BY <1>6, PostJobOpens DEF Vault!Next, LedgerDeals
<1>7. ASSUME NEW j \in Jobs, ClaimJob(s, j)
      PROVE  Vault!Next
  <2>1. \A p \in Jobs : JobDeal(p)' = JobDeal(p)
    BY <1>7 DEF ClaimJob, JobDeal, Posted, Claimed, TypeOK, MarketTypeOK, JobRow
  <2>2. \A o \in Orders : OrderDeal(o)' = OrderDeal(o)
    BY <1>7 DEF ClaimJob, OrderDeal
  <2>3. held' = held
    BY <2>1, <2>2, HeldSame
  <2>4. QED
    BY <1>1, <1>7, <2>3 DEF ClaimJob, Vault!Next, Vault!Deposit
<1>8. ASSUME NEW j \in Jobs, SubmitWorkProof(s, j)
      PROVE  Vault!Next
  BY <1>8, WorkProofReleases DEF Vault!Next, LedgerDeals
<1>9. QED
  BY <1>2, <1>3, <1>4, <1>5, <1>6, <1>7, <1>8 DEF MarketTx

LEMMA MoneyVault ==
    ASSUME TypeOK, NEW s \in Users, MoneyTx(s)
    PROVE  Vault!Next
<1> USE AccountsOfUsers
<1>1. balance \in [Accounts -> Int] /\ balance[Escrow] >= balance[Escrow] /\ s # Escrow
  BY LedgerAssumption DEF TypeOK, AccountsTypeOK
<1>2. ASSUME NEW v \in Values, Stake(s, v)
      PROVE  balance'[Escrow] >= balance[Escrow]
  BY <1>1, <1>2, ValuesTyped DEF Stake, Add
<1>3. ASSUME NEW to \in Accounts, NEW v \in Values, Transfer(s, to, v)
      PROVE  balance'[Escrow] >= balance[Escrow]
  BY <1>1, <1>3, ValuesTyped, MoveKeeps DEF Transfer
<1>4. ASSUME NEW t \in AllTokens, NEW v \in Values, BridgeBurn(s, t, v)
      PROVE  balance'[Escrow] >= balance[Escrow]
  BY <1>1, <1>4, ValuesTyped, MoveKeeps DEF BridgeBurn
<1>5. balance'[Escrow] >= balance[Escrow]
  BY <1>2, <1>3, <1>4 DEF MoneyTx
<1>6. UNCHANGED <<orders, jobs>>
  BY DEF MoneyTx, Stake, Transfer, BridgeBurn, marketVars
<1>7. QED
  BY <1>5, <1>6, DealsKept

LEMMA HandlerVault ==
    ASSUME TypeOK, LockInv, EscrowInv, NEW op \in TreasuryOps, NEW R \in SUBSET Accounts,
           rows \subseteq R, TreasuryHandler(op, R)
    PROVE  Vault!Next
<1> USE AccountsOfUsers
<1>1. balance \in [Accounts -> Int] /\ balance[Escrow] >= balance[Escrow] /\ Treasury # Escrow
  BY LedgerAssumption DEF TypeOK, AccountsTypeOK
<1>2. CASE BridgeMint(op, R)
  <2>1. op.to \in Accounts /\ op.amount \in Nat
    BY <1>2, MintPayload DEF BridgeMint
  <2>2. balance'[Escrow] >= balance[Escrow]
    BY <1>1, <1>2, <2>1, MoveKeeps DEF BridgeMint
  <2>3. QED
    BY <1>2, <2>2, DealsKept DEF BridgeMint, marketVars
<1>3. CASE RegisterAiService(op, R) \/ RegisterProducer(op, R)
  BY <1>1, <1>3, DealsKept DEF RegisterAiService, RegisterProducer, marketVars
<1>4. CASE FinalizeValid(op, R) \/ FinalizeInvalid(op, R)
  <2>1. op.order \in Orders
    BY <1>4, FinalizePayload DEF FinalizeValid, FinalizeInvalid
  <2>2. QED
    BY <1>4, <2>1, FinalizeReleases DEF Vault!Next, LedgerDeals
<1>5. QED
  BY <1>2, <1>3, <1>4 DEF TreasuryHandler

LEMMA StepVault ==
    ASSUME TypeOK, LockInv, EscrowInv, [Next]_vars
    PROVE  Vault!Next
<1>1. rows \subseteq Accounts /\ balance[Escrow] >= balance[Escrow]
  BY AccountsOfUsers DEF TypeOK, AccountsTypeOK
<1>2. CASE TreasuryTx
  <2>1. ASSUME NEW op \in TreasuryOps, DirectTreasuryTx(op)
        PROVE  Vault!Next
    BY <1>1, <2>1, AccountsOfUsers, HandlerVault DEF DirectTreasuryTx
  <2>2. ASSUME NEW s \in Users, NEW op \in TreasuryOps, MultisigTx(s, op)
        PROVE  Vault!Next
    BY <1>1, <2>2, AccountsOfUsers, HandlerVault DEF MultisigTx
  <2>3. ASSUME NEW S \in SignerSets, NEW m \in 1..Cardinality(S), RegisterTreasurySigners(S, m)
        PROVE  Vault!Next
    BY <1>1, <2>3, DealsKept DEF RegisterTreasurySigners, marketVars
  <2>4. QED
    BY <1>2, <2>1, <2>2, <2>3 DEF TreasuryTx
<1>3. CASE UNCHANGED <<accountVars, marketVars>>
  BY <1>1, <1>3, DealsKept DEF accountVars, marketVars
<1>4. QED
  BY <1>2, <1>3, MarketVault, MoneyVault DEF Next, Cosign, vars

-----------------------------------------------------------------------------
(* EscrowInv is inductive: rows are never deleted, and whoever creates an   *)
(* order or a job ensures the escrow's.                                     *)

LEMMA RowsKept ==
    ASSUME [Next]_vars
    PROVE  rows \subseteq rows'
<1>1. ASSUME NEW op, NEW R, rows \subseteq R, TreasuryHandler(op, R)
      PROVE  rows \subseteq rows'
  BY <1>1 DEF TreasuryHandler, BridgeMint, RegisterAiService, RegisterProducer,
     FinalizeValid, FinalizeInvalid
<1>2. TreasuryTx => rows \subseteq rows'
  BY <1>1 DEF TreasuryTx, DirectTreasuryTx, MultisigTx, RegisterTreasurySigners
<1>3. ASSUME NEW s \in Users, MarketTx(s) \/ MoneyTx(s)
      PROVE  rows \subseteq rows'
  BY <1>3 DEF MarketTx, RegisterContent, CreateOrder, SubmitProof, ViewRewardTx,
     PostJob, ClaimJob, SubmitWorkProof, MoneyTx, Stake, Transfer, BridgeBurn
<1>4. QED
  BY <1>2, <1>3 DEF Next, Cosign, vars, accountVars

\* An order or job that exists was created by this step or existed before it.
OrderCreated(o) ==
    \/ orders'[o].status = 0
    \/ /\ {Escrow, orders'[o].buyer, orders'[o].seller} \subseteq rows'
       /\ orders'[o].buyer # Escrow
    \/ /\ orders[o].status # 0
       /\ orders'[o].buyer = orders[o].buyer /\ orders'[o].seller = orders[o].seller

LEMMA DealsCreated ==
    ASSUME TypeOK, [Next]_vars
    PROVE  /\ \A o \in Orders : OrderCreated(o)
           /\ \A j \in Jobs :
                jobs'[j].status = 0 \/ Escrow \in rows' \/ jobs[j].status # 0
<1>1. orders \in [Orders -> OrderRow] /\ jobs \in [Jobs -> JobRow]
  BY DEF TypeOK, MarketTypeOK
<1>2. ASSUME NEW s \in Users, MarketTx(s)
      PROVE  /\ \A o \in Orders : OrderCreated(o)
             /\ \A j \in Jobs :
                  jobs'[j].status = 0 \/ Escrow \in rows' \/ jobs[j].status # 0
  <2>1. s # Escrow
    BY LedgerAssumption
  <2>2. ASSUME NEW o \in Orders, NEW c \in Contents, NEW seller \in Accounts,
               NEW v \in Values, CreateOrder(s, o, c, seller, v)
        PROVE  UNCHANGED jobs /\ \A p \in Orders : OrderCreated(p)
    <3>1. /\ {Escrow, s, seller} \subseteq rows' /\ UNCHANGED jobs
          /\ orders'[o].buyer = s /\ orders'[o].seller = seller
          /\ \A p \in Orders : p # o => orders'[p] = orders[p]
      BY <1>1, <2>2 DEF CreateOrder
    <3> QED BY <2>1, <3>1 DEF OrderCreated
  <2>3. ASSUME NEW o \in Orders, NEW role, SubmitProof(s, o, role)
        PROVE  UNCHANGED jobs /\ \A p \in Orders : OrderCreated(p)
    BY <1>1, <2>3 DEF SubmitProof, OrderRow, Created, Packed, OrderCreated
  <2>4. ASSUME NEW j \in Jobs, ClaimJob(s, j) \/ SubmitWorkProof(s, j)
        PROVE  UNCHANGED orders /\ \A p \in Jobs :
                 jobs[p].status = 0 => jobs'[p].status = 0
    BY <1>1, <2>4 DEF ClaimJob, SubmitWorkProof, JobRow, Posted, Claimed
  <2>5. ASSUME NEW j \in Jobs, NEW c \in Contents, NEW v \in Values, PostJob(s, j, c, v)
        PROVE  UNCHANGED orders /\ Escrow \in rows'
    BY <2>5 DEF PostJob
  <2>6. UNCHANGED orders => \A p \in Orders : OrderCreated(p)
    BY DEF OrderCreated
  <2>7. QED
    BY <1>2, <2>2, <2>3, <2>4, <2>5, <2>6 DEF MarketTx, RegisterContent, ViewRewardTx
<1>3. ASSUME NEW op \in TreasuryOps, NEW R, TreasuryHandler(op, R)
      PROVE  UNCHANGED jobs /\ \A p \in Orders : OrderCreated(p)
  <2>1. CASE FinalizeValid(op, R) \/ FinalizeInvalid(op, R)
    BY <1>1, <2>1, FinalizePayload
       DEF FinalizeValid, FinalizeInvalid, OrderRow, Opened, OrderCreated
  <2>2. QED
    BY <1>3, <2>1 DEF TreasuryHandler, BridgeMint, RegisterAiService, RegisterProducer,
       marketVars, OrderCreated
<1>4. TreasuryTx => UNCHANGED jobs /\ \A p \in Orders : OrderCreated(p)
  BY <1>3 DEF TreasuryTx, DirectTreasuryTx, MultisigTx, RegisterTreasurySigners, marketVars,
     OrderCreated
<1>5. (\E s \in Users : MoneyTx(s)) \/ UNCHANGED marketVars => UNCHANGED <<orders, jobs>>
  BY DEF MoneyTx, Stake, Transfer, BridgeBurn, marketVars
<1>6. QED
  BY <1>2, <1>4, <1>5 DEF Next, Cosign, vars, OrderCreated

LEMMA StepEscrowInv ==
    ASSUME TypeOK, EscrowInv, [Next]_vars
    PROVE  EscrowInv'
<1>1. \A o \in Orders : OrderCreated(o)
  BY DealsCreated
<1>2. Treasury \in rows' /\ \A j \in Jobs : jobs'[j].status # 0 => Escrow \in rows'
  BY RowsKept, DealsCreated DEF EscrowInv
<1>3. ASSUME NEW o \in Orders, orders'[o].status # 0
      PROVE  /\ {Escrow, orders'[o].buyer, orders'[o].seller} \subseteq rows'
             /\ orders'[o].buyer # Escrow
  BY <1>1, <1>3, RowsKept DEF EscrowInv, OrderCreated
<1> QED BY <1>2, <1>3 DEF EscrowInv

LEMMA InitVault == Init => Vault!Init /\ EscrowInv
<1> SUFFICES ASSUME Init PROVE Vault!Init /\ EscrowInv
  OBVIOUS
<1>1. balance[Escrow] = 0
  BY AccountsOfUsers, LedgerAssumption DEF Init
<1>2. \A o \in Orders : OrderDeal(o) = [phase |-> "none", amount |-> 0]
  BY DEF Init, OrderDeal, NoOrder
<1>3. \A j \in Jobs : JobDeal(j) = [phase |-> "none", amount |-> 0]
  BY DEF Init, JobDeal, NoJob
<1>4. held = [d \in LedgerDeals |-> [phase |-> "none", amount |-> 0]]
  BY <1>2, <1>3 DEF held, LedgerDeals
<1>5. EscrowInv
  BY DEF Init, EscrowInv, NoOrder, NoJob
<1>6. QED
  BY <1>1, <1>4, <1>5 DEF Vault!Init

\* CREATE_ORDER and POST_JOB open a deal, FINALIZE and SUBMIT_WORK_PROOF release
\* it in full, once, and no other transaction takes money out of escrow.
THEOREM LedgerImplementsEscrow == Spec => ImplementsEscrow
<1>1. Init => TypeOK /\ LockInv /\ EscrowInv /\ Vault!Init
  BY InitTyped, InitLockInv, InitVault
<1>2. TypeOK /\ LockInv /\ EscrowInv /\ [Next]_vars => (TypeOK /\ LockInv /\ EscrowInv)'
  BY StepTyped, StepLockInv, StepEscrowInv
<1>3. TypeOK /\ LockInv /\ EscrowInv /\ [Next]_vars => [Vault!Next]_(Vault!vars)
  BY StepVault
<1>4. QED
  BY <1>1, <1>2, <1>3, PTL DEF Spec, ImplementsEscrow, Vault!Spec

-----------------------------------------------------------------------------
(***************************************************************************)
(* The supply.  Worth(bal, st): what balances bal and stakes st add up to. *)
(***************************************************************************)
Worth(bal, st) == SumFunctionOnSet([a \in Accounts |-> bal[a] + st[a]], Accounts)

LEMMA AccountsFinite == IsFiniteSet(Accounts)
BY LedgerAssumption, FS_AddElement DEF Accounts

LEMMA WorthTyped ==
    ASSUME NEW bal \in [Accounts -> Int], NEW st \in [Accounts -> Int]
    PROVE  Worth(bal, st) \in Int
<1> DEFINE f == [a \in Accounts |-> bal[a] + st[a]]
<1>1. \A a \in Accounts : f[a] \in Int
  OBVIOUS
<1> HIDE DEF f
<1> QED BY <1>1, AccountsFinite, SumInt DEF Worth, f

\* Crediting an account that has a row, in either column, adds the amount.
LEMMA WorthCredit ==
    ASSUME NEW bal \in [Accounts -> Int], NEW st \in [Accounts -> Int],
           NEW b \in [Accounts -> Int], NEW t \in [Accounts -> Int],
           NEW a \in Accounts, NEW n \in Int,
           b[a] + t[a] = bal[a] + st[a] + n,
           \A c \in Accounts \ {a} : b[c] + t[c] = bal[c] + st[c]
    PROVE  Worth(b, t) = Worth(bal, st) + n
<1> DEFINE f == [c \in Accounts |-> bal[c] + st[c]]
           g == [c \in Accounts |-> b[c] + t[c]]
<1>1. /\ \A c \in Accounts : f[c] \in Int
      /\ \A c \in Accounts : g[c] \in Int
      /\ \A c \in Accounts \ {a} : g[c] = f[c]
      /\ g[a] = f[a] + n
  OBVIOUS
<1> HIDE DEF f, g
<1>2. SumFunctionOnSet(g, Accounts) = SumFunctionOnSet(f, Accounts) - f[a] + g[a]
  BY <1>1, AccountsFinite, SumChange
<1>3. SumFunctionOnSet(f, Accounts) \in Int /\ f[a] \in Int
  BY <1>1, AccountsFinite, SumInt
<1>4. SumFunctionOnSet(g, Accounts) = SumFunctionOnSet(f, Accounts) + n
  BY <1>1, <1>2, <1>3
<1> QED BY <1>4 DEF Worth, f, g

LEMMA WorthAdd ==
    ASSUME NEW bal \in [Accounts -> Int], NEW st \in [Accounts -> Int],
           NEW R, NEW a \in Accounts, a \in R, NEW n \in Int
    PROVE  /\ Worth(Add(bal, R, a, n), st) = Worth(bal, st) + n
           /\ Worth(bal, Add(st, R, a, n)) = Worth(bal, st) + n
<1> DEFINE b == Add(bal, R, a, n)
           t == Add(st, R, a, n)
<1>1. /\ b \in [Accounts -> Int] /\ t \in [Accounts -> Int]
      /\ b[a] = bal[a] + n /\ t[a] = st[a] + n
      /\ \A c \in Accounts \ {a} : b[c] = bal[c] /\ t[c] = st[c]
  BY DEF Add
<1> HIDE DEF b, t
<1>2. /\ b[a] + st[a] = bal[a] + st[a] + n
      /\ bal[a] + t[a] = bal[a] + st[a] + n
  BY <1>1
<1>3. Worth(b, st) = Worth(bal, st) + n
  BY <1>1, <1>2, WorthCredit
<1>4. Worth(bal, t) = Worth(bal, st) + n
  BY <1>1, <1>2, WorthCredit
<1> QED BY <1>3, <1>4 DEF b, t

\* Moving money between two accounts that have rows keeps the sum.
LEMMA WorthMove ==
    ASSUME NEW bal \in [Accounts -> Int], NEW st \in [Accounts -> Int],
           NEW R, NEW from \in Accounts, NEW to \in Accounts, NEW n \in Int,
           from \in R, to \in R
    PROVE  Worth(Move(bal, R, from, to, n), st) = Worth(bal, st)
<1> DEFINE b == Add(bal, R, from, -n)
<1>1. -n \in Int
  OBVIOUS
<1>2. b \in [Accounts -> Int]
  BY <1>1, AddTyped
<1>3. Worth(b, st) = Worth(bal, st) + -n
  BY <1>1, WorthAdd
<1> HIDE DEF b
<1>4. Worth(Add(b, R, to, n), st) = Worth(b, st) + n
  BY <1>2, WorthAdd
<1>5. Worth(bal, st) \in Int
  BY WorthTyped
<1>6. Worth(Add(b, R, to, n), st) = Worth(bal, st)
  BY <1>3, <1>4, <1>5
<1> QED BY <1>6 DEF Move, b

\* Slashing: a stake is set to nothing and credited to the treasury's balance.
LEMMA WorthSlash ==
    ASSUME NEW bal \in [Accounts -> Int], NEW st \in [Accounts -> Int],
           NEW t \in [Accounts -> Int], NEW R, NEW a \in Accounts,
           NEW to \in Accounts, to \in R,
           t[a] = 0, \A c \in Accounts \ {a} : t[c] = st[c]
    PROVE  Worth(Add(bal, R, to, st[a]), t) = Worth(bal, st)
<1> DEFINE Q == {a}
<1>1. st[a] \in Int /\ a \in Q
  OBVIOUS
<1> HIDE DEF Q
<1>2. Add(t, Q, a, st[a]) = st
  BY <1>1 DEF Add
<1>3. Worth(bal, Add(t, Q, a, st[a])) = Worth(bal, t) + st[a]
  BY <1>1, WorthAdd
<1>4. Worth(Add(bal, R, to, st[a]), t) = Worth(bal, t) + st[a]
  BY <1>1, WorthAdd
<1> QED BY <1>2, <1>3, <1>4

MoneyKept == Worth(balance', stake') = Worth(balance, stake)

LEMMA MarketSupply ==
    ASSUME TypeOK, EscrowInv, NEW s \in Users, MarketTx(s)
    PROVE  MoneyKept
<1> USE AccountsOfUsers
<1>1. balance \in [Accounts -> Int] /\ stake \in [Accounts -> Int]
  BY DEF TypeOK, AccountsTypeOK
<1>2. UNCHANGED <<balance, stake>> => MoneyKept
  BY DEF MoneyKept
<1>3. ASSUME NEW o \in Orders, NEW c \in Contents, NEW seller \in Accounts,
             NEW v \in Values, CreateOrder(s, o, c, seller, v)
      PROVE  MoneyKept
  <2> DEFINE b == Move(balance, rows', s, Treasury, Fee(v))
  <2>1. Fee(v) \in Int /\ v - Fee(v) \in Int
    BY FeeBounded, LedgerAssumption
  <2>2. s \in rows' /\ Escrow \in rows' /\ Treasury \in rows'
    BY <1>3 DEF CreateOrder, EscrowInv
  <2>3. b \in [Accounts -> Int] /\ Worth(b, stake) = Worth(balance, stake)
    <3>1. b \in [Accounts -> Int]
      BY <1>1, <2>1, MoveTyped
    <3>2. s \in Accounts /\ Treasury \in Accounts
      OBVIOUS
    <3>3. Worth(b, stake) = Worth(balance, stake)
      BY <1>1, <2>1, <2>2, <3>2, WorthMove
    <3> QED BY <3>1, <3>3
  <2>4. balance' = Move(b, rows', s, Escrow, v - Fee(v)) /\ stake' = stake
    BY <1>3 DEF CreateOrder
  <2> HIDE DEF b
  <2>5. Worth(Move(b, rows', s, Escrow, v - Fee(v)), stake) = Worth(b, stake)
    BY <1>1, <2>1, <2>2, <2>3, WorthMove
  <2> QED BY <2>3, <2>4, <2>5 DEF MoneyKept
<1>4. ASSUME NEW c \in Contents, NEW i \in Cells, ViewRewardTx(s, c, i)
      PROVE  MoneyKept
  <2>1. /\ balance' = Move(balance, rows', Treasury, s, ViewReward) /\ stake' = stake
        /\ s \in rows' /\ Treasury \in rows' /\ ViewReward \in Int
    BY <1>4, LedgerAssumption DEF ViewRewardTx, EscrowInv
  <2> QED BY <1>1, <2>1, WorthMove DEF MoneyKept
<1>5. ASSUME NEW j \in Jobs, NEW c \in Contents, NEW v \in Values, PostJob(s, j, c, v)
      PROVE  MoneyKept
  <2>1. /\ balance' = Move(balance, rows', s, Escrow, v) /\ stake' = stake
        /\ s \in rows' /\ Escrow \in rows' /\ v \in Int
    BY <1>5, ValuesTyped DEF PostJob
  <2> QED BY <1>1, <2>1, WorthMove DEF MoneyKept
<1>6. ASSUME NEW j \in Jobs, SubmitWorkProof(s, j)
      PROVE  MoneyKept
  <2>1. /\ balance' = Move(balance, rows', Escrow, s, jobs[j].reward) /\ stake' = stake
        /\ s \in rows' /\ Escrow \in rows'
    BY <1>6 DEF SubmitWorkProof, EscrowInv, Claimed
  <2>2. jobs[j].reward \in Int
    BY DEF TypeOK, MarketTypeOK, JobRow
  <2> QED BY <1>1, <2>1, <2>2, WorthMove DEF MoneyKept
<1> QED
  BY <1>2, <1>3, <1>4, <1>5, <1>6 DEF MarketTx, RegisterContent, SubmitProof, ClaimJob

LEMMA MoneySupply ==
    ASSUME TypeOK, EscrowInv, NEW s \in Users, MoneyTx(s)
    PROVE  MoneyKept
<1> USE AccountsOfUsers
<1>1. balance \in [Accounts -> Int] /\ stake \in [Accounts -> Int]
  BY DEF TypeOK, AccountsTypeOK
<1>2. ASSUME NEW v \in Values, Stake(s, v)
      PROVE  MoneyKept
  <2>1. /\ balance' = Add(balance, rows', s, -v) /\ stake' = Add(stake, rows', s, v)
        /\ s \in rows' /\ v \in Int /\ -v \in Int
    BY <1>2, ValuesTyped DEF Stake
  <2>2. balance' \in [Accounts -> Int]
    BY <1>1, <2>1, AddTyped
  <2>3. Worth(balance', stake) = Worth(balance, stake) + -v
    BY <1>1, <2>1, WorthAdd
  <2>4. Worth(balance', stake') = Worth(balance', stake) + v
    BY <1>1, <2>1, <2>2, WorthAdd
  <2>5. Worth(balance, stake) \in Int
    BY <1>1, WorthTyped
  <2> QED BY <2>1, <2>3, <2>4, <2>5 DEF MoneyKept
<1>3. ASSUME NEW to \in Accounts, NEW v \in Values, Transfer(s, to, v)
      PROVE  MoneyKept
  <2>1. /\ balance' = Move(balance, rows', s, to, v) /\ stake' = stake
        /\ s \in rows' /\ to \in rows' /\ v \in Int
    BY <1>3, ValuesTyped DEF Transfer
  <2> QED BY <1>1, <2>1, WorthMove DEF MoneyKept
<1>4. ASSUME NEW t \in AllTokens, NEW v \in Values, BridgeBurn(s, t, v)
      PROVE  MoneyKept
  <2>1. /\ \/ balance' = Move(balance, rows', s, Treasury, v)
           \/ balance' = balance
        /\ stake' = stake /\ s \in rows' /\ Treasury \in rows' /\ v \in Int
    BY <1>4, ValuesTyped DEF BridgeBurn, EscrowInv
  <2> QED BY <1>1, <2>1, WorthMove DEF MoneyKept
<1> QED BY <1>2, <1>3, <1>4 DEF MoneyTx

LEMMA HandlerSupply ==
    ASSUME TypeOK, EscrowInv, NEW op \in TreasuryOps, NEW R, rows \subseteq R,
           TreasuryHandler(op, R)
    PROVE  MoneyKept
<1> USE AccountsOfUsers
<1>1. balance \in [Accounts -> Int] /\ stake \in [Accounts -> Int]
  BY DEF TypeOK, AccountsTypeOK
<1>2. CASE BridgeMint(op, R)
  <2>1. /\ \/ balance' = Move(balance, rows', Treasury, op.to, op.amount)
           \/ balance' = balance
        /\ stake' = stake /\ op.to \in rows' /\ Treasury \in rows'
    BY <1>2 DEF BridgeMint, EscrowInv
  <2>2. op.to \in Accounts /\ op.amount \in Int
    BY <1>2, MintPayload DEF BridgeMint
  <2> QED BY <1>1, <2>1, <2>2, WorthMove DEF MoneyKept
<1>3. ASSUME FinalizeValid(op, R) \/ FinalizeInvalid(op, R)
      PROVE  /\ op.order \in Orders
             /\ orders[op.order].amount \in Int
             /\ orders[op.order].seller \in Accounts /\ orders[op.order].buyer \in Accounts
             /\ {Escrow, Treasury, orders[op.order].buyer, orders[op.order].seller} \subseteq R
  <2>1. op.order \in Orders /\ orders[op.order].status = Opened
    BY <1>3, FinalizePayload DEF FinalizeValid, FinalizeInvalid
  <2>2. orders[op.order] \in OrderRow
    BY <2>1 DEF TypeOK, MarketTypeOK
  <2> QED BY <2>1, <2>2 DEF OrderRow, EscrowInv, Opened
<1>4. CASE FinalizeValid(op, R)
  <2>1. /\ balance' = Move(balance, R, Escrow, orders[op.order].seller, orders[op.order].amount)
        /\ stake' = stake
    BY <1>4 DEF FinalizeValid
  <2> QED BY <1>1, <1>3, <1>4, <2>1, WorthMove DEF MoneyKept
<1>5. CASE FinalizeInvalid(op, R)
  <2> DEFINE b == Move(balance, R, Escrow, orders[op.order].buyer, orders[op.order].amount)
             a == orders[op.order].seller
  <2>1. /\ balance' = Add(b, R, Treasury, stake[a])
        /\ stake' = [stake EXCEPT ![a] = 0]
    BY <1>5 DEF FinalizeInvalid
  <2>2. b \in [Accounts -> Int] /\ Worth(b, stake) = Worth(balance, stake)
    <3>1. b \in [Accounts -> Int]
      BY <1>1, <1>3, <1>5, MoveTyped
    <3>2. /\ Escrow \in R /\ orders[op.order].buyer \in R
          /\ Escrow \in Accounts /\ orders[op.order].buyer \in Accounts
      BY <1>3, <1>5
    <3>3. Worth(b, stake) = Worth(balance, stake)
      BY <1>1, <1>3, <1>5, <3>2, WorthMove
    <3> QED BY <3>1, <3>3
  <2>3. a \in Accounts /\ Treasury \in R
    BY <1>3, <1>5
  <2> HIDE DEF b, a
  <2>5. /\ stake' \in [Accounts -> Int] /\ stake'[a] = 0
        /\ \A c \in Accounts \ {a} : stake'[c] = stake[c]
    BY <1>1, <2>1, <2>3
  <2>4. Worth(Add(b, R, Treasury, stake[a]), stake') = Worth(b, stake)
    BY <1>1, <2>2, <2>3, <2>5, WorthSlash
  <2> QED BY <2>1, <2>2, <2>4 DEF MoneyKept
<1>6. CASE RegisterAiService(op, R) \/ RegisterProducer(op, R)
  BY <1>6 DEF RegisterAiService, RegisterProducer, MoneyKept
<1> QED BY <1>2, <1>4, <1>5, <1>6 DEF TreasuryHandler

LEMMA StepSupply ==
    ASSUME TypeOK, EscrowInv, [Next]_vars
    PROVE  MoneyKept
<1>1. UNCHANGED <<balance, stake>> => MoneyKept
  BY DEF MoneyKept
<1>2. TreasuryTx => MoneyKept
  BY <1>1, HandlerSupply DEF TreasuryTx, DirectTreasuryTx, MultisigTx, RegisterTreasurySigners
<1> QED
  BY <1>1, <1>2, MarketSupply, MoneySupply DEF Next, Cosign, vars, accountVars

LEMMA SupplyIsWorth == SupplyConserved <=> Worth(balance, stake) = GenesisSupply
BY DEF SupplyConserved, Worth, SumFunction

LEMMA InitSupply == Init => SupplyConserved
<1> SUFFICES ASSUME Init PROVE Worth(balance, stake) = GenesisSupply
  BY SupplyIsWorth
<1> DEFINE zero == [a \in Accounts |-> 0]
<1>1. zero \in [Accounts -> Int] /\ Worth(zero, zero) = 0
  <2> DEFINE f == [a \in Accounts |-> zero[a] + zero[a]]
  <2>1. \A a \in Accounts : f[a] = 0
    OBVIOUS
  <2> HIDE DEF f
  <2>2. SumFunctionOnSet(f, Accounts) = 0
    BY <2>1, AccountsFinite, SumZero
  <2> QED BY <2>2 DEF Worth, f
<1>2. /\ balance \in [Accounts -> Int] /\ stake = zero /\ GenesisSupply \in Int
      /\ balance[Treasury] = GenesisSupply
      /\ \A a \in Accounts \ {Treasury} : balance[a] = 0
      /\ Treasury \in Accounts
  BY AccountsOfUsers, LedgerAssumption DEF Init
<1>3. Worth(balance, zero) = Worth(zero, zero) + GenesisSupply
  <2>1. balance[Treasury] + zero[Treasury] = zero[Treasury] + zero[Treasury] + GenesisSupply
    BY <1>2
  <2>2. \A a \in Accounts \ {Treasury} : balance[a] + zero[a] = zero[a] + zero[a]
    BY <1>2
  <2> HIDE DEF zero
  <2> QED BY <1>1, <1>2, <2>1, <2>2, WorthCredit
<1> HIDE DEF zero
<1> QED BY <1>1, <1>2, <1>3

\* Money is neither made nor lost, whoever pays, earns, stakes or is slashed:
\* balances and stakes always add up to the genesis supply.
THEOREM SupplyAlways == Spec => []SupplyConserved
<1>1. Init => TypeOK /\ EscrowInv /\ SupplyConserved
  BY InitTyped, InitVault, InitSupply
<1>2. TypeOK /\ EscrowInv /\ SupplyConserved /\ [Next]_vars
        => (TypeOK /\ EscrowInv /\ SupplyConserved)'
  <2>1. SupplyConserved /\ MoneyKept => SupplyConserved'
    BY DEF MoneyKept, SupplyConserved, Worth, SumFunction
  <2> QED BY <2>1, StepTyped, StepEscrowInv, StepSupply
<1>3. QED
  BY <1>1, <1>2, PTL DEF Spec

-----------------------------------------------------------------------------
(***************************************************************************)
(* The mirrored tokens.  What is held of a token, plus what was burned of  *)
(* it, is what was minted of it.                                           *)
(***************************************************************************)
Amounts(S) == MapThenSumSet(AmountOf, S)
HeldOf(tok, t) == SumFunctionOnSet([a \in Accounts |-> tok[a][t]], Accounts)
OfToken(S, t) == {r \in S : r.token = t}

LEMMA AmountsSum ==
    ASSUME NEW S, IsFiniteSet(S)
    PROVE  Amounts(S) = SumFunctionOnSet([r \in S |-> r.amount], S)
<1> DEFINE f == [r \in S |-> r.amount]
           Sums(g) == g = [s \in SUBSET S |->
                IF s = {} THEN 0 ELSE AmountOf(Picked(s)) + g[s \ {Picked(s)}]]
<1>1. Amounts(S) = (CHOOSE g : Sums(g))[S]
  BY DEF Amounts, MapThenSumSet, MapThenFoldSet, Picked
<1>2. \A s \in SUBSET S : s # {} => f[Picked(s)] = AmountOf(Picked(s))
  BY PickedIn DEF AmountOf
<1>3. \A g : Sums(g) <=> Adds(g, f, Subsets(S))
  <2> HIDE DEF f
  <2> QED BY <1>2 DEF Adds, Subsets
<1>4. \E g : Adds(g, f, Subsets(S))
  BY SumAdds
<1> HIDE DEF f, Sums
<1>5. PICK g : Sums(g) /\ g = (CHOOSE h : Sums(h))
  BY <1>3, <1>4
<1>6. g[S] = SumFunctionOnSet(f, S)
  BY <1>3, <1>5, AddsIsSum
<1> QED BY <1>1, <1>5, <1>6 DEF f

LEMMA AmountsAdd ==
    ASSUME NEW S, IsFiniteSet(S), NEW r, r \notin S,
           r.amount \in Int, \A x \in S : x.amount \in Int
    PROVE  Amounts(S \cup {r}) = Amounts(S) + r.amount
<1> DEFINE T == S \cup {r}
           f == [x \in T |-> x.amount]
           g == [x \in S |-> x.amount]
<1>1. IsFiniteSet(T)
  BY FS_AddElement
<1>2. Amounts(T) = SumFunctionOnSet(f, T) /\ Amounts(S) = SumFunctionOnSet(g, S)
  BY <1>1, AmountsSum
<1>3. f[r] = r.amount /\ \A x \in S : f[x] = g[x] /\ f[x] \in Int /\ g[x] \in Int
  OBVIOUS
<1> HIDE DEF f, g
<1>4. SumFunctionOnSet(f, T) = f[r] + SumFunctionOnSet(f, S)
  BY <1>3, SumAdd
<1>5. SumFunctionOnSet(f, S) = SumFunctionOnSet(g, S) /\ SumFunctionOnSet(g, S) \in Int
  BY <1>3, SumEqual, SumInt
<1> HIDE DEF T
<1>6. Amounts(T) = Amounts(S) + r.amount
  BY <1>2, <1>3, <1>4, <1>5
<1> QED BY <1>6 DEF T

LEMMA AmountsTyped ==
    ASSUME NEW S, IsFiniteSet(S), \A x \in S : x.amount \in Int
    PROVE  Amounts(S) \in Int
<1> DEFINE g == [x \in S |-> x.amount]
<1>1. \A x \in S : g[x] \in Int
  OBVIOUS
<1>2. Amounts(S) = SumFunctionOnSet(g, S)
  BY AmountsSum
<1> HIDE DEF g
<1> QED BY <1>1, <1>2, SumInt

\* Adding a row to a table of mints or burns.
LEMMA OfTokenAdd ==
    ASSUME NEW S, IsFiniteSet(S), NEW r, r \notin S, NEW t,
           r.amount \in Int, \A x \in S : x.amount \in Int
    PROVE  /\ IsFiniteSet(S \cup {r})
           /\ Amounts(OfToken(S, t)) \in Int
           /\ Amounts(OfToken(S \cup {r}, t))
                = Amounts(OfToken(S, t)) + (IF r.token = t THEN r.amount ELSE 0)
<1> DEFINE T == OfToken(S, t)
<1>1. IsFiniteSet(T) /\ r \notin T /\ \A x \in T : x.amount \in Int
  BY FS_Subset DEF OfToken
<1>2. OfToken(S \cup {r}, t) = IF r.token = t THEN T \cup {r} ELSE T
  BY DEF OfToken
<1> HIDE DEF T
<1>3. Amounts(T) \in Int
  BY <1>1, AmountsTyped
<1>4. Amounts(T \cup {r}) = Amounts(T) + r.amount
  BY <1>1, AmountsAdd
<1>5. IsFiniteSet(S \cup {r})
  BY FS_AddElement
<1> QED BY <1>2, <1>3, <1>4, <1>5 DEF T

\* What is held of one token, when every account's holding is an integer.
LEMMA HeldTokens ==
    ASSUME NEW tok, NEW t, \A c \in Accounts : tok[c][t] \in Int
    PROVE  HeldOf(tok, t) \in Int
<1> DEFINE f == [c \in Accounts |-> tok[c][t]]
<1>1. \A c \in Accounts : f[c] \in Int
  OBVIOUS
<1> HIDE DEF f
<1> QED BY <1>1, AccountsFinite, SumInt DEF HeldOf, f

\* Changing what one account holds of one token.
LEMMA HeldChange ==
    ASSUME NEW tok, NEW new, NEW a \in Accounts, NEW t, NEW n \in Int,
           \A c \in Accounts : tok[c][t] \in Int,
           new[a][t] = tok[a][t] + n,
           \A c \in Accounts \ {a} : new[c][t] = tok[c][t]
    PROVE  HeldOf(new, t) = HeldOf(tok, t) + n
<1> DEFINE f == [c \in Accounts |-> tok[c][t]]
           g == [c \in Accounts |-> new[c][t]]
<1>1. \A c \in Accounts : f[c] \in Int
  OBVIOUS
<1>2. \A c \in Accounts : g[c] \in Int
  OBVIOUS
<1>3. \A c \in Accounts \ {a} : g[c] = f[c]
  OBVIOUS
<1>4. g[a] = f[a] + n
  OBVIOUS
<1>5. HeldOf(tok, t) = SumFunctionOnSet(f, Accounts) /\ HeldOf(new, t) = SumFunctionOnSet(g, Accounts)
  BY DEF HeldOf
<1> HIDE DEF f, g
<1>a. a \in Accounts
  OBVIOUS
<1>6. SumFunctionOnSet(g, Accounts) = SumFunctionOnSet(f, Accounts) - f[a] + g[a]
  BY ONLY <1>1, <1>2, <1>3, <1>a, AccountsFinite, SumChange
<1>7. SumFunctionOnSet(f, Accounts) \in Int /\ f[a] \in Int
  BY <1>1, AccountsFinite, SumInt
<1> QED BY <1>4, <1>5, <1>6, <1>7

LEMMA BackedIs ==
    TokensBacked <=>
      \A t \in Tokens :
         HeldOf(tokens, t) + Amounts(OfToken(burns, t)) = Amounts(OfToken(mints, t))
BY DEF TokensBacked, HeldOf, Amounts, OfToken, SumFunction

\* The strengthening: the tables of mints and burns are finite.
TablesFinite == IsFiniteSet(mints) /\ IsFiniteSet(burns)

BackedInv == TablesFinite /\ TokensBacked

LEMMA BurnBacked ==
    ASSUME TypeOK, BurnIdsUnique, BackedInv,
           NEW s \in Users, NEW k \in AllTokens, NEW v \in Values, BridgeBurn(s, k, v)
    PROVE  BackedInv'
<1> DEFINE new == [burner |-> s, nonce |-> nonce[s], token |-> k, amount |-> v]
<1>1. /\ mints' = mints /\ burns' = burns \cup {new}
      /\ new.burner = s /\ new.nonce = nonce[s] /\ new.token = k /\ new.amount = v
      /\ v \in Int /\ -v \in Int /\ s \in Accounts
  BY ValuesTyped, AccountsOfUsers DEF BridgeBurn
<1>2. k # Morm => k \in Tokens /\ tokens' = [tokens EXCEPT ![s][k] = @ - v]
  BY DEF BridgeBurn
<1>3. k = Morm => k \notin Tokens /\ tokens' = tokens
  BY LedgerAssumption DEF BridgeBurn
<1>4. /\ tokens \in [Accounts -> [Tokens -> Int]]
      /\ \A b \in burns : b.amount \in Int
      /\ nonce[s] \in Nat
  BY <1>1 DEF TypeOK, BridgeTypeOK, BurnRow, AccountsTypeOK
<1> HIDE DEF new
<1>5. new \notin burns
  BY <1>1, <1>4 DEF BurnIdsUnique
<1>6. IsFiniteSet(burns')
  BY <1>1, FS_AddElement DEF BackedInv, TablesFinite
<1>7. ASSUME NEW t \in Tokens
      PROVE  HeldOf(tokens', t) + Amounts(OfToken(burns', t)) = Amounts(OfToken(mints', t))
  <2>1. HeldOf(tokens, t) + Amounts(OfToken(burns, t)) = Amounts(OfToken(mints, t))
    BY BackedIs DEF BackedInv
  <2>2. /\ Amounts(OfToken(burns, t)) \in Int
        /\ Amounts(OfToken(burns \cup {new}, t))
             = Amounts(OfToken(burns, t)) + (IF k = t THEN v ELSE 0)
    <3>1. IsFiniteSet(burns) /\ new.amount \in Int
      BY <1>1 DEF BackedInv, TablesFinite
    <3>2. /\ Amounts(OfToken(burns, t)) \in Int
          /\ Amounts(OfToken(burns \cup {new}, t))
               = Amounts(OfToken(burns, t)) + (IF new.token = t THEN new.amount ELSE 0)
      BY <1>4, <1>5, <3>1, OfTokenAdd
    <3> QED BY <1>1, <3>2
  <2>3. HeldOf(tokens, t) \in Int /\ \A c \in Accounts : tokens[c][t] \in Int
    BY <1>4, HeldTokens
  <2>4. HeldOf(tokens', t) = HeldOf(tokens, t) + (IF k = t THEN -v ELSE 0)
    <3>1. CASE k = Morm
      BY <1>3, <2>3, <3>1
    <3>2. CASE k # t
      <4>1. \A c \in Accounts : tokens'[c][t] = tokens[c][t]
        BY <1>1, <1>2, <1>3, <1>4, <3>2
      <4> QED BY <2>3, <3>2, <4>1 DEF HeldOf
    <3>3. CASE k = t /\ k # Morm
      <4>1. /\ tokens'[s][t] = tokens[s][t] + -v
            /\ \A c \in Accounts \ {s} : tokens'[c][t] = tokens[c][t]
            /\ -v \in Int /\ s \in Accounts
        BY <1>1, <1>2, <1>3, <1>4, <2>3, <3>3
      <4> DEFINE n == -v
      <4>2. n \in Int /\ tokens'[s][t] = tokens[s][t] + n
        BY <4>1
      <4> HIDE DEF n
      <4>3. HeldOf(tokens', t) = HeldOf(tokens, t) + n
        BY ONLY <2>3, <4>1, <4>2, HeldChange
      <4> QED BY <3>3, <4>3 DEF n
    <3> QED BY <3>1, <3>2, <3>3
  <2> QED BY <1>1, <2>1, <2>2, <2>3, <2>4
<1>8. TokensBacked'
  BY <1>7 DEF TokensBacked, HeldOf, Amounts, OfToken, SumFunction
<1> QED BY <1>1, <1>6, <1>8 DEF BackedInv, TablesFinite

LEMMA MintBacked ==
    ASSUME TypeOK, BackedInv, NEW op \in TreasuryOps, NEW R, BridgeMint(op, R)
    PROVE  BackedInv'
<1> DEFINE new == [lock |-> op.lock, to |-> op.to, token |-> op.token, amount |-> op.amount]
           k == op.token
           v == op.amount
<1>1. /\ burns' = burns /\ mints' = mints \cup {new}
      /\ new.lock = op.lock /\ new.token = k /\ new.amount = v
  BY DEF BridgeMint
<1>2. v \in Int /\ op.to \in Accounts
  BY MintPayload DEF BridgeMint
<1>3. k # Morm => k \in Tokens /\ tokens' = [tokens EXCEPT ![op.to][k] = @ + v]
  BY DEF BridgeMint
<1>4. k = Morm => k \notin Tokens /\ tokens' = tokens
  BY LedgerAssumption DEF BridgeMint
<1>5. /\ tokens \in [Accounts -> [Tokens -> Int]]
      /\ \A m \in mints : m.amount \in Int
  BY DEF TypeOK, BridgeTypeOK, MintRow
<1>6. \A m \in mints : m.lock # op.lock
  BY DEF BridgeMint
<1> HIDE DEF new, k, v
<1>7. new \notin mints
  BY <1>1, <1>6
<1>8. IsFiniteSet(mints')
  BY <1>1, FS_AddElement DEF BackedInv, TablesFinite
<1>9. ASSUME NEW t \in Tokens
      PROVE  HeldOf(tokens', t) + Amounts(OfToken(burns', t)) = Amounts(OfToken(mints', t))
  <2>1. HeldOf(tokens, t) + Amounts(OfToken(burns, t)) = Amounts(OfToken(mints, t))
    BY BackedIs DEF BackedInv
  <2>2. /\ Amounts(OfToken(mints, t)) \in Int
        /\ Amounts(OfToken(mints', t))
             = Amounts(OfToken(mints, t)) + (IF k = t THEN v ELSE 0)
    BY <1>1, <1>2, <1>5, <1>7, OfTokenAdd DEF BackedInv, TablesFinite
  <2>3. HeldOf(tokens, t) \in Int /\ \A c \in Accounts : tokens[c][t] \in Int
    BY <1>5, HeldTokens
  <2>4. HeldOf(tokens', t) = HeldOf(tokens, t) + (IF k = t THEN v ELSE 0)
    <3>1. CASE k = Morm
      BY <1>4, <2>3, <3>1
    <3>2. CASE k # t
      <4>1. \A c \in Accounts : tokens'[c][t] = tokens[c][t]
        BY <1>2, <1>3, <1>4, <1>5, <3>2
      <4> QED BY <2>3, <3>2, <4>1 DEF HeldOf
    <3>3. CASE k = t /\ k # Morm
      <4>1. /\ tokens'[op.to][t] = tokens[op.to][t] + v
            /\ \A c \in Accounts \ {op.to} : tokens'[c][t] = tokens[c][t]
            /\ v \in Int /\ op.to \in Accounts
        BY <1>2, <1>3, <1>4, <1>5, <2>3, <3>3
      <4>2. HeldOf(tokens', t) = HeldOf(tokens, t) + v
        BY ONLY <2>3, <4>1, HeldChange
      <4> QED BY <3>3, <4>2
    <3> QED BY <3>1, <3>2, <3>3
  <2>5. Amounts(OfToken(burns, t)) \in Int
    <3>1. IsFiniteSet(OfToken(burns, t)) /\ \A b \in OfToken(burns, t) : b.amount \in Int
      BY FS_Subset DEF BackedInv, TablesFinite, OfToken, TypeOK, BridgeTypeOK, BurnRow
    <3> QED BY <3>1, AmountsTyped
  <2> DEFINE B == Amounts(OfToken(burns, t))
             M == Amounts(OfToken(mints, t))
             H == HeldOf(tokens, t)
             n == IF k = t THEN v ELSE 0
  <2>6. n \in Int /\ B \in Int /\ M \in Int /\ H \in Int /\ H + B = M
    BY <1>2, <2>1, <2>2, <2>3, <2>5
  <2>7. Amounts(OfToken(mints', t)) = M + n /\ HeldOf(tokens', t) = H + n
    BY <2>2, <2>4
  <2>8. Amounts(OfToken(burns', t)) = B
    BY <1>1
  <2> HIDE DEF B, M, H, n
  <2> QED BY <2>6, <2>7, <2>8
<1>10. TokensBacked'
  BY <1>9 DEF TokensBacked, HeldOf, Amounts, OfToken, SumFunction
<1> QED BY <1>1, <1>8, <1>10 DEF BackedInv, TablesFinite

LEMMA StepBacked ==
    ASSUME TypeOK, BurnIdsUnique, BackedInv, [Next]_vars
    PROVE  BackedInv'
<1>1. ASSUME UNCHANGED bridgeVars
      PROVE  BackedInv'
  BY <1>1 DEF bridgeVars, BackedInv, TablesFinite, TokensBacked
<1>2. ASSUME NEW op \in TreasuryOps, NEW R, TreasuryHandler(op, R)
      PROVE  BackedInv'
  <2>1. CASE BridgeMint(op, R)
    BY <2>1, MintBacked
  <2> QED
    BY <1>1, <1>2, <2>1 DEF TreasuryHandler, RegisterAiService, RegisterProducer,
       FinalizeValid, FinalizeInvalid
<1>3. TreasuryTx => BackedInv'
  BY <1>1, <1>2 DEF TreasuryTx, DirectTreasuryTx, MultisigTx, RegisterTreasurySigners
<1>4. ASSUME NEW s \in Users, MarketTx(s)
      PROVE  BackedInv'
  BY <1>1, <1>4 DEF MarketTx, RegisterContent, CreateOrder, SubmitProof, ViewRewardTx,
     PostJob, ClaimJob, SubmitWorkProof
<1>5. ASSUME NEW s \in Users, MoneyTx(s)
      PROVE  BackedInv'
  BY <1>1, <1>5, BurnBacked DEF MoneyTx, Stake, Transfer
<1> QED
  BY <1>1, <1>3, <1>4, <1>5 DEF Next, Cosign, vars

LEMMA InitBacked == Init => BackedInv
<1> SUFFICES ASSUME Init PROVE BackedInv
  OBVIOUS
<1>1. mints = {} /\ burns = {} /\ tokens = [a \in Accounts |-> [t \in Tokens |-> 0]]
  BY DEF Init
<1>2. TablesFinite
  BY <1>1, FS_EmptySet DEF TablesFinite
<1>3. Amounts({}) = 0
  BY FS_EmptySet, AmountsSum, SumEmpty
<1>4. ASSUME NEW t \in Tokens
      PROVE  HeldOf(tokens, t) + Amounts(OfToken(burns, t)) = Amounts(OfToken(mints, t))
  <2> DEFINE f == [a \in Accounts |-> tokens[a][t]]
  <2>1. \A a \in Accounts : f[a] = 0
    BY <1>1
  <2>2. HeldOf(tokens, t) = SumFunctionOnSet(f, Accounts)
    BY DEF HeldOf
  <2> HIDE DEF f
  <2>3. HeldOf(tokens, t) = 0
    BY <2>1, <2>2, AccountsFinite, SumZero
  <2>4. OfToken(burns, t) = {} /\ OfToken(mints, t) = {}
    BY <1>1 DEF OfToken
  <2> QED BY <1>3, <2>3, <2>4
<1> QED BY <1>2, <1>4, BackedIs DEF BackedInv

\* A mirrored token exists exactly as far as locks were minted and not burned.
THEOREM TokensAlwaysBacked == Spec => []TokensBacked
<1>1. Init => TypeOK /\ BurnIdsUnique /\ BackedInv
  BY InitTyped, InitBacked DEF Init, BurnIdsUnique
<1>2. TypeOK /\ BurnIdsUnique /\ BackedInv /\ [Next]_vars
        => (TypeOK /\ BurnIdsUnique /\ BackedInv)'
  BY StepTyped, StepBurnIds, StepBacked
<1>3. BackedInv => TokensBacked
  BY DEF BackedInv
<1>4. QED
  BY <1>1, <1>2, <1>3, PTL DEF Spec

=============================================================================
