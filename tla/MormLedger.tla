----------------------------- MODULE MormLedger -----------------------------
(***************************************************************************)
(* The transaction layer of morm-l1 (morm_l1/state.py): the SQLite tables  *)
(* of State and the sixteen handlers `_apply_tx` dispatches to.            *)
(*                                                                         *)
(* One action is one transaction that `_apply_tx` ACCEPTS, in the strict   *)
(* mode of `apply_block`: a handler that raises StateError rolls the whole *)
(* block back, so a refused transaction is no step here.  (What a refused  *)
(* transaction leaves behind at a block PRODUCER, which does not roll back,*)
(* is the subject of MormProducer.)  A guard is the negation of the        *)
(* handler's `raise StateError` conditions.                                *)
(*                                                                         *)
(* Amounts are naturals.  Hashes, names, timestamps and signatures of      *)
(* ordinary senders are abstracted: an action of sender s is a transaction *)
(* that the key of s signed with the nonce the chain expects.              *)
(***************************************************************************)
EXTENDS Integers, FiniteSets, FiniteSetsExt, Functions

CONSTANTS
    Users,          \* addresses whose key somebody holds, treasury included
    Treasury,       \* State.treasury
    Escrow,         \* ESCROW_ACCOUNT, a synthetic address nobody has the key of
    Contents,       \* content ids
    Generations,    \* generation ids a content may carry
    NoGeneration,   \* REGISTER_CONTENT without a generation id
    NoService,      \* REGISTER_CONTENT without an AI attestation
    Orders, Jobs,   \* order ids, job ids
    Cells,          \* cell indices of a content
    EvmLocks,       \* evm_lock_id of the Locked events the relayer reports
    Morm,           \* the native token
    Tokens,         \* mirrored ERC-20 tokens
    Services,       \* public keys of AI services
    Producers,      \* public keys of block producers
    SignerSets,     \* signer lists REGISTER_TREASURY_SIGNERS may carry
    Values,         \* amounts a transaction may carry
    GenesisSupply,  \* balance the genesis row of the treasury starts with
    FeeBps, BpsDenom, ViewReward,
    MaxNonce,       \* bound: transactions each user signs
    MaxCosigs       \* bound: cosignatures in existence

ASSUME LedgerAssumption ==
    /\ Treasury \in Users
    /\ Escrow \notin Users /\ IsFiniteSet(Users)
    /\ NoGeneration \notin Generations
    /\ NoService \notin Services
    /\ Morm \notin Tokens
    /\ SignerSets \subseteq SUBSET Users
    /\ \A S \in SignerSets : IsFiniteSet(S)
    /\ Values \subseteq Nat
    /\ GenesisSupply \in Nat
    /\ FeeBps \in Nat /\ BpsDenom \in Nat \ {0} /\ FeeBps <= BpsDenom
    /\ ViewReward \in Nat
    /\ MaxNonce \in [Users -> Nat] /\ MaxCosigs \in Nat

Accounts == Users \cup {Escrow}
AllTokens == Tokens \cup {Morm}

VARIABLES
    rows,       \* addresses that have a row in `accounts`
    nonce, balance, stake, locked,  \* the columns of that row
    contents,   \* `contents`: <<content id, generation id>>
    orders, jobs, views, workers,
    mints, burns, tokens,           \* `bridge_mints`, `bridge_burns`, `account_tokens`
    services, producers,            \* `ai_services`, `producers`
    signers, threshold, enabled,    \* `treasury_signers`, `treasury_config`
    cosigned    \* cosignatures made off-chain so far

accountVars == <<rows, nonce, balance, stake, locked>>
marketVars == <<contents, orders, jobs, views, workers>>
bridgeVars == <<mints, burns, tokens>>
registryVars == <<services, producers>>
multisigVars == <<signers, threshold, enabled>>
vars == <<accountVars, marketVars, bridgeVars, registryVars, multisigVars, cosigned>>

-----------------------------------------------------------------------------
(* Rows of the tables.  Status 0 stands for "no such row".                  *)

Created == 1
Packed == 2
Opened == 3
Paid == 4
Refunded == 5
Posted == 1
Claimed == 2
Done == 3

OrderRow == [status : 0..5, buyer : Accounts, seller : Accounts, amount : Nat]
JobRow == [status : 0..3, poster : Accounts, claimer : Accounts, reward : Nat]
NoOrder == [status |-> 0, buyer |-> Escrow, seller |-> Escrow, amount |-> 0]
NoJob == [status |-> 0, poster |-> Escrow, claimer |-> Escrow, reward |-> 0]

\* bridge_mints; the token is kept for the properties, the table omits it
MintRow == [lock : EvmLocks, to : Accounts, token : AllTokens, amount : Nat]

\* bridge_burns is keyed by the transaction's hash, that is by (sender, nonce)
BurnRow == [burner : Users, nonce : Nat, token : AllTokens, amount : Nat]

\* The kinds in _TREASURY_ONLY_KINDS with their payloads
TreasuryOps ==
    [kind : {"BRIDGE_MINT"}, lock : EvmLocks, to : Accounts,
     token : AllTokens, amount : Values]
    \cup [kind : {"REGISTER_AI_SERVICE"}, pubkey : Services]
    \cup [kind : {"REGISTER_PRODUCER"}, pubkey : Producers]
    \cup [kind : {"FINALIZE"}, order : Orders, valid : BOOLEAN]

Cosignature == [op : TreasuryOps, nonce : Nat, by : Users]

-----------------------------------------------------------------------------
Init ==
    /\ rows = {Treasury}
    /\ nonce = [a \in Accounts |-> 0]
    /\ balance = [a \in Accounts |-> IF a = Treasury THEN GenesisSupply ELSE 0]
    /\ stake = [a \in Accounts |-> 0]
    /\ locked = [a \in Accounts |-> FALSE]
    /\ contents = {}
    /\ orders = [o \in Orders |-> NoOrder]
    /\ jobs = [j \in Jobs |-> NoJob]
    /\ views = {}
    /\ workers = [a \in Accounts |-> [completed |-> 0, earned |-> 0]]
    /\ mints = {} /\ burns = {}
    /\ tokens = [a \in Accounts |-> [t \in Tokens |-> 0]]
    /\ services = {} /\ producers = {}
    /\ signers = {} /\ threshold = 0 /\ enabled = FALSE
    /\ cosigned = {}

-----------------------------------------------------------------------------
(* `UPDATE accounts SET balance=balance+? WHERE address=?`: without a row   *)
(* for the address the statement changes nothing, and the amount is lost.   *)

Add(bal, R, a, n) == IF a \in R THEN [bal EXCEPT ![a] = @ + n] ELSE bal
Move(bal, R, from, to, n) == Add(Add(bal, R, from, -n), R, to, n)

Fee(value) == (value * FeeBps) \div BpsDenom

\* Deviation: a locked account may still sign
AcceptsLocked(s) == s \in Users /\ nonce[s] < MaxNonce[s]
\* Deviation: the nonce is not used up
SpendNothing(s) == UNCHANGED nonce

\* _apply_tx up to the dispatch, and the nonce update after it
Accepts(s) ==
    /\ s \in Users
    /\ ~locked[s]
    /\ nonce[s] < MaxNonce[s]
Spend(s) == nonce' = [nonce EXCEPT ![s] = @ + 1]

ContentKnown(c) == \E r \in contents : r[1] = c

-----------------------------------------------------------------------------
(* Content, orders and stake.                                               *)

RegisterContent(s, c, g, attester) ==
    /\ Accepts(s)
    /\ ~ContentKnown(c)
    /\ g # NoGeneration =>
         /\ \A r \in contents : r[2] # g
         /\ services # {} => attester \in services
    /\ contents' = contents \cup {<<c, g>>}
    /\ rows' = rows \cup {s} /\ Spend(s)
    /\ UNCHANGED <<balance, stake, locked, orders, jobs, views, workers,
                   bridgeVars, registryVars, multisigVars, cosigned>>

CreateOrder(s, o, c, seller, value) ==
    LET fee == Fee(value)
        feePaid == Move(balance, rows', s, Treasury, fee)
    IN  /\ Accepts(s)
        /\ orders[o].status = 0
        /\ ContentKnown(c)
        /\ balance[s] >= value
        /\ ~locked[seller]
        /\ rows' = rows \cup {s, seller, Escrow} /\ Spend(s)
        /\ balance' = Move(feePaid, rows', s, Escrow, value - fee)
        /\ orders' = [orders EXCEPT ![o] =
             [status |-> Created, buyer |-> s, seller |-> seller, amount |-> value - fee]]
        /\ UNCHANGED <<stake, locked, contents, jobs, views, workers,
                       bridgeVars, registryVars, multisigVars, cosigned>>

SubmitProof(s, o, role) ==
    /\ Accepts(s)
    /\ \/ /\ role = "packing" /\ s = orders[o].seller
          /\ orders[o].status = Created
          /\ orders' = [orders EXCEPT ![o].status = Packed]
       \/ /\ role = "opening" /\ s = orders[o].buyer
          /\ orders[o].status = Packed
          /\ orders' = [orders EXCEPT ![o].status = Opened]
    /\ rows' = rows \cup {s} /\ Spend(s)
    /\ UNCHANGED <<balance, stake, locked, contents, jobs, views, workers,
                   bridgeVars, registryVars, multisigVars, cosigned>>

\* Deviation: the two columns are exchanged
StakeReversed(s, amount) ==
    /\ Accepts(s) /\ balance[s] >= amount
    /\ rows' = rows \cup {s} /\ Spend(s)
    /\ balance' = Add(balance, rows', s, amount)
    /\ stake' = Add(stake, rows', s, -amount)
    /\ UNCHANGED <<locked, marketVars, bridgeVars, registryVars, multisigVars, cosigned>>

Stake(s, amount) ==
    /\ Accepts(s)
    /\ balance[s] >= amount
    /\ rows' = rows \cup {s} /\ Spend(s)
    /\ balance' = Add(balance, rows', s, -amount)
    /\ stake' = Add(stake, rows', s, amount)
    /\ UNCHANGED <<locked, marketVars, bridgeVars, registryVars, multisigVars, cosigned>>

Transfer(s, to, amount) ==
    /\ Accepts(s)
    /\ amount > 0
    /\ balance[s] >= amount
    /\ ~locked[to]
    /\ rows' = rows \cup {s, to} /\ Spend(s)
    /\ balance' = Move(balance, rows', s, to, amount)
    /\ UNCHANGED <<stake, locked, marketVars, bridgeVars, registryVars,
                   multisigVars, cosigned>>

ViewRewardTx(s, c, cell) ==
    /\ Accepts(s)
    /\ ContentKnown(c)
    /\ <<s, c, cell>> \notin views
    /\ balance[Treasury] >= ViewReward
    /\ rows' = rows \cup {s} /\ Spend(s)
    /\ balance' = Move(balance, rows', Treasury, s, ViewReward)
    /\ views' = views \cup {<<s, c, cell>>}
    /\ UNCHANGED <<stake, locked, contents, orders, jobs, workers,
                   bridgeVars, registryVars, multisigVars, cosigned>>

-----------------------------------------------------------------------------
(* Proof-of-useful-work jobs.                                               *)

PostJob(s, j, c, reward) ==
    /\ Accepts(s)
    /\ reward > 0
    /\ jobs[j].status = 0
    /\ ContentKnown(c)
    /\ balance[s] >= reward
    /\ rows' = rows \cup {s, Escrow} /\ Spend(s)
    /\ balance' = Move(balance, rows', s, Escrow, reward)
    /\ jobs' = [jobs EXCEPT ![j] =
         [status |-> Posted, poster |-> s, claimer |-> Escrow, reward |-> reward]]
    /\ UNCHANGED <<stake, locked, contents, orders, views, workers,
                   bridgeVars, registryVars, multisigVars, cosigned>>

ClaimJob(s, j) ==
    /\ Accepts(s)
    /\ jobs[j].status = Posted
    /\ jobs' = [jobs EXCEPT ![j].status = Claimed, ![j].claimer = s]
    /\ rows' = rows \cup {s} /\ Spend(s)
    /\ UNCHANGED <<balance, stake, locked, contents, orders, views, workers,
                   bridgeVars, registryVars, multisigVars, cosigned>>

\* Deviation: the job stays claimed, to be delivered again
SubmitWorkProofAgain(s, j) ==
    /\ Accepts(s) /\ jobs[j].status = Claimed /\ jobs[j].claimer = s
    /\ rows' = rows \cup {s} /\ Spend(s)
    /\ balance' = Move(balance, rows', Escrow, s, jobs[j].reward)
    /\ workers' = [workers EXCEPT ![s] =
         [completed |-> @.completed + 1, earned |-> @.earned + jobs[j].reward]]
    /\ UNCHANGED <<stake, locked, contents, orders, jobs, views,
                   bridgeVars, registryVars, multisigVars, cosigned>>

SubmitWorkProof(s, j) ==
    /\ Accepts(s)
    /\ jobs[j].status = Claimed
    /\ jobs[j].claimer = s
    /\ rows' = rows \cup {s} /\ Spend(s)
    /\ balance' = Move(balance, rows', Escrow, s, jobs[j].reward)
    /\ jobs' = [jobs EXCEPT ![j].status = Done]
    /\ workers' = [workers EXCEPT ![s] =
         [completed |-> @.completed + 1, earned |-> @.earned + jobs[j].reward]]
    /\ UNCHANGED <<stake, locked, contents, orders, views,
                   bridgeVars, registryVars, multisigVars, cosigned>>

-----------------------------------------------------------------------------
(* The bridge's burn side, open to every account.                           *)

\* Deviation: a mirrored token is burned, and stays
BridgeBurnKeeps(s, token, amount) ==
    /\ Accepts(s) /\ amount > 0 /\ token \in Tokens /\ tokens[s][token] >= amount
    /\ rows' = rows \cup {s} /\ Spend(s)
    /\ burns' = burns \cup
         {[burner |-> s, nonce |-> nonce[s], token |-> token, amount |-> amount]}
    /\ UNCHANGED <<balance, stake, locked, mints, tokens, marketVars, registryVars,
                   multisigVars, cosigned>>

BridgeBurn(s, token, amount) ==
    /\ Accepts(s)
    /\ amount > 0
    /\ rows' = rows \cup {s} /\ Spend(s)
    /\ \/ /\ token = Morm
          /\ balance[s] >= amount
          /\ balance' = Move(balance, rows', s, Treasury, amount)
          /\ UNCHANGED tokens
       \/ /\ token \in Tokens
          /\ tokens[s][token] >= amount
          /\ tokens' = [tokens EXCEPT ![s][token] = @ - amount]
          /\ UNCHANGED balance
    /\ burns' = burns \cup
         {[burner |-> s, nonce |-> nonce[s], token |-> token, amount |-> amount]}
    /\ UNCHANGED <<stake, locked, mints, marketVars, registryVars, multisigVars, cosigned>>

-----------------------------------------------------------------------------
(* The treasury-only handlers.  R: the rows once _apply_tx ensured the      *)
(* sender's.  They leave the nonces to whoever dispatched to them.          *)

\* Deviation: the lock is not looked up in bridge_mints
BridgeMintAgain(op, R) ==
    /\ op.kind = "BRIDGE_MINT" /\ op.amount > 0 /\ op.token \in Tokens
    /\ rows' = R \cup {op.to}
    /\ tokens' = [tokens EXCEPT ![op.to][op.token] = @ + op.amount]
    /\ mints' = mints \cup
         {[lock |-> op.lock, to |-> op.to, token |-> op.token, amount |-> op.amount]}
    /\ UNCHANGED <<balance, stake, locked, burns, marketVars, registryVars>>

BridgeMint(op, R) ==
    /\ op.kind = "BRIDGE_MINT"
    /\ op.amount > 0
    /\ \A m \in mints : m.lock # op.lock
    /\ rows' = R \cup {op.to}
    /\ \/ /\ op.token = Morm
          /\ balance[Treasury] >= op.amount
          /\ balance' = Move(balance, rows', Treasury, op.to, op.amount)
          /\ UNCHANGED tokens
       \/ /\ op.token \in Tokens
          /\ tokens' = [tokens EXCEPT ![op.to][op.token] = @ + op.amount]
          /\ UNCHANGED balance
    /\ mints' = mints \cup
         {[lock |-> op.lock, to |-> op.to, token |-> op.token, amount |-> op.amount]}
    /\ UNCHANGED <<stake, locked, burns, marketVars, registryVars>>

RegisterAiService(op, R) ==
    /\ op.kind = "REGISTER_AI_SERVICE"
    /\ op.pubkey \notin services
    /\ services' = services \cup {op.pubkey}
    /\ rows' = R
    /\ UNCHANGED <<balance, stake, locked, marketVars, bridgeVars, producers>>

RegisterProducer(op, R) ==
    /\ op.kind = "REGISTER_PRODUCER"
    /\ op.pubkey \notin producers
    /\ producers' = producers \cup {op.pubkey}
    /\ rows' = R
    /\ UNCHANGED <<balance, stake, locked, marketVars, bridgeVars, services>>

\* A valid order pays the seller.  An invalid one refunds the buyer, slashes
\* the seller's whole stake to the treasury and locks the seller for good.
FinalizeValid(op, R) ==
    LET ord == orders[op.order]
    IN  /\ op.kind = "FINALIZE" /\ op.valid
        /\ ord.status = Opened
        /\ balance' = Move(balance, R, Escrow, ord.seller, ord.amount)
        /\ orders' = [orders EXCEPT ![op.order].status = Paid]
        /\ rows' = R
        /\ UNCHANGED <<stake, locked, contents, jobs, views, workers,
                       bridgeVars, registryVars>>

\* Deviation: the slashed stake is credited to nobody
FinalizeInvalidBurns(op, R) ==
    LET ord == orders[op.order]
    IN  /\ op.kind = "FINALIZE" /\ ~op.valid /\ ord.status = Opened
        /\ balance' = Move(balance, R, Escrow, ord.buyer, ord.amount)
        /\ stake' = [stake EXCEPT ![ord.seller] = 0]
        /\ locked' = [locked EXCEPT ![ord.seller] = TRUE]
        /\ orders' = [orders EXCEPT ![op.order].status = Refunded]
        /\ rows' = R
        /\ UNCHANGED <<contents, jobs, views, workers, bridgeVars, registryVars>>

FinalizeInvalid(op, R) ==
    LET ord == orders[op.order]
        refunded == Move(balance, R, Escrow, ord.buyer, ord.amount)
    IN  /\ op.kind = "FINALIZE" /\ ~op.valid
        /\ ord.status = Opened
        /\ balance' = Add(refunded, R, Treasury, stake[ord.seller])
        /\ stake' = [stake EXCEPT ![ord.seller] = 0]
        /\ locked' = [locked EXCEPT ![ord.seller] = TRUE]
        /\ orders' = [orders EXCEPT ![op.order].status = Refunded]
        /\ rows' = R
        /\ UNCHANGED <<contents, jobs, views, workers, bridgeVars, registryVars>>

TreasuryHandler(op, R) ==
    \/ BridgeMint(op, R)
    \/ RegisterAiService(op, R)
    \/ RegisterProducer(op, R)
    \/ FinalizeValid(op, R)
    \/ FinalizeInvalid(op, R)

\* _apply_tx on a treasury-only kind signed by the treasury's single key
DirectTreasuryTx(op) ==
    /\ Accepts(Treasury)
    /\ ~enabled
    /\ TreasuryHandler(op, rows \cup {Treasury})
    /\ Spend(Treasury)
    /\ UNCHANGED <<multisigVars, cosigned>>

RegisterTreasurySigners(S, m) ==
    /\ Accepts(Treasury)
    /\ ~enabled
    /\ S # {}
    /\ m \in 1..Cardinality(S)
    /\ signers' = S /\ threshold' = m /\ enabled' = TRUE
    /\ rows' = rows \cup {Treasury} /\ Spend(Treasury)
    /\ UNCHANGED <<balance, stake, locked, marketVars, bridgeVars, registryVars, cosigned>>

-----------------------------------------------------------------------------
(* MULTISIG_TX: the wrapper of submitter s carries the cosignatures of K on *)
(* (op, n).  Cosignatures are made off-chain, at any time, on any nonce; a  *)
(* signature once made stays usable.                                        *)

Cosign(u, op, n) ==
    /\ Cardinality(cosigned) < MaxCosigs
    /\ cosigned' = cosigned \cup {[op |-> op, nonce |-> n, by |-> u]}
    /\ UNCHANGED <<accountVars, marketVars, bridgeVars, registryVars, multisigVars>>

Cosigners(op, n) == {u \in signers : [op |-> op, nonce |-> n, by |-> u] \in cosigned}

\* Deviation: the treasury's nonce stays, and with it the cosignatures
MultisigTxReplayable(s, op) ==
    /\ Accepts(s) /\ enabled /\ s \in signers
    /\ Cardinality(Cosigners(op, nonce[Treasury])) >= threshold
    /\ TreasuryHandler(op, rows \cup {s})
    /\ Spend(s)
    /\ UNCHANGED <<multisigVars, cosigned>>

MultisigTx(s, op) ==
    /\ Accepts(s)
    /\ enabled
    /\ s \in signers
    /\ Cardinality(Cosigners(op, nonce[Treasury])) >= threshold
    /\ TreasuryHandler(op, rows \cup {s})
    /\ nonce' = [nonce EXCEPT ![Treasury] = @ + 1, ![s] = @ + 1]
    /\ UNCHANGED <<multisigVars, cosigned>>

-----------------------------------------------------------------------------
MarketTx(s) ==
    \/ \E c \in Contents, g \in Generations \cup {NoGeneration},
          k \in Services \cup {NoService} : RegisterContent(s, c, g, k)
    \/ \E o \in Orders, c \in Contents, seller \in Accounts, v \in Values :
          CreateOrder(s, o, c, seller, v)
    \/ \E o \in Orders, role \in {"packing", "opening"} : SubmitProof(s, o, role)
    \/ \E c \in Contents, i \in Cells : ViewRewardTx(s, c, i)
    \/ \E j \in Jobs, c \in Contents, v \in Values : PostJob(s, j, c, v)
    \/ \E j \in Jobs : ClaimJob(s, j)
    \/ \E j \in Jobs : SubmitWorkProof(s, j)

MoneyTx(s) ==
    \/ \E v \in Values : Stake(s, v)
    \/ \E to \in Accounts, v \in Values : Transfer(s, to, v)
    \/ \E t \in AllTokens, v \in Values : BridgeBurn(s, t, v)

TreasuryTx ==
    \/ \E op \in TreasuryOps : DirectTreasuryTx(op)
    \/ \E S \in SignerSets : \E m \in 1..Cardinality(S) : RegisterTreasurySigners(S, m)
    \/ \E s \in Users, op \in TreasuryOps : MultisigTx(s, op)

Next ==
    \/ \E s \in Users : MarketTx(s)
    \/ \E s \in Users : MoneyTx(s)
    \/ TreasuryTx
    \/ \E u \in UNION SignerSets, op \in TreasuryOps, n \in 0..MaxNonce[Treasury] : Cosign(u, op, n)

Spec == Init /\ [][Next]_vars

-----------------------------------------------------------------------------
(* Type correctness.  Balances are integers: no handler checks the escrow's *)
(* balance before debiting it, so that it stays non-negative is a property. *)
AccountsTypeOK ==
    /\ rows \subseteq Accounts
    /\ nonce \in [Accounts -> Nat]
    /\ balance \in [Accounts -> Int]
    /\ stake \in [Accounts -> Nat]
    /\ locked \in [Accounts -> BOOLEAN]

MarketTypeOK ==
    /\ contents \subseteq Contents \X (Generations \cup {NoGeneration})
    /\ orders \in [Orders -> OrderRow]
    /\ jobs \in [Jobs -> JobRow]
    /\ views \subseteq Users \X Contents \X Cells
    /\ workers \in [Accounts -> [completed : Nat, earned : Nat]]

BridgeTypeOK ==
    /\ mints \subseteq MintRow /\ burns \subseteq BurnRow
    /\ tokens \in [Accounts -> [Tokens -> Int]]

ControlTypeOK ==
    /\ services \subseteq Services /\ producers \subseteq Producers
    /\ signers \subseteq Users /\ threshold \in Nat /\ enabled \in BOOLEAN
    /\ cosigned \subseteq Cosignature

TypeOK == AccountsTypeOK /\ MarketTypeOK /\ BridgeTypeOK /\ ControlTypeOK

\* Money is neither made nor lost: balances and stakes add up to the genesis
\* supply after every transaction, whoever pays, earns, stakes or is slashed.
SupplyConserved == SumFunction([a \in Accounts |-> balance[a] + stake[a]]) = GenesisSupply

\* A slashed seller is out for good: the lock is never lifted, the account
\* never signs another transaction, nothing leaves it and it holds no stake.
\* (The treasury is exempt: subsidies and mints draw on it without its key.)
LockedIsFinal ==
    [][\A a \in Accounts \ {Treasury} : locked[a] =>
          /\ locked'[a]
          /\ nonce'[a] = nonce[a]
          /\ balance'[a] >= balance[a]
          /\ stake[a] = 0 /\ stake'[a] = 0]_vars

\* An EVM lock is minted at most once, whichever of the two authorities (the
\* single treasury key, then the signer set) the relayer reports it through.
MintOnce == \A m, n \in mints : m.lock = n.lock => m = n

\* A mirrored token exists on L1 exactly as far as EVM locks were reported and
\* not burned again.
AmountOf(r) == r.amount
TokensBacked ==
    \A t \in Tokens :
        SumFunction([a \in Accounts |-> tokens[a][t]])
          + MapThenSumSet(AmountOf, {b \in burns : b.token = t})
        = MapThenSumSet(AmountOf, {m \in mints : m.token = t})

\* Two burns never share the transaction hash that keys bridge_burns, and so
\* the burn id under which the EVM side pays.
BurnIdsUnique ==
    /\ \A b, d \in burns : b.burner = d.burner /\ b.nonce = d.nonce => b = d
    /\ \A b \in burns : b.nonce < nonce[b.burner]

\* Once the signer set is active, a treasury-only effect (a mint, a producer,
\* an AI service, a settled order) happens only if at least `threshold`
\* registered signers cosigned that very operation for the treasury's current
\* nonce, and it uses the nonce up, so the cosignatures serve once.
Authorised(op) == Cardinality(Cosigners(op, nonce[Treasury])) >= threshold
TreasuryEffect ==
    \/ mints' # mints \/ producers' # producers \/ services' # services
    \/ \E o \in Orders : orders[o].status = Opened /\ orders'[o].status # Opened
CosignedOnly ==
    [][enabled =>
          /\ enabled' /\ signers' = signers /\ threshold' = threshold
          /\ \A m \in mints' \ mints :
                Authorised([kind |-> "BRIDGE_MINT", lock |-> m.lock, to |-> m.to,
                            token |-> m.token, amount |-> m.amount])
          /\ \A k \in producers' \ producers :
                Authorised([kind |-> "REGISTER_PRODUCER", pubkey |-> k])
          /\ \A k \in services' \ services :
                Authorised([kind |-> "REGISTER_AI_SERVICE", pubkey |-> k])
          /\ \A o \in Orders : orders[o].status = Opened /\ orders'[o].status # Opened =>
                Authorised([kind |-> "FINALIZE", order |-> o,
                            valid |-> orders'[o].status = Paid])
          /\ TreasuryEffect => nonce'[Treasury] > nonce[Treasury]]_vars

=============================================================================
