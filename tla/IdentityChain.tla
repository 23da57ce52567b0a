---------------------------- MODULE IdentityChain ---------------------------
(***************************************************************************)
(* The identity registry of x/identity and the identity gate composed in  *)
(* the chain's transaction pipeline, replicated on several validators.    *)
(*                                                                         *)
(* Every validator executes the same blocks, transaction by transaction,  *)
(* in the order consensus fixed.  A transaction runs as baseapp runs it:  *)
(* the messages' ValidateBasic, the ante chain ending in the identity     *)
(* gate, then the messages one after the other; the first failure         *)
(* discards every write of the transaction.  Consensus, signatures, fees  *)
(* and balances are not modelled: a bank or other module message may      *)
(* fail (insufficient funds, ...), which is a choice shared by all nodes. *)
(* The only per-node input is the wall clock read by CreateIdentity.      *)
(*                                                                         *)
(* Each node also admits transactions clients submit to its mempool:     *)
(* CheckTx runs ValidateBasic and the ante chain (not the messages)       *)
(* against its check state, the store and block header of its last        *)
(* commit; after every commit the mempool is rechecked against the new    *)
(* check state.  A node may restart between blocks: the committed store   *)
(* survives, the mempool is lost and baseapp starts the check state with  *)
(* an empty header (height 0) until its next commit.                      *)
(***************************************************************************)
EXTENDS AnteMessages, FiniteSets

CONSTANTS
  Nodes,        \* validators
  TxPool,       \* transactions a proposer may include
  Secrets,      \* CCCD ids (the empty one is Empty)
  Times,        \* values time.Now().Unix() may return on a node
  Genesis,      \* identity store loaded by InitGenesis: [keys -> records]
  CheckPool,    \* transactions clients submit to a node's CheckTx
  MaxHeight     \* last block height explored

VARIABLES
  height,       \* height of the block being executed, 0 during InitChain
  store,        \* store[n]: node n's identity store, address string -> record
  moved,        \* senders and recipients of the value the last tx moved
  checkState,   \* checkState[n]: header height and store CheckTx runs against
  mempool       \* mempool[n]: transactions node n has admitted

vars == <<height, store, moved, checkState, mempool>>

\* fmt.Sprintf("%x", sha256.Sum256([]byte(cccd))): collision-free digest
IdHash(cccd) == [sha256hex |-> cccd]

\* Mutant: the digest taken of the creator address instead of the CCCD id.
IdentityHashingCreator(addr, cccd, now) ==
  [address |-> addr, idHash |-> IdHash(addr), createdAt |-> now]

Identity(addr, cccd, now) == [address |-> addr, idHash |-> IdHash(cccd), createdAt |-> now]

\* GetIdentity(ctx, address) finds exactly the keys of the store.
Found(s, addr) == addr \in DOMAIN s

\* SetIdentity: store.Set(IdentityKey(identity.Address), identity)
SetIdentity(s, id) == [k \in DOMAIN s \cup {id.address} |-> IF k = id.address THEN id ELSE s[k]]

\* MsgCreateIdentity.ValidateBasic
ValidateBasic(m) ==
  m.type = "MsgCreateIdentity" => Decodes(m.creator) /\ m.cccdId # Empty

\* Mutant: the "already has an identity" check left out (SetIdentity overwrites).
CreateIdentityNoFoundCheck(s, m, now) ==
  [ok |-> TRUE, store |-> SetIdentity(s, Identity(m.creator, m.cccdId, now))]

(***************************************************************************)
(* msgServer.CreateIdentity: fails if msg.Creator already has a record,   *)
(* else stores one keyed by msg.Creator, stamped with the node's clock.   *)
(***************************************************************************)
CreateIdentity(s, m, now) ==
  IF Found(s, m.creator) THEN [ok |-> FALSE, store |-> s]
  ELSE [ok |-> TRUE, store |-> SetIdentity(s, Identity(m.creator, m.cccdId, now))]

\* The value a message moves: who pays and who is paid.
Parties(m) ==
  CASE m.type = "MsgSend" ->
         {[role |-> "sender", addr |-> m.from], [role |-> "recipient", addr |-> m.to]}
    [] m.type = "MsgMultiSend" ->
         {[role |-> "sender", addr |-> m.inputs[k]] : k \in DOMAIN m.inputs} \cup
         {[role |-> "recipient", addr |-> m.outputs[k]] : k \in DOMAIN m.outputs}
    [] OTHER -> {}

(***************************************************************************)
(* runMsgs: the messages of t from index k on, against result r; a        *)
(* message in "failing" is one whose (unmodelled) module handler errs; a  *)
(* bank message also errs when one of its addresses does not decode.      *)
(***************************************************************************)
RECURSIVE RunMsgs(_, _, _, _, _)
RunMsgs(t, k, r, failing, now) ==
  IF k > Len(t) \/ ~r.ok THEN r
  ELSE LET m == t[k] IN
       IF m.type = "MsgCreateIdentity" THEN
         LET c == CreateIdentity(r.store, m, now)
         IN  RunMsgs(t, k + 1, [r EXCEPT !.ok = c.ok, !.store = c.store], failing, now)
       ELSE LET ok == k \notin failing /\ \A p \in Parties(m) : Decodes(p.addr)
            IN  RunMsgs(t, k + 1, [r EXCEPT !.ok = ok, !.moved = @ \cup Parties(m)],
                        failing, now)

\* The identity gate's verdict on t against store s at height h; FinalizeBlock
\* never simulates.
GateAdmits(t, h, s) == Decision(t, h, FALSE, DOMAIN s) = Admitted

\* runTx on one node: the result and the value moved, or no change at all.
RunTx(t, h, s, failing, now) ==
  IF \A k \in DOMAIN t : ValidateBasic(t[k])
  THEN IF GateAdmits(t, h, s)
       THEN LET r == RunMsgs(t, 1, [ok |-> TRUE, store |-> s, moved |-> {}], failing, now)
            IN  IF r.ok THEN r ELSE [ok |-> FALSE, store |-> s, moved |-> {}]
       ELSE [ok |-> FALSE, store |-> s, moved |-> {}]
  ELSE [ok |-> FALSE, store |-> s, moved |-> {}]

\* runTx in CheckTx (and ReCheckTx) mode: ValidateBasic and the ante chain
\* against the check state; the messages are not run and nothing is written.
CheckTxPasses(t, cs) ==
  /\ \A k \in DOMAIN t : ValidateBasic(t[k])
  /\ GateAdmits(t, cs.height, cs.store)

\* The recheck after a commit: the transactions CheckTx still passes.
Recheck(pool, cs) == {t \in pool : CheckTxPasses(t, cs)}

Init ==
  /\ height = 0
  /\ store = [n \in Nodes |-> Genesis]
  /\ moved = {}
  /\ checkState = [n \in Nodes |-> [height |-> 0, store |-> Genesis]]
  /\ mempool = [n \in Nodes |-> {}]

\* FinalizeBlock delivers t to every node; each node reads its own clock.
\* A delivered transaction leaves every mempool.
DeliverTx(t) ==
  \E failing \in SUBSET DOMAIN t, clock \in [Nodes -> Times] :
    LET res(n) == RunTx(t, height, store[n], failing, clock[n]) IN
    /\ store' = [n \in Nodes |-> res(n).store]
    /\ moved' = UNION {res(n).moved : n \in Nodes}
    /\ mempool' = [n \in Nodes |-> mempool[n] \ {t}]
    /\ UNCHANGED <<height, checkState>>

\* Commit ends block "height" (InitChain at 0): the check state takes its
\* header and store, then the mempool is rechecked against it.
Commit ==
  /\ height < MaxHeight
  /\ height' = height + 1
  /\ moved' = {}
  /\ checkState' = [n \in Nodes |-> [height |-> height, store |-> store[n]]]
  /\ mempool' = [n \in Nodes |-> Recheck(mempool[n], checkState'[n])]
  /\ UNCHANGED store

\* CheckTx of a client's transaction on node n.
CheckTx(n, t) ==
  /\ t \notin mempool[n]
  /\ CheckTxPasses(t, checkState[n])
  /\ mempool' = [mempool EXCEPT ![n] = @ \cup {t}]
  /\ UNCHANGED <<height, store, moved, checkState>>

\* Node n restarts between blocks (nothing uncommitted to lose): the
\* mempool is gone and the check state has the committed store and an
\* empty header.
Restart(n) ==
  /\ store[n] = checkState[n].store
  /\ checkState' = [checkState EXCEPT ![n] = [height |-> 0, store |-> store[n]]]
  /\ mempool' = [mempool EXCEPT ![n] = {}]
  /\ UNCHANGED <<height, store, moved>>

Next ==
  \/ \E t \in TxPool : DeliverTx(t)
  \/ Commit
  \/ \E n \in Nodes, t \in CheckPool : CheckTx(n, t)
  \/ \E n \in Nodes : Restart(n)

Spec == Init /\ [][Next]_vars

-----------------------------------------------------------------------------
Records == [address : AddrText, idHash : {IdHash(c) : c \in Secrets}, createdAt : Times]

TypeOK ==
  /\ height \in 0..MaxHeight
  /\ \A n \in Nodes : DOMAIN store[n] \subseteq AddrText
                     /\ \A k \in DOMAIN store[n] : store[n][k] \in Records
  /\ moved \subseteq [role : {"sender", "recipient"}, addr : Texts]
  /\ \A n \in Nodes : mempool[n] \subseteq CheckPool /\ checkState[n].height \in 0..MaxHeight

(***************************************************************************)
(* Identity-gated value transfer (spec 1, 4.4): after genesis, every       *)
(* account that a delivered transaction takes value from or gives value   *)
(* to held an identity record, under its canonical address, in the store  *)
(* the transaction started from.  It needs the gate's signer and          *)
(* recipient extraction to cover exactly the parties the bank handlers    *)
(* move value between, exemptions to cover no value-moving message, and   *)
(* no message of the same transaction to count as registering first.      *)
(***************************************************************************)
GatedTransfers ==
  [][height > 0 =>
       \A p \in moved' : \A n \in Nodes : Normalize(p.addr) \in DOMAIN store[n]]_vars

(***************************************************************************)
(* Identity records are write-once (spec 3, 8): no delivered transaction  *)
(* removes a record or changes its IdHash or CreatedAt, including a       *)
(* second MsgCreateIdentity for the same address, in the same or a later  *)
(* transaction.                                                            *)
(***************************************************************************)
IdentityWriteOnce ==
  [][\A n \in Nodes : \A k \in DOMAIN store[n] :
        k \in DOMAIN store'[n] /\ store'[n][k] = store[n][k]]_vars

(***************************************************************************)
(* One identity per account (spec 3: Address is the normalized account     *)
(* address, primary key, unique; CreateIdentity's comment: one address =  *)
(* one identity): no two records are keyed by strings of the same account. *)
(***************************************************************************)
OneIdentityPerAccount ==
  \A n \in Nodes : \A k1, k2 \in DOMAIN store[n] : k1[1] = k2[1] => k1 = k2

(***************************************************************************)
(* Deterministic replication (spec 5a): validators that executed the same  *)
(* transactions hold the same identity store, so they agree on the app    *)
(* hash.                                                                   *)
(***************************************************************************)
ReplicasAgree == \A n, m \in Nodes : store[n] = store[m]

(***************************************************************************)
(* The mempool holds only transactions the gate admits (spec 5b: the gate *)
(* also runs in the admission checks before block inclusion): once block  *)
(* 1 is committed, every transaction in a node's mempool passes the       *)
(* identity gate against the node's committed store at the committed      *)
(* height.  It relies on CheckTx's context carrying the block height, and *)
(* on the recheck after every commit.                                      *)
(***************************************************************************)
MempoolGated ==
  \A n \in Nodes : height >= 2 =>
    \A t \in mempool[n] : GateAdmits(t, height - 1, checkState[n].store)

=============================================================================
