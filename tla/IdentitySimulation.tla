------------------------- MODULE IdentitySimulation -------------------------
(***************************************************************************)
(* The x/identity part of the cosmos-sdk randomised simulation            *)
(* (src/x/identity/module/simulation.go, simulation/identity.go): the     *)
(* genesis state it generates and the one weighted operation,             *)
(* SimulateMsgCreateIdentity, driving the identity chain of               *)
(* IdentityChain (validate, identity gate, CreateIdentity) on the single  *)
(* application the simulator runs.                                         *)
(*                                                                         *)
(* The simulator calls the operation with the context of the block being  *)
(* finalized, so its GetIdentity sees the writes of the operations before *)
(* it; GenAndDeliverTxWithRandFees delivers the transaction and turns a   *)
(* delivery error into an error of the operation, which ends the run.     *)
(* Fees and signatures of the simulated account are assumed to pass.      *)
(* r.Intn is a choice over CccdDraws, RandomAcc over SimAccounts.         *)
(***************************************************************************)
EXTENDS AnteMessages, FiniteSets

CONSTANTS
  SimAccounts,     \* simState.Accounts
  SampleAccounts,  \* the addresses sample.AccAddress() returns at genesis
  CccdDraws,       \* values r.Intn(999999999) may return
  Times,           \* values time.Now().Unix() may return
  MaxHeight,       \* last simulated block
  MaxOps           \* operations the run executes

ASSUME SimAccounts \cup SampleAccounts \subseteq Accounts
ASSUME CccdDraws \subseteq 0..999999998

VARIABLES
  height,     \* height of the block being simulated
  store,      \* the identity store of the simulated application
  ops,        \* operations executed so far
  failed      \* an operation returned an error (the run fails)

vars == <<height, store, ops, failed>>

Chain == INSTANCE IdentityChain
           WITH Nodes <- {"app"}, TxPool <- {}, Secrets <- {},
                Genesis <- [k \in {} |-> 0],
                store <- [n \in {"app"} |-> store], moved <- {},
                CheckPool <- {}, mempool <- [n \in {"app"} |-> {}],
                checkState <- [n \in {"app"} |-> [height |-> 0, store |-> store]]

(***************************************************************************)
(* GenerateGenesisState: two records for fresh sample addresses, with     *)
(* literal hashes and timestamps; the simulation accounts get none.       *)
(***************************************************************************)
\* An IdHash written as a literal rather than computed as a digest.
Literal(text) == [literal |-> text]

SampleRecord(a, hash, at) == [address |-> AccString(a), idHash |-> Literal(hash), createdAt |-> at]

GenerateGenesisState(s1, s2) ==
  LET r1 == SampleRecord(s1, "sample_hash_1", 1640995200)
      r2 == SampleRecord(s2, "sample_hash_2", 1640995300)
  IN  [k \in {r1.address, r2.address} |-> IF k = r1.address THEN r1 ELSE r2]

\* strconv.Itoa(r.Intn(999999999) + 100000000), as the number it spells.
CccdId(draw) == draw + 100000000

(***************************************************************************)
(* SimulateMsgCreateIdentity: a random account and a random CCCD id; a    *)
(* no-op when the account already has an identity, else the transaction  *)
(* is generated and delivered.                                             *)
(***************************************************************************)
SimulateMsgCreateIdentity(acc, draw, now) ==
  LET msg == CreateIdentityMsg(AccString(acc), CccdId(draw))
      r   == Chain!RunTx(<<msg>>, height, store, {}, now)
  IN  IF Chain!Found(store, msg.creator)
      THEN [noop |-> TRUE, ok |-> TRUE, store |-> store]
      ELSE [noop |-> FALSE, ok |-> r.ok, store |-> r.store]

Init ==
  /\ height = 1
  /\ \E s1, s2 \in SampleAccounts : s1 # s2 /\ store = GenerateGenesisState(s1, s2)
  /\ ops = 0 /\ failed = FALSE

\* WeightedOperations: the operation is the module's only one, whatever
\* its weight; the simulator stops at the first operation error.
Operate ==
  /\ ~failed /\ ops < MaxOps
  /\ \E acc \in SimAccounts, draw \in CccdDraws, now \in Times :
       LET res == SimulateMsgCreateIdentity(acc, draw, now) IN
       /\ store' = res.store
       /\ failed' = ~res.ok
  /\ ops' = ops + 1
  /\ UNCHANGED height

\* The simulator ends the block and begins the next one.
EndBlock ==
  /\ ~failed /\ height < MaxHeight
  /\ height' = height + 1
  /\ UNCHANGED <<store, ops, failed>>

Next == Operate \/ EndBlock

Spec == Init /\ [][Next]_vars

-----------------------------------------------------------------------------
TypeOK ==
  /\ height \in 1..MaxHeight /\ ops \in 0..MaxOps /\ failed \in BOOLEAN
  /\ DOMAIN store \subseteq AddrText
  /\ \A k \in DOMAIN store :
       /\ store[k].address = k
       /\ store[k].idHash \in {Literal("sample_hash_1"), Literal("sample_hash_2")} \cup
                              {Chain!IdHash(CccdId(d)) : d \in CccdDraws}

(***************************************************************************)
(* The simulated operation never fails the run (the simulation is meant  *)
(* to register identities; spec 4.3 and 8 exempt MsgCreateIdentity from   *)
(* the identity gate so that a new account can register): whatever        *)
(* accounts and ids it draws, in whatever blocks, the transaction it      *)
(* decides to deliver is accepted by ValidateBasic, the identity gate and *)
(* CreateIdentity.                                                         *)
(***************************************************************************)
SimOpsSucceed == ~failed

=============================================================================
