# TLA+ models of Nexelra-service

Nexelra is a Cosmos SDK v0.50 chain whose one custom module, `x/identity`, is
an identity registry: an account stores one record that holds the SHA-256 of
its CCCD (citizen id) number. An ante decorator then refuses any transaction
whose signers or bank recipients have no record. This directory holds TLA+
modules for that logic, the TLC configurations that check them, and
`PROJECT.json`. `PROJECT.json` maps every definition to the source lines it
translates. It also lists the runs, the mutants, the findings and the hazards.

## The system: inventory

| Part | Source | State | Operations |
|---|---|---|---|
| Identity gate | `src/app/ante/ante.go` `AnteHandle` | none of its own; reads the identity store | genesis bypass, simulation bypass, empty tx, per message: exemption, signer extraction (GetSigners, MsgSend, MsgMultiSend, reflection), signer lookup, recipient lookup |
| Address extraction | `ante.go` `extractRecipients`, `extractCreatorFromMessage`, `isIdentityModuleMsg` | pure | |
| Ante pipeline | `ante.go` `NewAnteHandler` | SDK decorators (fees, signatures, sequence) then the gate | |
| Identity registry | `x/identity/keeper/identity.go` | KV store `address string -> Identity{Address, IdHash, CreatedAt}` | `SetIdentity`, `GetIdentity`, `RemoveIdentity`, `GetAllIdentity` |
| CreateIdentity handler | `x/identity/keeper/msg_server_identity.go`, `types/messages_identity.go` | the registry | `ValidateBasic`, then check-then-set keyed by `msg.Creator`, `CreatedAt = time.Now().Unix()` |
| Queries | `keeper/query_identity.go`, `keeper/query_identity_by_cccd_id.go` | read-only | `IdentityAll`, `Identity`, `IdentityByCccdId`, all through `query.Paginate` |
| Simulation | `x/identity/simulation`, `module/simulation.go` | the simulated app's store | `GenerateGenesisState`, the weighted operation `SimulateMsgCreateIdentity` |
| CLI / snapshots | `cmd/Nexelrad/cmd/commands.go` | files, RPC | snapshot info, list, delete, create and restore, progress display |
| Generated code | `*.pb.go`, `codec.go`, `autocli.go` | | |

The parts interact as follows:

1. baseapp runs a transaction in three stages: every message's `ValidateBasic`, then the ante chain ending in the gate, then the messages in order.
2. The run is atomic. The first failure (an error or a recovered panic) discards every write.
3. The gate reads the registry as it was *before* the transaction.
4. `CreateIdentity` writes the registry.
5. Queries read the committed registry between blocks.
6. All validators execute the same blocks and must reach the same store.
7. Each node also admits client transactions to its mempool with `CheckTx`. `CheckTx` runs `ValidateBasic` and the ante chain, including the gate, against the node's check state: the store and block header of its last commit. After every commit the mempool is rechecked.

These behaviours are hard to test:

- **Ordering and early returns.** The gate reports the *first* failing check, in message order, then signer order, then recipient order. A panic in `MustAccAddressFromBech32` aborts the gate in the middle of the loop.
- **Stale reads.** The registry is read before a `MsgCreateIdentity` of the same transaction runs.
- **Two spellings of one address.** bech32 accepts an all-uppercase string for the same account. Signers are normalized (`String()`), but recipients and the registry key are not.
- **Non-determinism.** `time.Now()` is read inside a state transition.
- **Paging while blocks commit.** Offset pages shift when a record is inserted. `IdentityByCccdId` filters inside the page, so a page can be empty while more pages follow.

## Modules

| Module | Models | Kind |
|---|---|---|
| `AnteMessages` | addresses as `<<account, letter case>>`, message shapes with their reflected fields, `MsgTypeURL`, `isIdentityModuleMsg`, `ExtractSigners`, `extractRecipients`, `extractCreatorFromMessage`, and `Decision`, the gate's verdict as one function | pure operators |
| `GateDecision` | abstract gate: one atomic step from the inputs to `Decision` | abstract spec |
| `IdentityGate` | `AnteHandle` step by step (program counter `pc`, message index `i`, address index `j`), one action per branch | detailed spec, refines `GateDecision` |
| `IdentityChain` | registry, `ValidateBasic`, `CreateIdentity`, `runTx` (validate, gate, messages, roll back), blocks delivered to every validator, `Commit` with the mempool recheck, `CheckTx` into each node's mempool, node restart | composition |
| `IdentityQuery` | `query.Paginate` in key and offset mode, `IdentityAll`/`IdentityByCccdId` callbacks, a client walking the pages while identities are created between requests | component plus client |
| `IdentityRegistry` | the registry of spec §4.1: a map from normalized address to `{IdHash, CreatedAt}` with `Create`, `Get`, `Remove`, `List`, each leaving its answer in `resp` | abstract spec |
| `IdentityCodec` | the protobuf wire encoding of `types.Identity` in `identity.pb.go`: `Size`, `sovIdentity`, `encodeVarintIdentity`, `MarshalToSizedBuffer`/`Marshal`, `Unmarshal` with every error return, `skipIdentity` | pure operators (RECURSIVE) |
| `IdentityKeeper` | the keeper's prefixed store (`IdentityKey`, values as `IdentityCodec` bytes), `SetIdentity`, `GetIdentity`, `RemoveIdentity`, `GetAllIdentity`, the `CreateIdentity` handler and the `Identity` query, one call per step | detailed spec, refines `IdentityRegistry` |
| `IdentitySimulation` | `GenerateGenesisState` and `SimulateMsgCreateIdentity` of the cosmos-sdk simulation, delivering through `IdentityChain`'s `RunTx` | composition |
| `SnapshotCli` | `snapshots info`, `list`, `delete`, `create`, `restore` and the top-level `snapshot-restore` of `commands.go` over an abstract snapshot directory, RPC reply and `app.toml`; the status, config parsing, progress arithmetic (Go truncating division), progress bar (`strings.Repeat` panics on a negative count), snapshot count and latest height | component |
| `MC*` | model values and finite pools for TLC | |

### How the modules correspond to the code

**`IdentityGate`.** Each action is a branch of `AnteHandle`:

| Action | Code |
|---|---|
| `GenesisBypass` | lines 74-77 |
| `SimulateBypass` | lines 80-83 |
| `EmptyTx` | lines 89-92 |
| `ExtractMsgSigners` | lines 105-138, with three outcomes: panic, no signers (reject) and signers found |
| `SignerFound` / `SignerMissing` | line 145 and the reject at line 153 |
| `RecipientFound` / `RecipientMissing` | line 168 and the reject at line 175 |
| `AllPassed` | line 185 |

The exemption at lines 100-103 has no action. `isIdentityModuleMsg` compares `sdk.MsgTypeURL(msg)` with the literals `"/Nexelra.identity.MsgCreateIdentity"` and `"/Nexelra.identity.MsgUpdateParams"`. The messages are declared in the proto package `nexelra.identity`, so the URL never matches and the `continue` is unreachable. `AnteMessages` models a type URL as the two tokens `<<package, message name>>` (`MsgTypeURL`), and the table as the code spells it (`identityMsgTypes`). `ExtractMsgSigners` keeps the test as its guard. A `MsgCreateIdentity` therefore reaches the reflective fallback through its `Creator` field. `MsgUpdateParams` has none of the three fields, so it is rejected as `NoSigners`.

`Decided` maps the detailed state to the abstract `outcome`, and `ImplementsGateDecision` checks the refinement.

**`IdentityChain`.** `DeliverTx(t)` runs `RunTx` on every node in lockstep. Each node draws its own `time.Now()` from `Times`. The set of messages whose (unmodelled) module handlers fail is a shared choice.

Each node also has `checkState[n]`, the header height and store of its last
commit, and `mempool[n]`. The `CheckTx`-side actions are:
- `CheckTx(n, t)` admits `t` when `CheckTxPasses`: every `ValidateBasic`, and the gate at the check state's height and store.
- `Commit` copies the block's height and store into the check state and rechecks the mempool (`Recheck`). A delivered transaction leaves every mempool.
- `Restart(n)` happens only between blocks, when nothing uncommitted would be lost. It keeps the committed store, empties the mempool and gives the check state height 0. This is what baseapp does when it loads: the check state gets an empty header until the next commit.

`CheckTx`, `Recheck` and `Restart` stand for baseapp and CometBFT behaviour outside `src/`. They are marked `spec_modelled`.

**`SnapshotCli`.** The code's helpers are operators of the same name:
`getRealDataFromRPC`, `getRealBlockchainStatus`, `parseConfigValueInt`,
`extractHeightFromDirname`, `countSnapshotFiles`, `getLatestSnapshotHeight`,
`createProgressBar` and `runSnapshotInfo`. The actions `Info`, `List` and
`Delete` are the three sub-commands that read or change the directory.
`CreateSnapshot` and `Restore` only set the reported outcome: the code's
create and restore are placeholders that print. `Restore(cmd, answer, force)`
takes the command it is invoked through, because the two restore commands
pass `--force` differently.

**`IdentityKeeper`.** Each action is one call of the keeper against the
committed store: `CallCreate` (the message handler), `CallGet` (the
`Identity` query), `CallRemove` and `CallList`. A store key is
`IdentityKey(address)`, and a value is the byte sequence
`IdentityCodec!Marshal` writes for the record. A `MustMarshal` that fails
(it cannot with the real code) aborts the handler and leaves the store
unchanged. `Unmarshal` decodes with `IdentityCodec!Unmarshal` and turns
the string bytes back into the model's texts. `Decoding` is the decoder
tabled over every value `SetIdentity` can write. It gives the same
results, but TLC computes each decoding once instead of in every primed
evaluation of the refinement mapping. The refinement
mapping `AbsRecords` decodes every value and files it under the normalized
address. The keeper's answers map to the registry's answers.
`ImplementsRegistry` checks that every keeper behaviour is a registry
behaviour.

**`IdentityCodec`.** A string is the sequence of its byte values, and
`CreatedAt` is a number. `Written(m)` is the byte sequence that
`MarshalToSizedBuffer` leaves, read front to back. `Marshal` puts it at
the end of a zeroed buffer of `Size(m)` bytes and returns the first `n`
bytes, as `dAtA[:n]` does. So a `Size` that is too large shows as a
zero-padded, truncated value. A `Size` that is too small is the index
panic. `ReadVarint` is one of the varint loops of `Unmarshal`, including
its 64-bit shift limit and EOF return. `UnmarshalFrom` is the field loop.
`skipIdentity` skips unknown fields and groups.

**`IdentitySimulation`.** `Operate` is the simulator running the module's
one weighted operation. `SimulateMsgCreateIdentity` is a no-op when
`GetIdentity` finds the drawn account. Otherwise it delivers the message
through `IdentityChain`'s `RunTx`, on the store of the block being
simulated. A failed delivery ends the run. `EndBlock` is the simulator
moving to the next block. The run starts at height 1, past genesis, so the
gate checks every delivered create.

**Spec-modelled parts.** `RunMsgs`, `Parties`, `Init` and `Commit` stand for SDK behaviour (baseapp, bank) that is not in `src/`. They are marked `spec_modelled` in the map.

## Runs

| Run | cfg | Expect | What it shows |
|---|---|---|---|
| gate_refinement | `MCIdentityGate.cfg` | pass | Every `AnteHandle` invocation terminates with exactly the first failing check of `Decision` (`ImplementsGateDecision`). It covers every tx of at most two messages from an 11-message pool with every shape and branch, heights {0, 7}, simulate on or off, and every registry over 3 keys. |
| gate_recipient_case | `MCIdentityGate_recipient.cfg` | violation | A MsgSend to the uppercase spelling of a registered account is refused as an unregistered recipient. |
| chain | `MCIdentityChain.cfg` | pass | `GatedTransfers`: after genesis, value only moves between accounts registered before the transaction. `IdentityWriteOnce`: records are never changed or removed, including by duplicate creates in one tx. Registrations succeed only in the height-0 window, where the genesis bypass lets creates through (finding 7); after it the gate rejects every create. |
| chain_address_case | `MCIdentityChain_case.cfg` | violation | One account gets two records, one per letter case. |
| chain_replicas | `MCIdentityChain_replicas.cfg` | violation | Two validators store different `CreatedAt` for the same create. |
| snapshot_cli | `MCSnapshotCli.cfg` | pass | For 6 replies (one a negative height), 7 `app.toml` files (missing, disabled, commented, non-digit, too large) and every subset of 6 directory entries, `info` never panics. Its bar has 40 cells with the right fill, and the shown heights bracket the current height (`ProgressSound`). |
| snapshot_list | `MCSnapshotCli_list.cfg` | violation | `list` prints only non-directories, so it shows none of the snapshot directories `info` counts. |
| keeper_registry | `MCIdentityKeeper.cfg` | pass | With the lowercase addresses clients get from `AccAddress.String()`, every sequence of create, `Identity` query, remove and list calls, including re-creation after removal, is a behaviour of the spec's registry (`ImplementsRegistry`). Every value is stored under the key of its own address (`TypeOK`). Every stored value is the canonical protobuf encoding of the record it decodes to: `Unmarshal` reads it without error, and `Marshal` of the result writes the same bytes (`EncodingRoundTrips`). |
| sim | `MCIdentitySimulation.cfg` | violation | The first `SimulateMsgCreateIdentity` fails the simulation (`SimOpsSucceed`). The gate does not exempt the message, and its creator has no record yet. |
| snapshot_interval | `MCSnapshotCli_interval.cfg` | violation | `info` shows the interval of a commented-out `app.toml` line, not the one the node reads. |
| chain_restart_mempool | `MCIdentityChain_restart.cfg` | violation | After a restart past block 1, `CheckTx` runs at header height 0. The gate's genesis bypass applies, and the mempool admits a payment between unregistered accounts (`MempoolGated`). |
| query_scan | `MCIdentityQuery.cfg` | pass | With identities committed between requests, a page walk ends (`ScanTerminates`), misses no record present at the start (`ScanComplete`), and repeats none in key mode or in offset mode without an insertion behind the cursor (`NoDuplicates`). |

## Findings

1. **Non-deterministic `CreatedAt`** (`msg_server_identity.go:32`, run chain_replicas). `time.Now().Unix()` is the validator's wall clock, not the block time. Validators, and nodes replaying blocks, write different records, so their app hashes diverge.
2. **Registry keyed by the unnormalized `msg.Creator`** (`msg_server_identity.go:20`, run chain_address_case). `ValidateBasic` accepts uppercase bech32, so one account can register twice. The gate normalizes signers to lowercase, so it never finds a record stored under the uppercase key.
3. **Recipients looked up as raw strings** (`ante.go:168`, run gate_recipient_case). A transfer to a registered account written in uppercase is rejected.
4. **`snapshots list` shows no snapshot** (`commands.go:436`, run snapshot_list). The list skips directories, but the snapshot store keeps one directory per height, and `info` counts exactly those. `delete` has the same root cause: `os.Remove` cannot remove a non-empty snapshot directory. The model's `Delete` ends such a delete in `removefailed`.
5. **`info` reads commented lines** (`commands.go:615`, run snapshot_interval). The pattern `snapshot-interval\s*=\s*(\d+)` is unanchored. A line `# snapshot-interval = 7` before the real setting makes `info` report 7. The node's TOML reader skips the comment.
6. **The genesis bypass also opens the mempool** (`ante.go:74`, run chain_restart_mempool). The gate admits every transaction at block height 0. baseapp's check state has header height 0 after `InitChain`, and again after every node restart until the node's next commit. In that window `CheckTx` admits and gossips transactions of unregistered accounts. They fail only when they are executed in a block, so they still take block space. The recheck after the next commit drops them. Spec §5b says the gate applies in the admission checks.

7. **Identity messages are never exempt** (`ante.go:211`, run sim). `isIdentityModuleMsg` compares the type URL with `"/Nexelra.identity.MsgCreateIdentity"` and `"/Nexelra.identity.MsgUpdateParams"`. The proto package is `nexelra.identity` (`identity.pb.go:86`), so the URL is `"/nexelra.identity.MsgCreateIdentity"` and the exact comparison fails. After genesis a `MsgCreateIdentity` is checked like any other message. Its `Creator`, read by reflection, has no record, so the transaction is rejected as an unregistered signer, and no new account can register. `MsgUpdateParams` has no Creator, Signer or FromAddress field and is rejected as `NoSigners`. Spec §4.3 and §8 exempt both messages, and the module's simulation operation expects registration to succeed.

The modelling turned up four more divergences. They are recorded as hazards in `PROJECT.json` rather than as runs:

- **The `Identity` query and `RemoveIdentity` use the address string as given** (`query_identity.go:49`, `identity.go:51`). keeper_registry queries only lowercase addresses, so no checked property covers this. With uppercase spellings added to the keeper's `QueryTexts`, `ImplementsRegistry` would be violated: a `Get` answers NotFound for a registered account. Spec §6 says addresses are normalized before lookup.
- **`snapshot-restore` ignores `--force`** (`commands.go:258`). The top-level command declares the flag as "Force restore without confirmation", but its `RunE` calls `runSnapshotRestore`, which passes `false`. `Restore` models both commands. Restore is a placeholder that changes nothing, so no run is spent on it.
- **The simulation's CCCD id can have 10 digits** (`simulation/identity.go:31`). `r.Intn(999999999) + 100000000` ranges up to 1099999998, but the comment says 9 digits.
- **Two root commands are named `snapshots`** (`commands.go:51`, `:53`). `initRootCmd` adds the SDK's `snapshot.Cmd(newApp)` and this file's `GetSnapshotCmd()`, and both use the name `snapshots`. Cobra reaches only one of them under that name. Which one depends on cobra's command ordering, and that is outside `src/`. `SnapshotCli` assumes it reaches `GetSnapshotCmd`'s subcommands. The `snapshot-info`, `snapshot-list` and `snapshot-restore` commands reach the same handlers either way.

Each passing property has a mutant in `PROJECT.json`: a plausible bug in the mapped code that TLC must catch under the run's own cfg. The mutants are a dropped found-check, a forgotten MultiSend case, an off-by-one NextKey, a missing default limit and so on.

## Bounds and why they suffice

- **Gate: 2 accounts × 2 letter cases, plus an invalid string and the empty string.**
  - The message pool reaches every branch of signer and recipient extraction, including the three reflection fields and `Creator == ""` with a `Signer` set.
  - Two messages are enough for "an earlier message decides". The pool has both identity messages, so the never-matching exemption test is exercised.
  - Registries range over every subset of {a1, a2 lowercase, a1 uppercase}.
- **Chain: 2 accounts and 2 CCCD ids, 3 blocks, 1 node (2 nodes in the replicas run), 2 clock values.**
  - The pool includes the creates that matter in one tx: a create then a send, and two creates of one creator.
  - It also includes duplicates across blocks and both bank shapes.
  - Clients submit three transactions to `CheckTx`: both registrations and a payment between the two accounts. The payment is gated until both accounts are registered. Three blocks leave room for block 1 to commit, a restart and a `CheckTx` in the height-0 window. The mempool properties are per node, and the nodes differ only in their clocks, so one node is enough for them. With two nodes, each with its own mempool and restarts, the run takes more than 5 minutes.
- **Keeper: 2 accounts, 2 CCCD ids, 2 clock values.** TLC explores the whole state graph, 124 states. It reaches create after remove, a duplicate create and a list of two records. The address bytes are 46 long and the sha256 hex string 64 long, as in the code: 64 is where `sovIdentity` of a length first depends on the rounding of its division. `CreatedAt` values near 1.7e9 take a five-byte varint.
- **Simulation: 2 simulation accounts, 2 sample accounts, 4 operations, 3 blocks.** The draws are 0, 899999999, 900000000 and 999999998: both ends of the range and the point where the id gains a tenth digit. One operation is enough to show the violation.
- **Query: keys {10, 20, 30}, limits {0, 1, 2}, default limit 2, 2 hashes.**
  - These give pages that are full, partial and empty.
  - Inserts land before, inside and after the cursor.

## Fairness

- `IdentityGate`: `WF` on `Next`. `AnteHandle` is sequential code with no waits, so an invocation always proceeds.
- `IdentityQuery`: `WF` on `RequestPage` only. The property is about a client that keeps asking. Creates are finite here (the key set is finite) and get no fairness.
- `IdentityChain`, `IdentityKeeper`, `IdentitySimulation` and `SnapshotCli`: no fairness. Their properties are safety properties. The refinement `ImplementsRegistry` is a safety property too, because the registry has no fairness of its own.
- The simulation run stops after `MaxOps` operations, after `MaxHeight` blocks, or at the first failed operation, like the simulator. Its cfg therefore turns deadlock checking off.

## Not modelled

- The SDK decorators before the gate (fees, signatures, sequence) are assumed to pass. Their writes are not modelled.
- `RemoveIdentity` and `GetAllIdentity` have no caller in a transaction path. They are modelled in `IdentityKeeper` as keeper calls.
- `ProposalMsgs` in `module/simulation.go` builds an operation that it never runs, and returns a nil message. It has no state to model.
- The CLI commands other than the snapshot ones (start, export, keys, tx, query, genesis) are cosmos-sdk wiring and are not modelled.
- The cobra constructors of the snapshot commands (`getSnapshot*SubCmd`, `GetSnapshot*Cmd`) are not modelled beyond the handler each one calls. The exception is restore: its two constructors read `--force` differently, and `RestoreCmds` keeps that difference.
- `CheckTx` gossip between nodes, the mempool's size limit and its cache of seen transactions are not modelled. A node's mempool only holds what its own clients submitted.
- Some of `identity.pb.go` is not modelled: the gzipped file descriptor, type registration, the `XXX_` and getter methods, and `MarshalTo`, which the keeper does not call. `codec.go` (interface registration) and `autocli.go` (CLI descriptors) are not modelled either. They have no state and no control of their own. Negative `CreatedAt` values are outside the codec model, because `time.Now().Unix()` is positive. A negative value would need the 64-bit wrap-around of `uint64(m.CreatedAt)`, which is a ten-byte varint.
- The snapshot model does not cover paths outside the snapshot directory (`delete ../x`).
- Consensus, balances and gas are not modelled. A bank message can fail as a nondeterministic, network-wide choice.

## Plan for later work

1. **Proposers that reap the mempool.** Blocks are now drawn from the whole transaction pool, as a byzantine proposer could build them. A proposer that takes its block from its own mempool would allow a liveness property: an admitted transaction is eventually included or dropped.
2. **Genesis import and export.** `InitGenesis` and `ExportGenesis` are not in `src/`. Once they are, a round trip through `GetAllIdentity` must keep the registry.
