# A TLA+ development for local_blockchain_go

The program (`src/`) is a small proof-of-authority blockchain: nodes keep a chain of signed
blocks, exchange blocks and transactions over TCP, and validators build a block at every tick from
their mempool. Tests cover single operations called one after the other. The specifications here
are about what the tests do not reach: two goroutines of a node adding blocks at the same time,
a mempool whose slice is shared without a lock, failures half-way through a block, lost and cut
messages, full connections, crashes in the middle of a write.

## 1. Inventory

| Component | Source | State | Operations | Hard about it | Correct when |
|---|---|---|---|---|---|
| Ledger | `core/account_state.go`, `core/blockchain.go` (handle…) | balances, NFT collections and mints, contract store, students | execute one transaction | several sub-states, no undo, uint64 arithmetic, a lock taken twice | supply is conserved; a failed transaction leaves nothing behind; the ledger is a function of the chain |
| Blockchain | `core/blockchain.go`, `core/validator.go`, `core/block.go` | headers, blocks, two indexes, two locks | `AddBlock` and readers | validate, execute, append and write are four critical sections | blocks are linked, unique, at the index of their height; `AddBlock` returns |
| Mempool | `network/txpool.go`, `types/list.go` | two maps with lists: all, pending | `Add` (prunes), `Remove`, `Pending`, `ClearPending` | map and list kept in step, a slice that aliases the list | coherent, bounded, forgets only what was executed |
| Server | `network/server.go` | chain, mempool, peers | message loop, validator loop | the two loops share chain and pool | a transaction is executed once, and none is lost |
| Synchronisation | `network/server.go` | none of its own | status, getBlocks, blocks | lost and reordered blocks, only on connect | nodes catch up, chains are beginnings of the validator's |
| Transport | `network/tcp_transport.go`, `network/rpc.go` | connections, peer map | accept, send, read loop, cleanup | shared buffer, framing, send under a lock | what arrives is in order; nobody waits for ever |
| Persistent store | `core/persistent_storage.go` | a file and an index | `Put`, look-up, load | one file position, restart, search by height, torn records | index, file and answers agree; what was stored stays |
| VM | `core/vm.go` | stack, contract store | nine lines of instructions | the "stack" is a queue, panics | the bytes do what the program says |
| API | `api/server.go` | none | post transaction, get block, get transaction | channel to the message loop | a post is handed over |
| Others | crypto, encoding, `types`, `util`, `main.go`, `cmd/inspect`, `local_transport.go` | | | | not modelled: cryptography, formats, wiring, unused code |

How they interact: the API and the read loops send to the message loop (`Server.Start`) through
unbuffered channels. The message loop calls the mempool and `Blockchain.AddBlock`; the validator
loop (`validatorLoop`, a goroutine of its own) calls both as well. `AddBlock` calls the validator,
the ledger and the store. Both loops write to the peers. The hazards this leads to are listed at
their lines in `PROJECT.json`, each with the properties that would catch it.

## 2. Modules

| Module | What it is |
|---|---|
| `Ledger` | operators: the ledger as a record, what executing one transaction does to it, how it ends |
| `ChainLog` | abstract specification of a node's chain: an append-only log of linked blocks, each listing exactly what succeeds in it when the whole log is executed in order |
| `Blockchain` | `AddBlock` in all its steps, for any number of goroutines |
| `BlockchainProperties` | the properties that relate chain, ledger and store; the refinement to `ChainLog` |
| `BlockchainProofs` | theorems about `Blockchain`: types, links, indexes, locks |
| `LedgerProofs` | theorems about `BlockchainProperties`: serial execution, replay, `ChainLog`, the disk, the supply |
| `TxPool` | the mempool on the arrays of its lists |
| `TxPoolProofs` | theorems about `TxPool` |
| `Server` | the message loop and the validator loop over one `Blockchain` and one `TxPool` |
| `ServerProperties` | how pool, blocks and chain fit together |
| `ServerHistory` | `Server` with history variables: which transactions the validator's block has tried, which ones were removed from the pool meanwhile |
| `ServerProofs` | theorems about `Server`, `ServerProperties` and `ServerHistory`: what becomes of an accepted transaction; with a sole validator the server implements `ChainLog` |
| `Replication` | abstract specification of a network with one validator: a log that grows, and copies that are beginnings of it |
| `Sync` | the nodes of a network and their messages; implements `Replication` |
| `SyncProofs` | theorems about `Sync`, the refinement of `Replication` among them |
| `LossyLink` | abstract specification of one direction of a connection |
| `Transport` | one connection, at each end the peer map with its lock, the read loop and two writing goroutines; each direction implements `LossyLink` |
| `TransportProofs` | theorems about `Transport`, the refinement of `LossyLink` among them |
| `PersistentStore` | the file of blocks, the processes that open it, crashes |
| `PersistentStoreProofs` | theorems about `PersistentStore` |
| `QueueMachine` | abstract specification of a contract's run: named instructions on a queue |
| `VM` | the machine on bytes and on the array of `Stack`; implements `QueueMachine` |
| `VMProofs` | theorems about `VM`, the steps of the refinement among them |
| `MC…` | instances for TLC |

`Server` composes `Blockchain` and `TxPool`. `Sync` composes several nodes, with `AddBlock` and the
pool's operations as single steps; its `Lose` is what `LossyLink` allows a connection to do, and
`Transport` shows that connections do nothing worse. `VM` is behind the `code` of a transaction in
`Ledger`. `PersistentStore` is behind `PutOk` and `PutFails` of `Blockchain`.

### Ledger

`Effect(s, tx)` is `handleTransaction` with `handleNativeNFT`, `handleNativeTransfer` and
`AccountState.Transfer`: VM first, then students, NFTs, the transfer, each stopping at the first
error and none undone. `Outcome(s, tx)` is `"ok"`, `"error"`, `"panic"` (the VM pops from an empty
stack, pushes on a full one or asserts a wrong type) or `"stuck"` (a student transaction, see
below). Balances are `% Modulus`, where `Modulus` is 2^64 in the program. A VM program is
abstracted to the transaction's `code`: it stores a value, stores nothing, or panics. The mint's
own signature is not checked by the code, and not in the model.

`handleStudentTx` locks `stateLock`, which `addBlockWithoutValidation` holds around every
execution. So the student registry is never read or written, and the body behind the lock has no
counterpart in the model.

### Blockchain

One action per stretch of `AddBlock` between two points where other goroutines may come in:

| Action | Code |
|---|---|
| `CallOwn`, `CallForeign` | entry; `currentHeight := Height()` |
| `Reject`, `Accept` | the rest of `ValidateBlock` |
| `LockState` | `stateLock.Lock()` |
| `ExecOk`, `ExecError`, `ExecStudent`, `ExecPanic` | one transaction |
| `UnlockState` | `stateLock.Unlock()`, `b.Transactions = successfulTxs` |
| `AppendBlock` | the section of `bc.lock` |
| `PutOk`, `PutFails` | `store.Put(b)` |

`Known` and `Valid` take several short critical sections in the code, but between them the chain
only grows: after `HasBlock` has said no, `GetHeader(b.Height - 1)` reads an entry that never
changes, so one action is as good as several, except for the height read first, which `cur` keeps.

Blocks are records. `id` stands for the header's hash, and is new for each block because the header
has a nanosecond timestamp; `data` is the list of transactions behind `DataHash`, `txs` the ones the
block carries now. `data = txs` is the comparison of the hashes. Signatures of blocks and
transactions are valid: cryptography is not the subject. `wire` is what peers may send. It holds
every block built elsewhere and every block of this node's chain; `Copies` are the versions of it
that nodes may hold after dropping failed transactions, more of them than one network can have. A
block may arrive again and again and in any order, which covers `processBlock`, each block of
`processBlocksMessage`, and what status messages cause.

Who may panic and survive: `createNewBlock` recovers, the message loop does not (`crashed`). A
block built here takes its parent from any header of the chain, the tip at some earlier time.

### TxPool

A list is `cells` (its length is the slice's capacity) and `len`; `Insert` appends in place or to a
new array of twice the size, `Pop` shifts in place, `Clear` takes a new array. `taken` is the slice
`Pending` returned; it is a view of `cells` as long as the list keeps that array. `TxPool.Add` and
`Remove` take several short locks; only the message loop calls them, and the validator loop touches
`pending` alone, so each is one action. A slice header that is read while another goroutine writes
it (`Pending` takes no lock) is read whole here.

### Server

`step` says where each goroutine is outside `AddBlock`, `pc` where it is inside. The block that
`createNewBlock` builds holds the pool's own slice until it has been executed: `BlockReadsPool`
belongs to every change of the pool and carries it over to the block in flight and the transactions
still to be executed. `AddNewBlock` makes hashing, its repetition, signing and the entry into
`AddBlock` one step. Broadcasting changes nothing on this node; `AppendBlock` puts the block on
`wire` at once, as any peer may ask for it. A received block's `Verify` runs before `AddBlock` runs
it again: a failure of either leaves everything as it was.

`ServerHistory` adds two variables that no action reads. `tried` has the transactions that the
execution of the validator's present block has come to, the failing ones included; `gone` those that
`processBlock` has removed from the pool since `Pending` was called. A removal shifts the cells of the
array behind the slice that is being executed, so that the execution passes over the transaction that
moves into a place it has already left. Its steps are those of `Server`; both passing runs of the
server use it, though the sole validator's properties do not read the history.

### Sync

One action per message handler. Only one goroutine of the network builds blocks, so `AddBlock` is
one step, on a node's chain of records; `Blockchain` has its inside. The program is such a network:
`main.go` gives one of its three nodes a key. A block is `spoilt` when one of its transactions
failed: what its nodes pass on no longer has the hash its header states, and no peer accepts it.
`AddBlock` may return an error after the append, because `Put` has failed (`unsaved`): then the
validator clears nothing and broadcasts nothing, a receiver removes nothing from its pool and passes
nothing on. The pool is two sets and the order of arrival in `all`: at `maxLength` an addition drops the
oldest of `all`, which `pending` keeps. A transaction is the `TxHash` that it carries on the wire, by
which pools compare; its content is not modelled. `unsaved` and `pruned` are history, but for a bound on
the former.

`casting` holds the messages that goroutines of the node have still to write (`go broadcastTx`, and
`go broadcastBlock` for the blocks of an answer), `batch` the blocks of an answer that the message
loop is working on. A broadcast writes to all peers in one step, and peers stay. A client posts a
transaction only while the node does not remember it, which is when a post has an effect.

### Transport

Two threads of a server write: `loop`, the message loop, and `cast`, which stands for the validator
loop and the goroutines that broadcast. `mu` is modelled as `sync.RWMutex` is: a writer announces
itself and waits until the readers have left, and keeps new ones out. A `Write` puts a message into
the pipe unit by unit, other writers wait; a `Read` takes what is there, up to `ReadSize`, over the
beginning of the buffer of which the message loop may still be decoding a `slice`. A slice decodes to
the message it begins with, if that is complete; what is left over, and what begins in the middle of
a message, is refused. When a Read has written the beginning of a message over a slice that is still to
be decoded (`WrittenOver`), the outcome may be that message, nothing, or a mixture of what was there and
what came (`Garbled`), since messages carry no checksum. A mixture takes the place of a message.
`Sync!Garbled` says what a mixture can be to the handlers: numbers are arbitrary, a block does not
verify, a transaction is the one whose hash is left, and with the type byte gone it may pass for a status
request, which has no content.

The code has three things here that a reader might not expect. `conn.Close` is never executed: every
path to `TCPPeer.Close` finds `closed` set, and the check for an existing peer compares pointers. So
a connection whose `Send` failed stays open, and its read loop goes on. `sendGetBlocksMessage` reads
the peer map without `mu`. And nothing is ever sent on `quitCh`.

### PersistentStore

One action per system call or assignment of `Put` and `GetBlockByHash`. What gob does is taken from
its documentation: a stream describes its types before the first value, a decoder refuses a second
description of a type it knows, a decoder reads ahead, and the end of the stream within a value is
not `EOF`. As every `Put` makes a new encoder, a decoder gets exactly one record out of the file.
Hence `Readable`: a file of two records cannot be loaded. The error is assigned to a variable that is
shadowed, so that `NewPersistentStore` returns a store whose file is closed; then the put of the
genesis block fails and the node exits (`PutFails` in mode `boot`). A node that has stored more than
its genesis block never starts again from this file; `NodeKnowsItsFile` says the good half of it,
that no node runs on such a store. `Crash` keeps any part of the file that is at least what has been
synced. The inspection tool is mode `inspect`: it opens, looks up, closes.

What two overlapping look-ups answer is left open, since they move each other's position. A look-up that
nothing overlaps finds the first block of the file and fails on every other one (`Lookup`).

### VM

One step per byte. An operand stands before its instruction and is executed as well, so a program
can have no operand from 10 to 15 (`Operand`). `Stack` takes from the front, and `Pop` shortens its
array: a value pushed is a place used up for the rest of the run, which `QueueMachine` calls
`budget`. Sums of bytes do not overflow an `int` within a budget of 128. A panic leaves what has
been stored before it.

### Faulty variants

Definitions marked "faulty variant" (`UncheckedTransfer`, `WideCredit`, `KnownBelowTip`,
`ValidWithoutParent`, `ValidWithoutData`, `LockStateShared`, `RejectWaiting`,
`UnlockStateKeepingTxs`, `AppendAndStore`, `InsertInFront`, `PopTooFew`, `MapRemoveUnchecked`,
`PrunedLate`, `ClearPendingInPlace`, `BlockRefusedRemoved`,
`ClearPendingSkipped`, `NewBlockRefusedClearing`, `EndHeightExcluded`, `ValidAbove`, `AcceptKeepingPlace`,
`ProcessBlockRemovingFirst`, `HandleKept`, `PutLockShared`, `SeekAndStoreHash`, `SyncSkipped`,
`DecodePartAnew`, `EnterWithoutLock`, `SentWithoutUnlock`, `SendFailedHoldingLock`, `ReadAppending`,
`PoppedKeepingSp`, `Following`) are not part of any specification. Each is its neighbour with a plausible
programming error; put in its place, TLC reports the property that `PROJECT.json` names under
"mutants". They show that the properties are able to fail.

## 3. Runs

| Run | Result | What it shows |
|---|---|---|
| `Core_single` | holds | one caller, foreign blocks in any order: `HeightIsIndex`, the ledger is the replay of the chain's data, tokens are conserved, the store follows the chain, and the node implements `ChainLog` |
| `Core_pair` | holds | message loop and validator loop, with student transactions, panics and overflowing balances: parents linked, no block twice, execution block by block, one owner of `stateLock`, all values in range; every `AddBlock` returns, unless a student transaction or a recovered panic has abandoned the lock or a panic has ended the process |
| `Two_writers` | violated | two blocks of the same height in one chain |
| `Pool` | holds | coherence, bound of `all`, the slice handed out |
| `Sole_validator` | holds | a network's only validator executes once, in order, and is a `ChainLog` |
| `Server_full` | holds | the pool forgets only what was executed; a block executes what was hashed unless a removal moved the slice; what leaves pending was executed or tried, or is lost because it arrived after `Pending` or was passed over |
| `Clearing` | violated | `createNewBlock` clears transactions that are in no block |
| `Sync` | holds | chains are copies of the validator's; a transaction is in a second block only if the pool dropped it or its first block was not saved; a node catches up with the peer it asks |
| `Store` | holds | index and file agree through crashes, failed writes and restarts; no look-up returns a wrong block |
| `Lookup` | violated | a block that was stored with success is not found |
| `Transport` | holds | peer map guarded, delivery in order, nobody stops but two loops that jam each other |
| `VM` | holds | the bytes of a program do what its instructions say |

The violated properties state what comments and tests of the program say (quoted in
`PROJECT.json`). The properties of the passing runs hold under the conditions their names and
comments give, and each condition is there because the code does otherwise without it:

- one caller (`HeightIsIndex`, `ImplementsChainLog`, `ChainsAreCopies`): two callers of `AddBlock`
  are validated against the same tip (`Two_writers`);
- no abandoned lock (`AddBlockReturns`): `handleStudentTx` waits for the lock its own goroutine
  holds, although `main.go` counts on student transactions being processed, and a recovered panic leaves
  `stateLock` locked;
- a disk that works (`TxExecutedOnceOnDisk`, `ArrivalOrder`): after a failed write the block stays in
  the chain, its transactions in pending, and the next block executes them again;
- no removal while a block is built (`ExecutesWhatIsHashed`, `TakenIntact`): it shifts the slice
  under the block;
- two ways to be lost (`LostOnlyLateOrSkipped`): a transaction that arrives while a block is built is
  dropped from pending with those the block contains, and its resend is ignored (`Clearing`); so is one
  that stood behind a transaction which `processBlock` removes meanwhile;
- two ways into a second block (`TxInOneBlock`): a first block that `Put` could not save leaves its
  transactions pending, and a pool at its limit forgets that it has seen one;
- no spoilt block and no loss (`CatchesUp`): a block with a failed transaction is refused by every
  peer, and so are all that follow it; nobody asks for a missing block again, before a new connection;
- no jam (`StopsOnlyJammed`): two message loops that write into full pipes wait for each other;
- an error as an answer (`LookupNeverWrong`): only the first block of the file is ever found (`Lookup`).

Two more ways to go wrong that the model has, but no property, are noted at their lines under
"hazards": a failed transaction that leaves a collection behind, and `pending` growing beyond
`maxLength`. A block may repeat the transactions of the one below it, because the pool is updated
after the chain; a sole validator's never does (`TxExecutedOnceOnDisk`).

Bounds:

- `MaxBuilt`: blocks that validators build: 3, and 2 in the server runs and `Two_writers`. Three are enough for two competing blocks and
  a third that builds on either, for a block that is late, known or too high, and for a transaction
  whose effect depends on two earlier blocks.
- `Bodies`, `Tx`: the lists are chosen so that a transaction succeeds only after another one, fails
  half-way, names a collection that does not exist, or competes for a balance. In `Core_pair`
  `Modulus` is 4 so that a credit wraps; elsewhere 16, which no sum reaches.
- `Goroutines`: one or two, as in the program: one message loop, and one validator loop if the node
  has a key.
- `MaxLength` of the pool: 2 with three transactions in `Pool`, so that pruning happens in all
  orders; 3 in the server runs, which have at most three transactions and so never prune;
  1 in `Sync`, with two transactions, so that one displaces the other.
- `Server_full` has three transactions, for the second of them to be passed over when the first is
  removed, and one block built elsewhere that removes it.
- `Pool` is symmetric in the transactions, `Transport` in the two servers; they check no liveness.
- `Sync`: two of the nodes of `main.go`, the validator dialling; two blocks, so that one is fetched while
  the next is broadcast. Clients post and connections lose or garble at most twice in all (`MaxOutside`):
  two transactions that displace each other from both pools and come back through gossip, or one and a
  message garbled in any place, or two messages lost. `MaxFailed` is 1: a block of either node is not
  saved.
- `Store`: a file of six parts, three records or more torn ones; a block at the height of another
  one; two goroutines that put and look up.
- `Transport`: pipes of two units, messages of one or two, reads of up to two, two messages each way:
  a message may fill the pipe, be cut, be joined with another one or be overwritten.
- `VM`: every program of at most five of nine instructions. The array has four places, so that it
  runs out; five instructions are what it takes to push, pack and store.

`CHECK_DEADLOCK FALSE` where everything may really stop: in `Core_pair` every
goroutine behind a lock nobody releases, or the process ended by a panic; in `Sync`
no message under way and nobody posting; in `Transport` nothing to read; in `VM` a run that has
ended.

Fairness (`FairSpec`): weak fairness of each goroutine's next step inside `AddBlock`, since Go's
scheduler runs a goroutine that can run and no step there waits for anything but a lock; strong
fairness of `LockState`, since `sync.RWMutex` queues writers and hands over. There is none for
calls: nobody has to add a block. `Core_pair` needs both for `AddBlockReturns`.

`SyncFairSpec`: goroutines that broadcast run, a batch is worked off, a connection that one side has
is added by the other side too (both `peerCh` are read by message loops), and a message loop takes
every peer's messages again and again (`select` chooses at random: strong fairness, as the loop is
busy in between). Nobody has to connect, post or build.

## 4. Proofs

Checked by TLAPS for every value of the constants that satisfies the modules' named assumptions
(`LedgerAssumption`, `BlockchainAssumption`, `TxPoolAssumption`, `ServerAssumption`,
`SyncAssumption`, `StoreAssumption`, `TransportAssumption` with `NoneAssumption`, `VMAssumption`).
They say what the constants are: sets of names that do not overlap, bounds that are numbers, who the
goroutines of a server are (`ServerAssumption`: a message loop, and a validator loop if there is a
key). A hypothesis beyond them is named with the theorem.

### Blockchain (`BlockchainProofs`)

- `TypeCorrect`: `TypeOK` is inductive. The work is in `TransferType` and `EffectType`: no sequence
  of executions leaves the range of uint64 or loses an account.
- `ChainLinked`: `ParentLinked` alone is not inductive, as the check is made long before the append.
  `LinkInv` adds that the height a goroutine has read is at most the current one (`HeightsRead`) and
  that an accepted block stays linked to the chain while it waits, is executed and appended
  (`AcceptedLinked`), which holds since the chain only grows.
- `HeightsAreIndexes` assumes a single caller: then an accepted block's height is the length of the
  chain until it is appended (`AcceptedOnTip`). `Two_writers` shows that the assumption is needed.
- `ExecutionIsExclusive`: inductive as it stands.
- `BlocksUnique` assumes one message loop and any number of validator loops. The invariant:
  identifiers are at most `made`, an identifier determines the height (`IdHasHeight`), an accepted
  block is not in the chain (`AcceptedNew`), and a block under construction is nobody else's
  (`OwnBlockPrivate`); a block in the chain has a height the chain has reached, so `HasBlock` stops
  it.

### Ledger, chain and disk (`LedgerProofs`)

- `LedgerReplaysChain` and `NodeImplementsChainLog` assume a single caller. `ReplayInv` says what
  the ledger is between two appends: the replay of the chain, and on top of it the part of the block
  in hand that has been executed (`PartExecuted`), or all of it (`WholeExecuted`). With it, an
  append is `ChainLog`'s step and every other step leaves the log alone.
- `DiskFollowsChain` assumes a single caller: the block that is being written is the last one of the
  chain and the disk has a part of the rest (`DiskInv`). Without the assumption two writes may come
  in the wrong order.
- `ExecutionIsSerial` is for any number of goroutines, and has the longest argument. `SerialInv`
  says that there is an order `ran`, the one in which blocks got `stateLock`: the ledger is its
  replay and the executed part of the block that holds the lock; and `ran` has, each once, the blocks
  of the chain and those of goroutines that wait to append. The order of the chain is another one;
  `Ordered` keeps both apart by two injections. When nobody waits, `ran` is a reordering of the chain.
- `SupplyIsConserved` is for any number of goroutines and accounts, provided that the balances of
  genesis add up to less than `Modulus` and are finitely many: a debit and a credit change the sum by
  opposite amounts, and no single balance wraps, because none exceeds the sum.

The sums and the replays are recursions over data. Facts about them are proved by `SetInduction`:
induction over the natural numbers stated for a set instead of a predicate, and derived from the
order of finite sets. Recursive functions are handled by the equation they satisfy (`IsRun`,
`RunExists`, `RunUnique`).

### Mempool and server (`TxPoolProofs`, `ServerProofs`)

- `PoolIsCoherent`, `AllIsBounded`: `Sound` adds to coherence what is needed of the cells behind the
  list, and pruning leaves room for one more (`PrunedRoom`).
- `PoolTypeCorrect`, `TakenStaysIntact`, `TakenHoldsTxs`: `TakenCells` adds that the array behind the
  slice is long enough and has a transaction in each of the slice's cells, and that without removals
  the slice lies in the part of the array in use, behind which additions are made.
- `ServerPoolSound`: what is proved of `TxPool` holds in the server, whose two goroutines use the pool;
  `PoolHoldsTxs` is needed for removals of a transaction the pool never had.
- `ServerTypeCorrect`: the transactions of a block in flight are read from the pool, so that
  `TypeOK` of `Blockchain` depends on the pool's cells. `ServerInv` has `PoolSound`, the stages of both
  goroutines (`Calls`), and that what is still to be executed is the end of the slice
  (`SliceInBlock`).
- `HashedIsExecuted`: as long as nothing is removed, the block was hashed with what `Pending`
  returned (`HashedTaken`), and what succeeded is part of what has been executed (`ExecutedPart`).
- `ForgottenIsExecuted` assumes that all transactions there are fit into the pool: then only
  `processBlock` makes `all` forget, and what it removes is in the block it has added
  (`RestExecuted`).
- `OnlyLateOrSkippedAreLost` has no hypothesis. What `processBlock` has removed is in the chain
  (`GoneInChain`). The part of the slice in front of everything removed is as `Pending` returned it
  (`FrontInv`), since a removal moves only what stands behind the transaction removed (`RemoveBehind`);
  so the transactions of that part which are no longer to be executed have been tried (`TriedInv`). What
  is pending and was not in the slice arrived after all that was (`LateInv`, from `OrderInv`: `pending` is
  in the order of arrival). The `Clear` after a block is the one step that loses anything.

The next three are about a sole validator: they assume `Bodies = {}`, so that no other validator
builds blocks. Blocks still come back from peers. The run `Sole_validator` satisfies all their
assumptions.

- `ExecutedOnceOnDisk` assumes also that the transactions there are fit into the pool
  (`Cardinality(Tx) <= MaxLength`), so that nothing is pruned and the pool remembers everything, and
  that the genesis transaction is not one a client can send (nobody has the key of its sender). Its
  invariant, `OnceInv`, follows a transaction from its arrival to the chain. `SoleInv`: no block on its
  way is higher than the chain, so the message loop is only ever told that it knows it, and the
  validator's block is built on the tip. `IdsInv`: identifiers are given in the order in which blocks
  are made, and a block is written once. `HistoryInv`: `all` holds what has arrived, each once.
  `FirstPending`: what the validator has taken is the beginning of `pending` until that is cleared.
  `ChainOrder`: the blocks of the chain have their transactions in the order of arrival, and what is
  pending came after those of every block that has been cleared. This holds unless a `Put` failed, after which
  `createNewBlock` leaves the pool uncleared (`AllOnDisk`, from `DiskOk`). `ExecutesData`: what a block
  executes is part of what it commits to.
- `BlocksKeepArrivalOrder` follows from the same invariant, without the assumption about the
  genesis transaction. What is left is about data: blocks whose places in `arrival` increase are,
  concatenated, a sublist of it (`OrderedIsSublist`).
- `ServerImplementsChainLog` needs no assumption about the pool. The message loop, the second caller
  of `AddBlock`, never gets past `HasBlock` (`SoleInv`), so the ledger is what `ReplayInv` says, and the
  block, built on a tip that was read earlier, is linked to the tip (`LogInv`). It executes
  transactions that are read from the pool's slice after they were hashed; as nothing is removed
  from the pool, they are the ones that were hashed (`SliceStays`).

### Network (`SyncProofs`)

`SyncInv` is for any number of nodes and links. `ChainsInv` says that every chain is a beginning of
the validator's; `TrafficInv` that every block in a message, a batch or a goroutine that broadcasts is
one of the validator's, or spoilt; `PoolsInv` that a pool has its transactions in one order;
`ExecutedInv` that the validator's pool remembers what it has executed and has none of it pending, but
for what was dropped at the limit or could not be saved. Then the only block a node can add is the next
one of the validator's chain (`OnlyTheNext`). `NetworkReplicates` is the refinement of `Replication`;
`TxsAreInOneBlock` says which transactions come back; `SyncTypeCorrect` gives the types and the order in
the pools.

### Transport (`TransportProofs`)

`ThreadInv` says which operations come to which label (`Fits`) and that a thread holds `mu` as reader
or writer exactly where label and operation say so (`Reads`); `ThreadMoves` is the one lemma about
steps of threads. `MapIsGuarded` follows. `TransportTypeCorrect` needs in addition that there is room
for the messages that threads have begun to send (`RoomInv`).

`TransportImplementsLossyLinks` is the refinement, for pipes, reads and numbers of messages of any
size. Its subject is the stream of a direction: the units that have been read and not decoded, then
those in the pipe. `StreamInv` says that they are in the order in which they were sent, that
a message begins only where another one has ended, and that the rest of a Write continues the stream;
`CutInv`, that only a reset leaves the rest of a Write behind; `BufInv`, that nothing is left in
`readLoop`'s buffer while nobody reads from it or hands it over. The two steps that take an argument:
a Read writes over the message the loop has in hand, of which can then be decoded a mixture, or the
message now at the head of the pipe (`NewDecoded`), which stands in the place of the one written over and
may be met once more; and the pipe loses what will be neither decoded nor awaited (`RestIsLater`). Both are damage
that a `LossyLink` allows (`LossDamages`). What the decoder returns otherwise is the first
message under way (`DecodedIsAwaited`). That a slice which nothing has written over, and which does not begin with a
message, is refused is part of the model (`Decoded`) and not proved.

### Persistent store (`PersistentStoreProofs`)

- `StoreTypeCorrect`: `TypeInv` says in which mode a goroutine can be where (`Stages`) and that only an
  open file is written (`Writable`).
- `IndexIsBacked`, `StoredIsDurable`, `NodesKnowTheirFiles`: `FileInv` follows a record from its first
  part to the index and the sync. A write at the end leaves every record that is there, a crash those
  that end before the cut (`RecordAtAppend`, `RecordAtPrefix`).
- `LookupsNeverWrong` and `OnlyTheFirstIsFound`: `LookupInv` says what the decoder of a look-up that nobody
  has disturbed has read of the file: its first record, and then types that it refuses. So the
  look-up returns the block that the file begins with if that is the one it was asked for, and an error
  otherwise, which is what the violation in `Lookup` comes from.

### VM (`VMProofs`)

- `VMTypeCorrect`: `VMInv` adds the kinds of values to `VMTypeOK`. That a program has a byte to begin
  with is an induction over `Assemble`.
- `BytesDoTheInstructions`: the machine starts as `QueueMachine` does, and each byte executed is one of
  its steps or leaves queue, store and status alone. `ByteIs` says which instruction a byte belongs to;
  `ReplaceEnters` and `RestIs` say that the shrinking array of `Stack` is a queue with a budget. It
  covers programs of any length on stacks of any size. That both machines panic at the same place is
  about `ENABLED`, and stays with the run `VM`.

### Only model-checked

- Liveness: `AddBlockReturns`, `CatchesUp`; and what depends on `ENABLED`: `StopsOnlyJammed`, the panics
  in `RunsThePrograms`. These are out of the provers' reach.

## 5. Not modelled

- Servers of one process share one store (`NewPersistentStore` is a singleton, and `main.go` runs
  three servers). `PersistentStore` has several goroutines that put, the genesis block again
  included; in `Blockchain` and `Sync` a node has a store of its own.
- Restarts of a node in `Sync`: a node that has stored a block does not get up again, see
  `PersistentStore`.
- The middle of a long message whose bytes happen to read as a message of their own (`Transport`).
- The content of a transaction that still carries the hash of another one, after mixing (`Sync`).
- More than one connection in `Transport`, and connections that replace each other. A client that
  posts while the message loop is jammed waits for it; that waiting has no state here.
- Programs with operands that are opcodes (`VM`).
- Data races on slice headers and maps, other than the sharing of the pool's array and the peer map,
  and the readers of the API.
- Cryptography, encodings of messages, logging, what the inspection tool prints, the demonstration in
  `main.go`, and the in-memory transport, which neither the program nor its tests use.

## 6. Plan

Done, in this order: `Ledger`, `Blockchain` with `ChainLog`, `TxPool`, `Server`, and their proofs;
`Sync` with `Replication`, `PersistentStore`, `Transport` with `LossyLink`, `VM` with `QueueMachine`.

Every safety property and every refinement that a run checks is proved for all values of the
constants, but for what depends on `ENABLED`; of the violated ones, `OnlyTheFirstIsFound` says in general why
`LookupFindsStored` fails. Next would come servers of one process on one store, and a
node that restarts with the file of `PersistentStore` in a network.
