# stn-chain in TLA+

A TLA+ development kept beside the C17 sources of the `stn-chain` node: modules
that model the node, TLC configurations that check them on small instances, and
proofs checked by TLAPS. Paths below are relative to the repository root.

## 1. The system

A node keeps one accepted history of blocks, beginning with a configured
genesis, and derives everything else from it: tip, target, cumulative work,
authority grants and identity rotations, compensation destinations, wallet
balances, and the sets of consumed replay keys. Blocks reach it by RPC, from the
internal miner or from peers; every path ends in the consensus validator and in
one snapshot file that is rewritten as a whole. Records waiting for a block sit
in a pending pool in memory.

```
 RPC clients   inbound peers    outbound peer   internal miner      threads
      |              |                |               |
 dispatch lock   (no lock)      dispatch lock   dispatch lock
      |              |                |               |
  mining service     |           peer sync        mining service    stn_mining, stn_peer,
      |   \          |                |               |             stn_internal_miner
      |    pending pool               |               |             stn_pending*
      +--------------+----------------+---------------+
                     |
          storage coordination, fork choice                         stn_storage, stn_fork
            |                     |
  storage provider         consensus validator                      stn_linux_storage, stn_chain
  (lock, stage, rename)    (clones of the projections)
                                  |
            economic, authority and contract projections            stn_economic_state, ...
```

| Component | State | Operations | What makes it hard | What makes it correct |
| --- | --- | --- | --- | --- |
| Consensus validator, `stn_chain.c` | none of its own; derived state in, derived state out | validate a candidate (from state alone), reconstruct a history, validate a sequence, search records | a block fails after part of it was applied, in-place reuse of the lifecycle, two entry points with different knowledge | no partial effect, nothing accepted twice, both entry points agree |
| Economic projection, `stn_economic_state.c`, `stn_compensation_state.c`, `stn_*replay.c`, `stn_block_compensation_acceptance.c`, `stn_transfer_envelope_*.c` | destinations, balances, supply, consumed share, block and transfer keys | choose destination, issue, accept a reward pair, transfer, consume | 64-bit edges, order inside and across blocks, replay | supply is what issuance created and balances add up to it; evidence pays once, to the wallet chosen first |
| Authority lifecycle, `stn_lifecycle.c`, `stn_authority.c`, `stn_replay.c` | grants, revoked grants, rotation chain, consumed replay ids | grant, revoke, rotate, check a publication | order inside a block, fixed capacities, replay after revocation | a publication has a grant in force, a statement acts once, a retired identity stays silent |
| Contracts, `stn_contract*.c` | registered drafts, one array of vote slots, state and sequence of each contract | register, amend, approve, reject, execute, revoke, close, rebuild, list | shared slots and draft bytes, two accounts of one history, several grants of one action | attestation needs a majority, an action acts once and under a grant in force, both accounts agree |
| Storage coordination, `stn_storage.c` | nothing between calls; caller's active state and the file | create, load, extend, apply, recovery read, adopt | failure or stop between file and memory, stale caller state, damaged file | memory follows the file, the accepted history is replaced only by strictly more work |
| Linux provider, `stn_linux_storage.c` | descriptor of the lock file, snapshot, staging file | acquire, release, read, replace | threads without a common lock share the descriptor | exclusion covers read, validation and publication; the file is old or new, never mixed |
| Validated-history cache and peer snapshot, `stn_storage_cache.c`, `stn_peer_snapshot.c` | bytes, context and validated state | load, remember, release | stale cache | equal bytes and context give the state of full validation |
| Fork choice, `stn_fork.c` | none | evaluate histories or a suffix, cursor recovery | ties, plans that age | strictly greater work only |
| Mining service, `stn_mining.c`, `stn_block_reward.c` | template buffer, suffix stage, active state | template, submit share, work, block, history, suffix | durable block with a failing reward, template over stale pool | accepted work is recorded once, the template can be accepted |
| Pending pool, `stn_pending*.c`, `stn_block_compensation_candidate.c` | up to 128 entries in 256 KiB | admit, assemble, prune, remove | limit reached, entries that became invalid | an entry is unique, selected only if acceptable, and eventually leaves |
| Peer protocol, `stn_peer.c` | session counters, outbound rotation, candidates | serve, sync, step, discover | remote changes or stops in the middle, local history read long before adoption | only validated histories with more work are adopted |
| Internal miner, `stn_internal_miner.c` | next nonce | step | template changes between steps | it submits what it solved, as any miner does |
| Target and work, `stn_pow.c`, window in `stn_chain.c` | the headers since the last multiple of 60 | next target, work of a target, sum of work | wide arithmetic by bytes, clamps, a window known without its history | every state names the target the rule gives over its history; work is exact |
| Readers: record queries of `stn_chain.c`, recovery in `stn_fork.c`, published INFO in `stn_app_linux.c` | cursors of consumers, the published payload | first, next, lookup, status, recover, publish | branches exchanged between two requests, a copy read without the lock | a consumer takes each record once and catches up with what a search shows; INFO never shows a branch that was left |
| Linux application, `stn_app_linux.c` | dispatch lock, published INFO, client list | RPC, inbound, outbound, miner threads, shutdown | detached sessions, shutdown order | INFO shows an accepted state, nothing is used after release |
| Codecs, wallet, address, intelligence content | none | encode, decode, verify | boundaries | round trip and canonical form |

## 2. Modules

| Modules | Part | Built on |
| --- | --- | --- |
| `Economy`, `Lifecycle` | economic projection, authority lifecycle, as operators on records | |
| `Chain`, `ChainProperties`, `ChainProofs`; `MCEconomy`, `MCAuthority` | consensus validator | `Economy`, `Lifecycle` |
| `Target`, theorems in `ChainProofs`; `MCTarget` | required target, retarget window, work | |
| `Contracts`, `ContractProperties`, `ContractProofs`; `MCContracts` | contract projection and its arm of the validator | `Lifecycle` |
| `Histories`, `Accepted` | valid histories and their work; the abstract ledger | |
| `Store`, `StoreProperties`, `StoreProofs`; `MCStore` | storage coordination, stops and restarts | `Histories`, refines `Accepted` |
| `Provider`, `ProviderProofs`; `MCProvider` | Linux storage provider and its threads | |
| `Pool`, `Mining`, `MiningProperties`, `MiningProofs`; `MCMining` | pending pool, mining service, internal miner | `Economy`, `Lifecycle`, and `Chain` by `INSTANCE` for acceptance |
| `Sync`, `SyncProperties`, `SyncProofs`; `MCSync` | outbound lane, peers, suffix sessions | `Histories`, refines `Accepted` |
| `Readers`, `ReadersProofs`; `MCReaders` | record consumers, recovery plans, published INFO | `Histories`, `Lifecycle` |
| `Inductions` | induction over naturals, finite sums, folds over sequences | instantiated by `ChainProofs`, `ContractProofs`, `MiningProofs` and `ReadersProofs`, each with its steps |

A part that composes with another takes it at the level it needs: the pool asks
the validator of `Chain` itself, `Store`, `Sync` and `Readers` take acceptance
as a set of valid histories with work, and `Sync` takes storage as the accepted
history, which `Store` shows it is.

Still open, in this order: shutdown of the application with detached sessions;
reference counts of derived states; the validated-history cache.

## 3. The consensus core

`Chain` has one variable per piece of state a node derives (`history`,
`economy`, `authority`) and one per local of `validate_candidate` that matters
(`block`, `next`, `cloneE`, `cloneA`, the entry point `mode`, the report's
`verdict`). `Begin` and `RefuseLink` are the header rules; each `Accept...`
action is one pass of the transaction loop for one transaction type; `Discard`
is the failure arm; `Publish` the success path. `Economy` and `Lifecycle` hold
the projections as records with one operator per operation of the code: a
predicate for when it returns OK, an operator for what it leaves.

What is abstract: a record is identified by its contents; a block identifier is
the position of an accepted block; decoding, proof of work, target, body
commitment and signatures are Boolean fields of the candidate (`sealed`,
`proof`, `signed`). The code reconstructs a history from EMPTY on every call and
validation is deterministic, so the model extends the accepted history by one
block at a time. The in-place reuse of the lifecycle inside reconstruction is
the same as working on a clone, because a failure there fails the whole
reconstruction. Contract actions are in `Contracts`.

### Target and work

`Target` keeps the numbers as digits: a target is `Digits` digits of `Radix` for
32 bytes, the scaled product has two digits more for 34 bytes, `Window` is for
60 blocks and `Expected` for 3600 seconds. `TargetNext`, `TargetWork` and
`WorkAtHeight` are the byte loops of `stn_pow.c`, digit by digit and bit by bit:
`Carry` and `Rest` are what a loop carries from one digit to the next; `PriorValid`,
`WindowValid` and `RequiredTarget` are what `stn_chain_required_target` demands of
a state before it names the next target, and `Accept` moves the window as
`validate_candidate` does. `TargetFollowsHistory` compares the outcome with the
rule of `docs/POW.md` over the whole history in plain arithmetic.

### Contracts

`Contracts` has the snapshot (drafts in one buffer, entries, one array of vote
slots), the lifecycle of authority, and a `log` of what was accepted that no code
reads. Blocks carry contract actions through the validator's arm
(`Submission`); a CREATE never passes it (section 8), so `Registration` stands
for callers of the library, the tests among them.

### Runs

| Run | Instance | Shows |
| --- | --- | --- |
| `economy` | two miners, two wallets, four blocks (genesis included) with at most two units each, where a unit is a transaction or a reward pair; unit values 1 and 2, `MaxUnits` 5, two paid blocks | no evidence, reward or transfer nonce is accepted twice; supply equals issuance and the sum of balances; issuance has evidence and pays the first destination; both entry points agree; the accepted state is the fold of the history |
| `authority` | two roots, three identities, one scope, four blocks of at most two records, one revocation and two rotations at most, activation at height 2 | publications are authorised, statements act once, retired identities stay silent |
| `target` | every valid target of three digits to the base four, windows of three blocks, gaps of 0, 1 and 9 where the expected span is 4, seven blocks | through two adjustments the window of a state names what the rule gives over the history; work is the exact quotient, summed |
| `contracts` | drafts of three approvers, of one, and of one approver named twice; two roots, six actions per contract at most | attestation by majority, entries keep their votes and bytes, actions act once and under a grant in force, rebuilding agrees with the store, lists keep their order |
| `share_reward` | the economic instance with a few bodies, five blocks | one statement of the documentation the code does not meet, see section 8 |

The bounds let each interesting case happen: a record repeated in the same
block, in the next block and two blocks later; a block that fails on its second
transaction after its first changed a clone; balances that reach `MaxUnits` and
refuse a credit or a transfer; the reward capacity reached and exceeded; a full
revoked set and a full rotation chain; publications on both sides of the
activation height. Two wallets suffice for transfers between distinct wallets in
both directions, and the second miner for the destination and reward rules. The
gaps give spans below, between and beyond both clamps, the digits a product that
needs each of the two extra ones, and `WorkLimit` a sum that overflows. Three
approvers make a majority of two, one approver a majority of one; the vote
slots (five) are fewer than the participants of all drafts. No
liveness is claimed here and no fairness assumed: the validator is a function
called by others. The instance of `economy` offers no authority records, so that a
refused one leaves the accepted state alone rests on theorem `StateReplays`, not on
a run.

## 4. Storage

### Coordination

`Histories` gives the vocabulary: which histories reconstruction accepts, their
work, and `Prefers`, the fork choice of `stn_work_order`. A tip determines its
history because block identifiers hash their parent. `Accepted` is the abstract
specification: one ledger, replaced as a whole by a valid history of strictly
more work, whose end only the medium may destroy.

`Store` is the code. A node is a process with the data directory: the service,
and any other process that takes the same lock; within a node calls are serial.
`file` and `stage` are the two files, `owner` the lock, and per node `pc` is the
place inside a storage call, `view` what the call has read, `proposal` what it is
about to publish, `active` the state shown, as the history it derives from.

| Code | Actions |
| --- | --- |
| startup in `main`, `stn_storage_create` | `Start`, `StartMissing`, `Create` |
| `stn_storage_load` at the head of a request | `Load` |
| `stn_storage_extend` | `Extend` |
| fork choice, then `stn_storage_apply` | `Plan`, `Apply` |
| `stn_storage_recovery_read`, `stn_storage_adopt` | `RecoveryRead`, `Adopt` |
| `replace_snapshot`, then the move of the state and `release` | `CreateStage`, `WriteStage`, `Rename`, `MoveActive` |
| refusals (stale, not preferred, invalid), failures of the provider | `Refuse`, `Fail` |
| process stop; medium; operator | `Stop`, `Damage`, `RemoveStaging` |

Between the read at the head of a call and its lock, every other node may run.
Under the lock a call reads, compares and proposes in one step, because only the
medium can change what it reads, and writes in four, because a stop between any
two leaves a different disk.

### The Linux provider

`Provider` looks inside one node. Its threads share the field `lock_fd`. RPC
workers, the outbound thread and the internal miner hold the dispatch lock while
they call storage; an inbound session does not. Every load and store of the field
and every system call is a step. Descriptors are small numbers given lowest
first, and `close` frees whatever the number names by then; `flock` belongs to
the open file. The race on `lock_fd` is undefined behaviour in C; the model takes
the outcomes of plain loads and stores, which the calls between them force the
compiler to emit.

### Runs

| Run | Instance | Shows |
| --- | --- | --- |
| `store` | two processes, four histories: a branch of three, and one of two that outweighs its prefix and ties with its end | the accepted history is replaced only by more work whatever fails; what a call compared is what it replaces; a shown state is on disk; a left staging file fails closed; a writer gives the lock back |
| `provider` | two workers and an inbound session, four descriptors, two replacements | until a session calls, the provider excludes, releases everything and publishes whole files; whatever sessions do, no worker replaces a version it has not read |

`SerialContract` is about serial use only: it holds until an inbound session calls,
and section 8 says what happens after. What survives the race is
`WorkersLoseNothing`.

Two processes suffice for every race of a stale view, and four histories for an
extension, a reorganisation, a tie, a stale plan and a candidate equal to the
damaged prefix. A call holds two descriptors at most; four let a number be reused
while others are open. Two replacements give a version that is stale twice over.
`Damage` and `Stop` are unbounded.

Fairness is one weak fairness per node on the steps of a replacement
(`Replacement`): a thread that has taken the lock keeps being scheduled and its
system calls return. No fairness is assumed of the start of any call, of the
operator or of a restart; a process that stops drops its lock with its
descriptors.

## 5. Pool and mining

`Mining` has one variable, the state of the service: the accepted view, the pool,
and the last work handed out. The dispatch lock serialises requests, so a handler
is a function from the state and the request to the state and the answer, and
`Next` is one handler (`SubmitTransaction`, `SubmitIntelligence`,
`PendingStatus`, `SubmitShare`, `Template`, `SubmitBlock`, `SubmitWork`,
`SubmitHistory`, `MinerStep`). `Pool` holds what they call: admission of each
kind of entry through the three layers `stn_mining.h` stacks over
`stn_pending.c`, assembly with reward pairs, pruning and masks. Whether a body is
acceptable is asked of the validator in `Chain`: its operators, instantiated with
the history, the block and the index in question. `Init` is the service on a
genesis that validates; storage activates no other.

What is abstract: the byte budget of the pool is left to the entry count; the
order of identifiers, which are hashes, is the one of the constant `IdOf`, any
injective numbering of the transactions that occur; a work
identifier is height, parent and target; storage succeeds, since `Store` has its
failures. The miner's nonce search is one choice of what it finds. An identifier
is a position, so when a submitted history replaces accepted blocks the entries
that name them are renamed to foreign ones (`Detached`); an extension leaves the
pool as it is.

| Run | Instance | Shows |
| --- | --- | --- |
| `mining` | two miners, one without a destination at first; a pool of six entries, bodies of three, four blocks, a clock that may fail, a transfer, a publication, shares and pairs, and a branch of a peer | what assembly re-checks makes an acceptable template and pays no evidence twice; pairs enter whole; entries leave only into accepted blocks; shares leave room for the reward of a block |

Six entries are four, which share admission keeps in reserve, and two to fill;
128 in the code. Bodies of three hold a pair and one more, 32 in the code. The one
transfer conflicts with no other entry and the rewards stay within the capacity of
the view: `TemplateConsensus` is about what assembly re-checks, and fails outside
those bounds (section 8). No liveness is claimed: section 8 says why no template need ever be accepted.

## 6. Synchronisation and readers

### Sync

`Sync` is one node against its peers. The lane's worker takes the dispatch lock
for a whole step, from connection to adoption, network exchanges included;
`lane` is the place inside the step and `conn` the connection with the server's
side of it. A server answers from the snapshot it loaded when the session began;
an `Unstable` peer answers each request from another history, which is a peer
that misbehaves or restarts. `Answered` is one exchange, `Stall` a partial answer
after which nothing comes, `Disconnect` and `StorageFails` end a step at any
place. `stage` is what each RPC session has staged of a suffix; `meant` is what its
client is about and no code reads it. `Extend` is the miner or another block,
`Evidence` the submission of a whole history.

| Run | Instance | Shows |
| --- | --- | --- |
| `sync` | four endpoints: the node itself, an unstable peer, an honest one that knows both, one of another network; three candidates at most, pages of two headers, tables of three blocks; two sessions with stages of two blocks; six histories | the history is replaced only as a whole and by more work; a commit publishes what its client staged; a lane that rests has nothing better to take; every candidate is tried again and again, with the exceptions below |
| `sync_deadline`, `peer_reward` | the same | two statements of the documentation the code does not meet, section 8 |

Three candidates are one fewer than the endpoints, so discovery meets its bound.
Pages of two make a history of three blocks take two pages, and the one of four
is too long for the table; one history has evidence that state-only validation
cannot decide, and one a block reward.

`LaneMovesOn` needs weak fairness of the worker and of nothing else: the worker is
a loop, and every wait inside it that is not part of a frame has an idle bound.
Peers owe nothing. Two things keep other candidates waiting. A connection that is
never closed may keep the lane, but only while its steps keep ending: a session that
stops answering loses it. And a peer that breaks off within a frame of a fresh
connection keeps a step from ending at all (`Stuck`), which is the divergence
`sync_deadline` shows; the property excepts it and nothing else.

Worth knowing when reading the module: a lane that succeeded stays on its
connection and asks again every five seconds, but the server's snapshot belongs to
the session, so newer blocks of that peer arrive only after the connection ends.
The executable sets no `self`, so a node that learns its own address by discovery
may connect to itself and rest there (`Self` is empty in the runs).

### Readers

`Readers` has the accepted history, the operation that changed it and still holds
the lock, the published INFO, and per consumer what it has taken in and its
cursor. Records are searched by position in the history. `Content` gives a block any
transactions: authority records and publications, and `Others`, which stand for
transfers, destinations, shares, issuances, compensation evidence and contract
actions. Consensus keeps those away from the authority lifecycle, the record search
does not (`Applies`): it fails at the first it reaches, and FIRST, NEXT and LOOKUP
answer PROVIDER for what was not found before (`Observe`, `Earliest`). A recovery
plan walks the same search and fails with it (`PlanFails`). A host of the library
may retain the history it last read and gets a recovery plan, the executable
passes none (`src/src/stn_mining.c:484-493`) and its consumers start again.

| Run | Instance | Shows |
| --- | --- | --- |
| `readers` | branches of up to four blocks that displace each other, dormant publications, a revocation, a block that state-only validation cannot decide, a transfer before every publication of a branch and one between two; an RPC consumer and a host that retains | a consumer has taken in exactly the records shown up to its cursor and catches up with what a search shows once the history rests; INFO is never of a branch that was left |

`ConsumersCatchUp` is about what a search shows, that is, all publications in force
up to the first transaction of another kind. It excepts two states consumers never
leave, both in section 8: a history state-only validation cannot decide, and
(`Stranded`) a retaining host with detached records whose plan fails. Without either
exception TLC finds it violated.

Fairness is weak fairness of the end of an operation and of each consumer's
requests: both are loops of the caller. INFO may lag behind the internal miner,
which publishes nothing (`docs/LINUX_INFO_VALIDATION.md`).

## 7. What is proved

Every theorem holds for every value of the constants the named assumptions allow:
any sets of records, offers, nodes, workers, peers, consumers or participants, any
contents of blocks, any capacity,
histories of any length. The assumptions are those of the modules
(`EconomyAssumption`, `LifecycleAssumption`, `ChainAssumption`,
`ContractsAssumption`, `LimitsAssumption`, `HistoriesAssumption`, `NodesAssumption`,
`ProviderAssumption`, `SyncAssumption`, `ReadersAssumption`, `PoolAssumption`,
`MiningAssumption`, `TargetAssumption`); TLC evaluates each on the instances of the runs. The invariants named below were
checked with TLC on those instances before they were proved, except `OnceInv` and
`ReplayInv`, which quantify over or choose from infinite sets, as does the one
conjunct of `Serves` that a history or a body is a sequence.

### The consensus core

| Module | Theorem | Property |
| --- | --- | --- |
| `ChainProofs` | `TypeCorrect` | `TypeOK` |
| | `EvidenceOnce` | `EvidenceActsOnce`, the conjunction of share, reward and transfer evidence |
| | `AuthorityOnce` | `AuthorityActsOnce` |
| | `IssuanceEvidenced` | `IssuanceHasEvidence` |
| | `PaidOnceChosen` | `PaidToFirstDestination` |
| | `AgreementOfEntryPoints` | `EntryPointsAgree` |
| | `PublicationsAuthorized` | `PublicationAuthorized` |
| | `RetiredStaySilent` | `RetiredIdentitySilent` |
| | `SupplyAccounted` | `SupplyIsAccounted` |
| | `StateReplays` | `AcceptedStateReplays` |
| | `TargetsFollow` | `TargetFollowsHistory` |
| | `WorksAreEarned` | `WorkIsEarned` |

None of the properties is inductive: they speak of the history, while the code
decides from what a clone remembers of it. Each invariant says what that is, for
the accepted projections and for the clones, which go on from them with the
applied prefix of the candidate.

- `OnceInv`, for the two "once" theorems: the consumed keys are those of the
  history and the applied prefix, positions with the same key are the same, and
  between validations the clones are the accepted projections. `EvidenceInv` and
  `DestinationInv` do the same for issuances. `EntryPointsAgree` follows from the
  types alone.
- `AuthorityInv` and `SupplyInv` lay history and prefix out on one timeline, a
  function from positions to transactions. Authority: every grant held was
  accepted, every revocation and rotation on the line left its mark, the rotation
  chain does not come back to an identity it left. That last part is what makes
  `RetiredIdentitySilent` inductive, and it needs the replay identifiers: a
  rotation cannot be accepted again. Supply: the sum of balances and the sum of
  issued units on the line are the supply.
- `ReplayInv`: the accepted projections are the fold of the history, and the
  clones the fold of the applied prefix on top of them. Two nested folds, one of
  blocks and one of transactions.

Targets and work rest on arithmetic first. Each loop is a fold whose invariant
relates the digits done so far to the number they write (`Lead`): the scaled digits
write the product (`ScaledIs`, where `4 * Expected <= Radix * Radix` is why two
digits more are enough), the quotient digits write the quotient (`DividedIs`), the
two tests on the leading digits are the comparison with the largest target
(`LargestIs`), and so the adjustment is the clamped quotient (`AdjustedIs`). The
division bit by bit gives the quotient of `Radix^Digits` (`WorkIs`), and the
doubling of `stn_work_at_height` the multiple, with nothing on the way beyond the
result (`WorkAtHeightIs`), which is why a state below the first boundary is never
refused for its work. `TargetInv` then says that the window is the end of the
history since the last boundary and carries the target of the tip, that times do
not go back, and that the work is what the blocks earned. `TargetAssumption` asks
of the numbers what 256, 32, 256 bits, 60, 3600 and 2^320 satisfy; TLC checked
`TargetInv` on the instance of run `target` first.

### Storage

| Module | Theorem | Property |
| --- | --- | --- |
| `StoreProofs` | `TypeCorrect` | `TypeOK` |
| | `ExclusionCovers` | `ReadIsStillCurrent` |
| | `Refinement` | `HistoryOnlyGrows`, that is `Spec => Ledger!Spec` |
| | `Durable` | `DurableBeforeVisible` |
| | `FailsClosed` | `LeftStagingFailsClosed` |
| `ProviderProofs` | `WorkersAreSafe` | `WorkersLoseNothing` |
| | `ContractKept` | `SerialContract` |

The five of `StoreProofs` rest on one inductive invariant, `IInv`, for every set
of nodes and of histories in which valid histories are closed under prefixes,
work grows along them and a tip determines its history. `ReadIsStillCurrent`
alone does not survive a step: that no other node can rename meanwhile needs to
know that whoever is past its comparison holds the lock; that the rename grows
the ledger needs the comparison the call made to be remembered, as the relation
of `proposal` to `view`; and what damage leaves of the file is a prefix of
`view`, which is why work can only have shrunk since. `IInv` says these three and
ties the staging file to the call that created it.

`ProviderInv` has two halves. `WorkerInv` holds with sessions about: a worker that
will replace has read the version it replaces, because the dispatch lock keeps
the other workers out and sessions never write. `SerialInv` holds until a session
calls: the provider is in one of the states of the one call in progress, which
fixes every descriptor, the owner of the lock, the field and the staging file.

### Synchronisation

`SyncProofs`, from `SyncInv`:

| Theorem | Property |
| --- | --- |
| `TypeCorrect` | `TypeOK` |
| `SettledIsBest` | `SettledMeansNoBetter` |
| `GrowsOnly` | `HistoryOnlyGrows`, the abstract ledger `Accepted` |
| `CommitsAreOwn` | `CommitsItsOwn` |

`SettledMeansNoBetter` is about the end of a step, which is many exchanges after
its beginning. `LaneInv` carries it through: headers and blocks fetched from a
steady peer are a prefix of what its session shows, so the table that is full is
that history, and adoption compares the whole of it. `StageInv` says that what a
session staged is the part of its client's history that the counters name.

### Contracts

`ContractProofs`, from `ContractInv`:

| Theorem | Property |
| --- | --- |
| `StoreTyped` | `TypeOK` |
| `MajorityAttests` | `AttestedByMajority` |
| `OwnDraftsAndVotes` | `EntriesKeepTheirOwn` |
| `ActsOnce` | `ActionActsOnce` |
| `ActorsInForce` | `ActorInForce` |
| `RebuildingAgrees` | `RebuildAgrees` |
| `FirstAreListed` | `QueryListsFirst` |
| `NoneBeginsOnChain` | no contract begins through a block, only by registration |

Entries share one buffer and one array. That one never reads or clears another's
part needs `ApartInv`, that offsets are ordered as entries are; that a vote always
finds a slot needs `SlotsInv`, that used slots are as many as votes cast; and that
the sequence in an entry is the place in the log is `LogInv`. A majority is counted
over distinct approvers, which a list of participants may repeat.
Rebuilding is a fold of the plain lifecycle over the log. `RebuildInv` says that it
has reached the state, the sequence and the number of votes of the entry, and,
because a repeated approval would stop it, that every key it remembers has a
sequence it has passed; a state before the first approval has none, `APPROVALS`
has one, which is where the two accounts meet when two are required.
`NoneBeginsOnChain` is the statement behind the last item on contracts in
section 8.

`FirstAreListed` is an induction along the entries of a store. After each, the list
is `Foremost` among the members met so far: in order, short only when it holds them
all, and nothing left out sorts before anything listed. The step rests on the order
being a strict weak one (`BeforeOrders`): a result replaced at the end of a full list
sorts before nothing that stays, and a new one put in behind the last it does not
precede is in order with all of them.

### Pool and mining

`MiningProofs`, for any pool of at least four entries, any numbering of the
transactions, and any submissions, offered blocks and branches:

| Theorem | Property |
| --- | --- |
| `RoomStays` | `RoomForReward` |
| `PairsEnterWhole` | `PairsWhole` |
| `TemplatesPayOnce` | `TemplatePaysOnce` |
| `PoolFollows` | `PoolFollowsAccepted` |

A handler is a function, so each proof is a relation every handler keeps between
the state before and after. For the first two it is `Keeps`: the pool stays finite
and within its limit, what came in unasked has its issuance beside it, and a share
came in only with two places to spare. What the validator accepts plays no part
in it.

In the other two it does, and the inductive invariant is `Serves`. Neither
property is inductive: that an evidence is unpaid is decided from the table of
rewards, but the property speaks of the accepted transactions; that a reward just
queued is not yet accepted needs to know that accepted rewards name blocks below
the tip. `ViewInv`, a part of `Serves`, says what acceptance leaves behind:
accepted transactions name blocks by position, reward evidence and its issuance
are recorded, recorded rewards are older than the tip. It is proved along the two
folds of the model, transactions of a block (`BodyInv`) and blocks of a history,
with the validator's operators expanded. The rest of `Serves`: entries of the pool
have the shape of their kind, and leased work pays once over the current view. A
first-part issuance in a body pays a share, whose miner and destination determine
the entry, so two that pay the same evidence are one entry; of pairs there is one
for each evidence (`NthIs`: enumeration by rising identifier names every entry of
a finite set once). `Follows` is the relation: what a handler lets go of was
accepted, or is in the pool under the name a replacement of blocks gave it.
An entry that a replacement renames is never also accepted under its new name,
because accepted transactions name positions only (`DetachedNamed`).

`Pool` instantiates `Chain` and not `ChainProperties`, which would do as well for
TLC: with parameters in the instance, tlapm expands definitions that follow
the community modules in the instantiated module to the wrong ones.

### Readers

`ReadersProofs`, from `ReadersInv`, for any valid histories of any length:

| Theorem | Property |
| --- | --- |
| `ConsumersFollow` | `SeenIsAccepted` |
| `InfoFollows` | `InfoIsAccepted` |

`SeenIsAccepted` compares a consumer with the history its cursor names only while
that history is accepted, so it is not inductive: a branch that is left may come
back. `ReadersInv` says of every consumer that what it took in is what some valid
history shows up to the cursor. A cursor names a block, and a block its ancestors, so
any history with that block shows the same (`CursorCarries`); this is what lets a
cursor outlive replacements. What a history shows up to a place is a fold over its
places, which are a fold over its blocks; both grow with the history
(`LookedGrows`, `FoundBegins`), which makes one more record read one more record
taken in (`ReadTakes`). For the plan of a host that retains, the greatest height
both histories share is where they part (`BelowIs`, `AncestorIs`), so what it keeps
is what the accepted history shows that far (`RecoverTakes`). Blocks may hold any other
transactions; that a search has failed is part of what the fold carries, and a
history shows nothing beyond that place however it grows. INFO is only ever a
copy of an accepted history, and a replacement publishes before it ends.

### Only model-checked

`LockReturns`, `LaneMovesOn` and `ConsumersCatchUp` are liveness, which the proof
system does not reach here. `TemplateConsensus` depends on the instance: what
assembly does not check again, that the amounts of a body fit, the numbers of the
run decide.

The library's induction theorems take an operator as a parameter, which the
installed provers cannot instantiate. `Inductions` states induction over the
naturals for sets instead (a set that holds 0 and every successor holds every
natural), and from it that sums over a finite set do not depend on the order
`CHOOSE` fixes and that a fold over a sequence exists and applies one element
after another. The step of the fold is a constant operator of the module, which
its instances give: blocks and transactions of a replay, actions of a rebuild,
entries of a list query, blocks and transactions of the view a pool works on, places
and reads of a search for records, digits and bits of a target.

## 8. Where the code and its documentation differ

Shown by a run that TLC finds violated:

- `ShareRewardOnce` (`share_reward`): an issuance of a share's reward is accepted
  again in every later block that carries it (`docs/ECONOMY.md:205`).
- `StepReturns` (`sync_deadline`): the setup of a fresh connection clears the
  operation deadline the worker has set, and a peer that sends part of a frame and
  stops holds the step and the dispatch lock
  (`src/platforms/linux/stn_linux_peer.c:240`, `docs/PEER_PROTOCOL.md:289-297`).
  The Windows setup does not clear it.
- `PreferredAdopted` (`peer_reward`): with a pool attached, a validated history of
  more work is refused when a block in it carries a block reward
  (`src/src/stn_peer.c:174`, `docs/PEER_PROTOCOL.md:20-21`). The executable always
  attaches a pool.

Met while modelling, and read off the code:

- Evidence for one block is distinct per miner, so two miners are paid for it
  (`docs/ECONOMY.md:88-90`).
- The target in a share's own header is never compared with the one required at
  its height (`src/src/stn_share.c:134`, `docs/ECONOMY.md:262`).
- State-only validation compares a share's parent with the prior tip instead of
  the tip's parent and leaves every immediate share unresolved
  (`src/src/stn_chain.c:967-968`).
- The recovery scan validates from state alone, so a damaged history with
  evidence about older blocks yields no prefix at all
  (`src/src/stn_storage.c:450`, `docs/PEER_PROTOCOL.md:134-135`). The record
  queries do the same: once such a block is accepted, they answer UNAVAILABLE for
  good (`src/src/stn_chain.c:1140-1146`, `docs/ARCHITECTURE.md:615-618`), which
  `ConsumersCatchUp` excepts.
- The record search passes every transaction except dormant publications to the
  authority lifecycle, to which any type but grants, revocations, rotations and
  publications is malformed (`src/src/stn_chain.c:1193-1194`,
  `src/src/stn_lifecycle.c:149`). Once an accepted history holds a transfer, a
  destination, a share, an issuance, compensation evidence or a contract action,
  FIRST, NEXT and LOOKUP answer PROVIDER for everything not found before it, for
  good, where `docs/ARCHITECTURE.md:605-608` promises the first eligible witness or
  END. The recovery plan fails likewise (`src/src/stn_fork.c:189-196`), so a host
  with detached records is left without one. `ConsumersCatchUp` claims no more than
  what searches show and excepts such a host.
- With an inbound session the storage lock can stay with a descriptor nobody
  remembers, and storage is busy until the process ends
  (`src/includes/stn_storage.h:17,20`, `docs/CHAIN_CONTENTION_REPAIR.md:11`); with
  two, a worker's bytes go to the lock file through a reused number and an empty
  file is renamed (`src/includes/stn_storage.h:18`, `docs/PERSISTENCE.md:53-54`).
  `Provider` shows both when `SerialContract` is stated without its premise.
- Two honest transfers that overdraw a wallet together stay in every template, and
  no template is a valid block until one is gone: assembly re-checks evidence,
  issuances and publications only (`src/src/stn_pending.c:944`,
  `docs/MINING_WORK.md:221-223`, `docs/CONTRACTS.md:40-42`). A share with an
  unverified proof, submitted as a plain transaction, makes template building
  refuse. After 4096 rewards pairs still enter templates.
- After the first accepted block reward no publication can be admitted, by the
  same scan that refuses peers' histories (`src/src/stn_pending.c:617`; `ScanFails`
  in `Pool`).
- The mask of accepted entries compares four bytes off and misses a grant that is
  submitted again (`src/src/stn_pending.c:463`). After reorganisations entries that
  name detached blocks never leave.
- `docs` give a block 16 transactions and the pool 1,024; the code 32 and 128.
- No evidence a CREATE may carry satisfies the authority check, so no contract
  begins on chain (`src/src/stn_chain.c:594`,
  `src/src/stn_contract_transaction.c:14-18`, `docs/CONTRACTS.md:32-38`).
- Approvers are compared by raw key where `docs/CONTRACTS.md:182` says the `stn0`
  identifier (`src/src/stn_contract_consensus.c:36`); authority of an action
  ignores identity rotation (`src/src/stn_chain.c:599`).
- The library's reconstruction of a contract agrees with the store only when two
  approvals are required, its duplicate check can never fire, because the key
  holds the current bytes (`src/src/stn_contract.c:769`), and a failed one has
  already overwritten the caller's keys (`src/src/stn_contract.c:1273`,
  `src/includes/stn_contract.h:545`).

## 9. Not modelled

Cryptography, byte layouts and content rules of intelligence records are data
the properties do not tell apart. Windows adapters play the roles of the Linux
ones. The size probe a session makes before its load is not a separate call: a
file that has grown makes the load refuse, which every call may do. The
directory is not synced after the rename, so a power failure may bring the old
snapshot back; only process stops are modelled, and `Damage` for the medium.
Contract responses, detail queries and the list RPC are compiled into no program.
The RPC codec, the node's stateless answers, the listener's address checks and
command-line handling keep no state between calls. Block, transaction and record
codecs appear as what they refuse. Wallet, address, identity, configuration and
reports are encodings. What is open beyond that is listed in section 2.
