# TLA+ models of lnd-cc's `lnwallet`

This directory holds TLA+ models of the `lnwallet` package of lnd-cc, a
Lightning Network daemon with coloured coins (`src/lnwallet/*.go`,
`src/unnamed/part_000`). Each model is checked with TLC.

## The system

The package has these parts:

- **`LightningChannel`** (`channel.go`) is the per-channel commitment
  state machine. Each party keeps two update logs: its own updates and the
  peer's. Each party also keeps two commitment chains: the local one, and
  the remote one that it signed for the peer.
  - `AddHTLC`/`ReceiveHTLC` and `SettleHTLC`/`ReceiveHTLCSettle` append log
    entries.
  - `SignNextCommitment` builds a view of the logs and signs the next remote
    commitment. Building the view (`fetchCommitmentView`,
    `evaluateHTLCView`, `processAddEntry`, `processRemoveEntry`) stamps the
    commit heights on the entries. `ReceiveNewCommitment` builds the local
    view and verifies the peer's signature.
  - `RevokeCurrentCommitment` revokes the old local commitment and pushes the
    revocation window edge. `ExtendRevocationWindow` also pushes the edge.
  - `ReceiveRevocation` checks the revocation against the elkrem receiver,
    advances the remote tail, forwards the HTLCs it finds locked in, and
    compacts both logs.
  - `InitCooperativeClose` and `CompleteCooperativeClose` move `status` to
    closing and closed. They build the closing transaction from the
    persisted balances (`createCooperativeCloseTx`).
  - `RevokeCurrentCommitment` and `ReceiveRevocation` persist
    `channelState`. `NewLightningChannel` rebuilds a channel from it after
    a restart.
  - Every commitment transaction goes through `ColorifyTx`. This is an HTTP
    call to a colour server, and it can fail.
- **`LightningWallet`** (`wallet.go`) is the funding reservation
  manager. One goroutine, `requestHandler`, serves the requests one at a time:
  reserve, cancel, contribution, single-funder contribution, counterparty
  signatures, single-funder signatures, and channel open. Reservations live
  in `fundingLimbo` until they are signed. The selected coins are locked
  through the wallet controller.
- **Coin selection** (`selectInputs`, `coinSelect`, `selectCoinsAndChange`
  in `wallet.go`) picks a prefix of the unspent outputs of the active asset.
- **`BtcWallet`** (`interface.go`) lists unspent, unlocked outputs, signs
  and publishes.
- **The colour service** (`colored.go`, `part_000`). `ColorifyTx` turns a
  transaction into a coloured one: each output's value becomes an
  instruction (output index, amount) in a final OP_RETURN output, and the
  output itself is rewritten to dust. The instructions are encoded by an
  HTTP call (`EncodeCcInstructions`).
- **The transaction builders.** The funding transaction
  (`handleContributionMsg`) and every commitment transaction
  (`fetchCommitmentView`, `createCommitTx`, `addHTLC`) are never sent to
  the peer. Each end builds them itself, sorts them with `txsort` (BIP-69),
  colourifies them, and only signatures are exchanged. So both ends must
  build identical bytes.

The channel and the wallet interact only through the funding result: the
channel's initial state. The models treat them separately.

## Modules

| Module | Models | State | Actions |
|---|---|---|---|
| `LightningChannel` | `channel.go` | per party: `ourUpdateLog`/`theirUpdateLog` (sequences of PaymentDescriptor records with the four commit heights), log counters, `localCommitChain`/`remoteCommitChain`, `currentHeight`, `revocationWindowEdge`, `usedRevocations`, `remoteElkrem`, `theirCurrentRevocation`, `forwarded`; `net[p]` is the FIFO link into `p` | one per public method, per party; `SignNextCommitmentEncodingFails` is the `ColorifyTx` failure path; `InitCooperativeClose`/`CompleteCooperativeClose` with `status` and `closeTxs`; `Restart` is `NewLightningChannel` rebuilding the channel from the persisted `channelState` |
| `ChannelLedger` | what the persisted state of one end promises | `ourBalance`, `theirBalance`, pending `htlcs`, `numUpdates` | `Commit`: new HTLCs debit their sender, removed HTLCs credit their receiver, the counter counts |
| `CoinSelection` | `selectInputs`, `coinSelect` | none (operators) | `SelectLoop` is the loop of `selectInputs`, written as a RECURSIVE operator |
| `ReservationManager` | `wallet.go` handlers, `requestHandler`, `InitChannelReservation`, `ResetReservations`; `interface.go` `ListUnspentWitness`, `LockOutpoint`, `UnlockOutpoint` | `msgChan` (the reservation requests queued for the dispatcher); `nextFundingID`; per reservation object `rid` (its `reservationID`), `fundAmt`, `inputs`, `step`, `chanOpen`; `fundingLimbo` (the objects in the map, keyed by `rid`); `lockedOutPoints`, `spent`, `confirming`, `cancelled`, `crashed`, `quit`, `faults` | one per `handle*` function, plus `OpenChannelAfterConfirmations` and `Shutdown`. `InitChannelReservation` queues a request and leaves its caller waiting (`step = "requested"`); `HandleFundingReserveRequest` takes the head of `msgChan` and answers it. The other requests are sent and handled in one step. A request acts on `Pending(res)`, the object the limbo holds under the caller's id. `ResetReservations` is only in `SpecWithReset`: nothing in the tree calls it. |
| `FundingTx` | `ColorifyTx`, the funding-transaction assembly of `handleContributionMsg`, change outputs | none (operators) | `BuildFundingTx`: our change, their change, the 2-of-2 output, sort, colourify |
| `CommitmentTx` | `createCommitTx`, `addHTLC`, the transaction part of `fetchCommitmentView` | none (operators) | `CommitmentView(chan, remoteChain, ...)`: keys, delay and balances of the chain's owner, one output per HTLC with the script `addHTLC`'s four-way switch picks, sort, colourify |
| `MCTransactions` | one builder call per state | the builders' inputs | none (`Next` stutters) |
| `MC*` | instantiations | | |

How the models abstract the code:

- **Keys, signatures and pre-images** are elkrem indices. A signature
  verifies if and only if the signed transaction equals the one the
  receiver builds (`SignedTx`). A commitment is its pair of balances plus its
  height.
- **HTLC logs** keep the code's fields that drive control: `Index`,
  `ParentIndex`, `EntryType`, `RHash`, `Amount`, and the four
  `add/removeCommitHeight{Local,Remote}` fields. The stamping is in place and
  happens before the transaction is built, exactly as
  `fetchCommitmentView` does it.
- **Persisted state** is `channelState[p]`: `OurBalance`, `TheirBalance`
  and `NumUpdates`, as `RevokeCurrentCommitment` writes them. It also holds
  the elkrem receiver and the peer's current revocation key. `revealed[p]`
  records the pre-images p has sent. It is a history variable for
  `NoRevealedCommitment`.
- **Failure** of any I/O call is a nondeterministic choice, bounded by
  `MaxFaults`. In the channel this covers only the `ColorifyTx` failure
  inside `SignNextCommitment`. A failing `FullSync` in
  `RevokeCurrentCommitment` (channel.go 890) and a failing
  `SyncRevocation` in `ReceiveRevocation` (channel.go 962) are not
  modelled. In the wallet it covers `NewRawKey`, `NewAddress`,
  `ListUnspentWitness`, `ColorifyTx`, `PublishTransaction`, `FullSync`, and
  the signature checks of a peer's input. Each failure takes the code's
  error path: the early return, together with the state it has already
  changed.
- **The wallet's dispatcher** is a single goroutine, so each handler is one
  atomic action. The interleaving that matters is between requests of
  different reservations, and between a cancel and later requests for the
  same id.
- **The caller discipline** the channel needs (the peer goroutine in lnd)
  is a set of guards, `NeedsSign` among them:
  - sign only when there is something new;
  - do not sign past the revocation window;
  - extend the revocation window only while the peer's window has room
    (`WindowNotFull`). The code has only a TODO at channel.go 1061-1062 for
    this check, and the map points at that TODO;
  - process a new commitment only when the local chain has one entry;
  - settle only an add that was forwarded.

## Runs

| Run | Cfg | Expect | What it shows |
|---|---|---|---|
| chan_core | MCLightningChannel.cfg | pass | No faults, both ends may close, window 1, fairness on. Invariants: `TypeOK`, `CommitmentBalanced` (every commitment sums to the capacity), `NoHonestRejection` (no signature, revocation or settle of an honest peer is rejected), `RevocationAccepted`, `SettlesMatchAdds`, `WindowBudget` (unused + used + in-flight revocation keys = the peer's edge minus its height), `CloseAgreement` (both ends build the same closing transaction). Properties: `LedgerRefinement` (each party refines `ChannelLedger`) and `EventuallySynced` (both ends come to rest with one commitment per chain, nothing left to sign, and `PendingUpdates` false). |
| chan_recovery | MCLightningChannelRecovery.cfg | pass | With one `ColorifyTx` failure and one restart, no party keeps a commitment whose revocation pre-image it revealed (`NoRevealedCommitment`). |
| chan_faults_balance | MCLightningChannelFaults.cfg | violation | **Finding:** after one `ColorifyTx` failure, the retried signature skips already-stamped entries, and the commitment is unbalanced. |
| chan_forward | MCLightningChannelForward.cfg | violation | **Finding:** a settle is forwarded before it is committed on the local chain. |
| chan_live | MCLightningChannelLive.cfg | violation | **Finding:** an add that is locked in on both chains may never be forwarded. Forwarding runs only on a received revocation. |
| chan_close_live | MCLightningChannelCloseLive.cfg | violation | **Finding:** if both ends call `InitCooperativeClose` at once, both answer the other with `ErrChanClosing` and no close ever completes (`CloseCompletes`). |
| chan_restart_ledger | MCLightningChannelRestart.cfg | violation | **Finding:** the persisted state holds no HTLCs; a restart with one locked in loses its value from both balances, so the persisted state stops refining the ledger. |
| txbuild | MCTransactions.cfg | pass | `selectInputs` equals the minimal covering prefix of active coins (`SelectInputsMinimal`). The check covers every ordering of every subset of 4 coins, two of them of another asset or of value 0, and every amount 0..7. The initiator and the responder build the same coloured funding transaction, although each puts its own change first (`CanonicalFundingTx`). Its instructions pay each script the amount its output was assembled with (`FundingPaymentsPreserved`). The commitment an end builds of its peer's chain equals the one the peer builds of its own, in both directions (`CanonicalCommitTx`). |
| res_core | MCReservationManager.cfg | pass | With no faults, reservations never share an input (`FundingLockCorrect`). Every locked outpoint belongs to a live reservation or to a spent funding transaction (`NoLeakedLocks`). Under `FairSpec`, a caller blocked in `InitChannelReservation` gets its answer unless the wallet shuts down or dies first (`RequestsAnswered`). |
| res_leak | MCReservationManagerLeak.cfg | violation | **Finding:** a key-derivation failure after coin locking, or a broadcast failure after the limbo delete, leaks the locks. |
| res_open | MCReservationManagerOpen.cfg | violation | **Finding:** after a cancel, `handleChannelOpen` sends on a nil reservation. |
| fund_sighash | MCTransactionsSighash.cfg | violation | **Finding:** `lndcc.ColorifyTx` gives the funding transaction's 2-of-2 output `dustAmount*15` = 8190 satoshis. Every commitment and closing signature signs the spend of that output with amount `Capacity`, and BIP-143 makes the amount part of the signed hash. So for any other capacity, the peers accept each other's signatures, but no commitment or closing transaction verifies on chain (`FundingOutputKeepsCapacity`). The later copy of `ColorifyTx` in `colored.go` keeps `txOut.Value` for funding outputs for exactly this reason. |

### The refinement

`ChannelLedger` is the abstract promise of one end: balances move only by
HTLCs that are added (debiting the sender) or removed (crediting the
receiver), and each committed update bumps the counter. `LightningChannel`
instantiates it twice (`LedgerAlice`, `LedgerBob`) with the mapping
`ourBalance <- channelState[p].OurBalance`,
`theirBalance <- channelState[p].TheirBalance`,
`htlcs <- ChainTail(localCommitChain[p]).htlcs`,
`numUpdates <- channelState[p].NumUpdates`. Every step that does not touch
that state is a stutter; `RevokeCurrentCommitment` is the `Commit` step.
Without restarts the refinement holds; a restart breaks it
(`chan_restart_ledger`).

Every property of a passing run has a mutant in `PROJECT.json`. A mutant is
a plausible bug in the mapped code, and TLC finds it: a window check off by
one; entries always treated as unstamped; the remove height read from the
wrong chain; the revocation taken after the height increment; a settle
matching an already-settled add; a revocation dropped from the window; a
persisted state that updates only our balance, or that does not count the
update; a stale funding id; a release that keeps the limbo entry or keeps
the locks; a coin-selection loop that stops one coin early; a funding
transaction colourified without sorting; instruction indices counted from
one; `addHTLC` naming sender and receiver the other way round in one of its
four cases.

### Observations checked once and not kept as runs

- `AddHTLC` has no balance check: with an amount of 2 and two HTLCs, a
  signed commitment has a negative output after six steps.
- `revocationWindowEdge` is restored as `NumUpdates`: `WindowBudget` fails
  after `AddHTLC`, `ExtendRevocationWindow`, restart. The restarted side
  hands out revocation indices it already gave the peer.
- `status` is never tested outside the two close methods. So a closed
  channel keeps signing and revoking, and its persisted balances move
  away from the signed closing transaction (`CloseIsFinal` in
  `LightningChannel`, broken after a close and one more update round).
  The doc comment and the spec say a closing channel rejects HTLC work.
- `ResetReservations` restarts the ids that the spec and the comment on
  `fundingLimbo` call monotonic. Under `SpecWithReset`, with the
  `res_core` bounds, `NoLeakedLocks` fails in six steps: a responder's
  reservation signs with id 1; the reset runs; a new reservation gets id 1
  and locks c1; the first caller's channel-open then opens the new
  reservation. After that, c1 stays locked with no reservation left to
  release it. Nothing in this tree calls the reset, so no run is spent on
  it.
- `compactLogs` evicts a settle when each chain's tail has passed that
  chain's own remove height, not when both tails have passed both heights.
  Evicting on the remote height alone breaks `NoHonestRejection`.

## Bounds

- **Channel:**
  - two parties, one hash, amount 1, balances 2 and 2, at most one HTLC.
  - The revocation window is 1 in `chan_core` and `chan_recovery`, and 2 in
    the fault, forward and restart-ledger runs. The code uses 4. With a
    window of 2 the core run also holds, but with the refinement and
    fairness it does not finish in five minutes. Every mutant of the core
    run is caught at window 1.
  - One HTLC, once added, settled, signed and revoked in both directions,
    already drives every stamp and every compaction branch.
  - At most one `ColorifyTx` failure (`MaxFaults`). That is the fewest
    faults that break balance. At most one restart (`MaxRestarts`), of
    either party, at any point. A restart also drops the messages in flight
    to that party.
  - `Closers` is the set of parties whose caller may start a close. It is
    both parties in the core and close runs, so concurrent initiation is
    reached.
- **Wallet:**
  - three coins: two of the active asset, one of another;
  - funding amounts 0, 1 and 2, at most 3 reservations, at most one fault.
  - Amount 2 needs both active coins, so two reservations compete for the
    coins. Amount 0 takes the single-funder path. Three ids allow a cancel
    to race later requests of another reservation.
  - Up to three reservation requests can wait on `msgChan` at once. So
    a request can be queued behind another caller's, be overtaken by
    `Shutdown`, or find its coins locked by a request answered before it.

- **Transaction builders:** every order of three change and funding
  scripts, and change amounts 0..2. The scripts include one that is a
  prefix of another, so the byte order of scripts matters. Commitment
  balances are 0 or 2. There are up to two HTLCs each way, of amounts 1
  and 2 and two payment hashes. So an HTLC output ties with a balance
  output on value, and two HTLCs can have equal scripts. The two ends'
  CSV delays and keys differ, so a swapped delay or key is seen.
  Scripts are sequences of their template arguments. Equal arguments give
  equal scripts, and scripts are ordered by their bytes. The real scripts
  are ordered by their hashes, an order just as fixed.

## Fairness

The liveness runs (`chan_core`, `chan_live`, `chan_close_live`) use `FairSpec`: weak fairness
on every message-handling action of each party, and on signing, revoking
and settling. Each of those is driven by lnd's peer goroutine. That
goroutine reads every message off the wire, and it signs or revokes
whenever there are pending updates. It also answers every close request it receives
(`CompleteCooperativeClose`). Adding an HTLC and starting a close are
user actions, so they get no fairness, and neither does a restart.

`res_core` uses `ReservationManager`'s `FairSpec`: weak fairness on
`HandleFundingReserveRequest` only. `requestHandler` loops until `l.quit`
is closed and takes whatever `msgChan` holds. The callers, the
counterparty and the chain are not driven by this code, so none of their
steps are fair.

## Not modelled

- **`LockedOutpoints`.** It appends `&outPoint`, the address of the
  loop variable. Under the Go loop semantics of this code's era, every
  entry points to that one variable. The list then holds the last outpoint
  visited, once per locked outpoint. A unit test with two locked outpoints
  shows this, and nothing in the tree calls it, so no module models it.
  `NoLeakedLocks` is stated over `l.lockedOutPoints` itself.
- **A failing `Startup`.** `Init` is a wallet whose `Startup` succeeded.
  `Startup` counts itself as started before `l.Start()`. If `Start` fails,
  `requestHandler` never runs, and every later `Startup` returns nil. Every
  caller of `InitChannelReservation` then waits forever. This is listed as
  a hazard.
- **`select` choosing a message after `l.quit` closed.** Once `Shutdown`
  closes `quit`, the model stops handling requests. Go's `select` may still
  take a few queued messages before it sees `quit`. That only answers
  callers that `RequestsAnswered` already excuses.

- **Replayed or duplicated messages.** The links are FIFO and lossless,
  except that a restart loses what was in flight. The elkrem `AddNext`
  refusal needs a replayed pre-image, so it is left out.
- **A `ColorifyTx` failure inside `createCooperativeCloseTx`.** It calls
  `log.Fatal`. The effect is a restart from the state before the close
  step, which `Restart` already includes.
- **`ForceClose`, `TimeoutHTLC`, `DeleteState`.** They are empty or only
  delete storage.
- **Reservations that are never finished.** Nothing times them out, and
  the spec puts the zombie sweeper outside the core. So no timeout is
  modelled. A caller's cancel is the only release, and callers may cancel
  at any time.
- **A reset that overlaps a handler.** `ResetReservations` falls between
  two handlers. Otherwise the runtime aborts the process on the unlocked
  map write (`crashed`). A torn reset, where the counter is reset but the
  map is not, is left out.
- **`EncodeCcInstructions`, `GetTxoData` and the BtcWallet I/O.** These
  are HTTP and RPC calls. Only their success or failure is modelled. In
  `FundingTx`, the instruction list stands for its encoding in the
  OP_RETURN script. The script templates (`commitScriptToSelf`,
  `senderHTLCScript`, `receiverHTLCScript`) are not in this tree. They
  appear only as injective stand-ins.
