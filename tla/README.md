# TALON in TLA+

TALON is the trading terminal of the CashCache repository: strategy modules turn market quotes
into order intents, a supervision gate decides which of them reach the broker, and an operator
watches and steers all of it from a terminal. It is one process of a dozen tokio tasks and one
OS thread that share state only through channels and one published snapshot. This directory
holds TLA+ models of its components, TLC runs over small instances, and proofs checked by TLAPS.

Paths below are relative to `src/TALON/crates/` unless they start with `src/`.

## The system

```
 IBKR bars ──mpsc 4096──┐
 Polygon poll (15 s) ───┼─> broadcast 4096 ─┬─> module loop ── mpsc 256 ──> ExecCore ──> IBKR
 Yahoo poll (30 s) ─────┘                   └─> state loop       intents      ^  │
                                                    │                        │  │ publish_state
 IBKR tape, depth ── 2 x mpsc 1024 ─> FlowManager   │          mpsc 50       │  v
                          ^              │          │   ┌─────────────────── Terminal
                          │ mpsc 32      v          v   │ approve / reject     ^
                          └─ terminal   AppState (watch channel) ──────────────┘
 EventStore: callers ── std mpsc ──> writer thread ──> SQLite (WAL)
```

| Component | State | Operations | What is hard | Correct when |
|---|---|---|---|---|
| ExecCore, `talon-exec/src/exec_core.rs` | pending queue, counters, tier, the intent in hand | receive an intent, four operator commands, one-second sweep, submit | every handler awaits the broker inside the select loop; approvals race timeouts; a batch can half fail | each intent is decided once, by who may decide it; nothing is sent twice; the counters add up; the snapshot is true |
| Operator's terminal, `talon-triminl/src/{app,input,render}.rs` | a copy of AppState, cursor, mode, overlay | redraw on change, keys | decides on a stale copy; `try_send` results are dropped | a command does what the operator saw it would do |
| Risk mesh, `talon-risk/src/mesh.rs` | none | evaluate | zero and negative net liquidation, limits scaled by the tier | a worse account never gets a wider gate |
| Stress engine, `talon-risk/src/stress.rs` | peak equity, tier, time of the last override | update, override_up, flameout_tighten_stops | overrides and updates in any order; stops of long and short positions | the tier follows the drawdown; overrides are slow; stops stay behind the price and tighten |
| Trust ledger, `talon-types/src/trust.rs` | approvals, rejections and diversity per key | record_approval, record_rejection, has_auto_trust | long decision sequences over several keys | a module acts alone only where it earned it |
| FlowManager, `talon/src/flow_manager.rs` | subscription, book, tape, profile, delta | select, clear, reset, print, depth row, minute tick | two streams and commands in any order; rows are positional; a day ends in between | one symbol and one session at a time; the book is the broker's; the statistics agree |
| Event store, `talon-db/src/store.rs` | channel, WAL, database, counter | append, snapshot, checkpoint, shutdown, open, replay | acknowledged before written; inserts and checkpoints fail silently; crashes | replay returns what was accepted, in order; the loss is bounded |
| Market wiring, `talon/src/main.rs`, `talon-data` | latest quotes, watchlist | three sources, bridges, module loop, state loop | lag, reordering, backpressure from the gate | a slow gate delays quotes and corrupts nothing |
| Strategies, `talon-firebird`, `-thunderbird`, `-taxi`, `talon-util` | rolling windows, mode, signal count | on_quote, pause, go_idle | windows with gaps and mixed sources; no memory of earlier signals | a signal follows from the window, once |
| IBKR broker, `talon-broker/src/ibkr.rs` | client, order map | connect with retries, submit, cancel, five streams | a fill before its order is in the map; an error after the order was placed | every fill and every working order is known |
| Portfolio, day trades, `talon-types/src/{portfolio,position}.rs` | positions, cash, P&L, fills | apply_fill, update_price, record_day_trade | partial closes, closes, flips, commissions | cash and positions account for every fill |
| Carousel, Vault, `talon-carousel`, `src/Vault/src` | pending and total harvest, losses, events | calculate, queue, cancel, receive, replay | rounding, windows, rebuilt from events | the rebuilt vault is the vault |
| Chart manager, `talon/src/main.rs` | the chart fields of AppState | fetch candles | dropped and late requests | the chart is the selection's |
| Governor, `talon-exec/src/governor.rs` | its own mesh, engine and ledger | process_intent, update_stress | decides at once, on state that two others move | an order goes out unasked only where that was earned |

Without state of their own: drawing (`talon-triminl/src/{ui,skin,splash}`), configuration and
shared types, and seven scaffolded strategy crates of one comment line each. `views.rs` is in no
crate: `lib.rs` does not name it. The mock broker is used by tests only, the rate limiter by
nothing. `src/FiREPLY`, `src/skills`, `src/specs` and `src/CashCache` hold documents.

Several operations exist that the running program does not call: the trust ledger's
`record_*`, the stress engine's `update` and `override_up`, the governor, `Portfolio`, `Carousel`,
the Vault and the two trackers. They are modelled by their public interface, each call in any
order the interface allows.

## The modules

| Module | Models | Composes |
|---|---|---|
| `Supervision` | `ModuleId::supervision_model`, `evaluate_supervision` | |
| `RiskMesh` | `StressTier`, its multipliers in quarters, `RiskMesh::evaluate` as operator `Approves` | |
| `ExecCore` | the ExecCore task, its two channels, the broker's answers, the intents' ages and the interval | `Supervision`, `RiskMesh` |
| `IntentLifecycle` | abstract: what the gate promises for one intent | |
| `Console` | the operator's approvals on top of a running gate | `ExecCore` |
| `BrokerLink` | the connection, the submission of an order, the broker that takes it, the order map, under gate and keyboard | `Console` |
| `StressEngine` | the stress engine and the stops it tightens | `RiskMesh` |
| `TrustLedger` | the ledger and what the supervision rule concludes from it | `Supervision` |
| `Governor` | the older gate, over the engine and the ledger it owns | `StressEngine`, `TrustLedger` |
| `Strategies` | the quote sources, the indicators and the three strategies, as functions | `Sums` |
| `Market` | the sources' channels, the lagging broadcast, module loop, state loop | `Strategies` |
| `Terminal` | every other key, the cursor, the chart requests, the chart manager | |
| `FlowManager` | the FlowManager task, its two streams, the broker's book | `Sums` |
| `EventStore` | the store, its thread, crashes and restarts | |
| `Books` | portfolio, harvests, Vault, wash-sale and day-trade trackers, as functions | `Sums` |
| `Accounts` | those books driven by fills, transfers and days | `Books` |
| `MC*` | the finite instances TLC checks | the module each is named for |
| `Sums` | sums of sequences as a recursive function, which the prover can expand | |
| `SumTheorems` | lemmas about those sums | `Sums` |
| `*Proofs` | the theorems about each component; `BrokerLinkProofs` has those about the gate too | the module each is named for |

Definitions whose name ends in `_Something` next to one without (`EnqueuePending_OneTooMany`)
are mutated forms of it, named for a plausible bug. Nothing uses them; putting one in place of
the original makes the property named in `PROJECT.json` fail.

### ExecCore

`at` says where the task is suspended: in `select!`, in `process_intent` awaiting the account
snapshot, or in `submit_to_broker`. A handler is thus cut exactly at its awaits: `ReceiveIntent`
(exec_core.rs:77-79), `ProcessIntent(n)` with the answer n (95-151), `SubmitToBroker(acked)`
(227-246), `HandleSupervisionCommand` (176-208), `ExpireTimedOutIntents` (210-225). Between
awaits the modules send, the operator sends, and `Clock` lets time pass. The publication at
the end of every select branch is part of the step that ends the handler (`FinishWith`).
ApproveAll drains the queue into `batch` and submits one after another.

Time has two clocks, as in the code. `age` is what an intent's own `Instant` has elapsed since it was
queued (exec.rs:53-61); `phase` is where the loop's interval stands (exec_core.rs:73), and `ticks` are
its ticks not handled yet: it keeps them while a handler is suspended, and the first is due at once. A
second has `Second` instants, so that an intent is queued in any phase of the interval and is
overdue for up to a second before the sweep that takes it. Ages are not told apart from `MaxAge`
on, and no more than `MaxTicks` ticks wait: a further one would only sweep once more after the others.

`account_snapshot().unwrap_or(0)` is why 0 is among the possible answers. The gate's own list of
positions is never filled by the program, so evaluation is against `EmptyBook`; its ledger is
never filled either, so `HasAutoTrust` is FALSE. `tier` never changes once the task runs, because
`run(mut self)` takes the only value on which `update_stress` could be called; runs start from
each tier of `InitialTiers`. The queue is a set ordered by `rank`, the order of arrival, which is
the order the code pushes in.

### Console and BrokerLink

The watch channel keeps one value. `StateChanged` copies it when the terminal's own select loop
gets to it, so keys act on an older copy. `try_send` on a full channel does nothing while the
status line says it was done: `TrySend`. The cursor of the pending list never leaves its first row
in the code, so a single approval names the first intent; that is also the only one the banner
draws (`ui/signal_queue.rs`), with the number of the others. `asked` remembers what was on the
banner when the key approving it was pressed. `MCConsole` adds what was on the screen when
approve-all was pressed (`seen`), and counts the whole of it as approved.

`BrokerLink` puts both on a broker. Nothing starts before `connect_with_retries` returns, and when
it fails main ends (`Connecting`, `Restart`). `submit_order` runs on a thread of its own while
the gate waits, and is cut where others can see it: the order leaves (`SendOrder`), the call returns
with the id or an error (`Return`), which puts the id into the order map, the only way for
`cancel_order` to reach an order (`Cancellable`), and the gate takes the answer (`SubmitOrder`). An
Ok says that the order has left and no more (ibkr.rs:169-192). `BrokerTakes` is the broker's own step,
before or after that; it need not come, for an order can be refused (error 201,
RUNBOOK.md:91-93) or lost, and no code hears of either. An error can come although the order has left.
`AccountSnapshot` is how ibkr.rs finds the net liquidation in the lines of an answer.

### StressEngine

Tiers come from `from_drawdown_pct` of |drawdown|, deepest threshold first; an update recomputes
the tier and so undoes an override; an override lifts one tier and starts the cooldown.
Divisions are avoided by multiplying out, and prices are halved only where they halve evenly.
`sinceUpdate` and `equity` are history variables: the code does not read them.

### TrustLedger

Entries are created on first use; the model has a `NewEntry` for each key from the start, which
`has_auto_trust` cannot tell from a missing one. `log` is the history the properties compare with.

### Governor

`ProcessIntent` is the governor's whole decision, a function of order, account answer, tier and
ledger: `Executed`, `PendingApproval` or `Rejected`. It has no queue and no timeout, and writes to
neither engine nor ledger. Because those two share nothing, `GovernorNext` moves one while the other is
as constructed, instead of exploring the product of their states.

### Strategies and Market

`Strategies` holds what one quote does: what a five-second bar, a Polygon snapshot or a daily
Yahoo bar becomes as a `QuoteEvent`, and each module's `on_quote` from its windows of one symbol to
new windows, intents and approaching setups. Indicators are ratios compared by cross
multiplication, the Bollinger band by squares with their sign, so that no rounding enters.

`Market` is the wiring around it. `published` is the whole history of the broadcast, and a reader
is a `cursor` into it; one that is more than the capacity behind loses the difference (`SkipLost`)
as tokio's `Lagged` does. The module loop is cut where it awaits: at the receive, at every send into the
intent channel, and at the final `send_modify`. The state loop may be away fetching the account,
which to the broadcast is a slow reader.

### Terminal

The watchlist is a `HashMap`'s values: a new symbol may reorder all of it (`NewSymbol`), under a
cursor that is a row number. Chart requests name the row of the terminal's copy and are dropped
when the channel is full; the chart manager answers one after another, with candles, without, or
at once with none when it has no key. `DetailPane` is what stock_detail.rs draws. `aimed` and
`moved` are history variables. Fetching has no time limit in the code, so nothing is claimed about
when a chart comes.

### Books and Accounts

`Books` has the calculations: positions are signed, a fill's record and cash follow apply_fill's
branches with its early return, harvests are in thousandths, dates are days. `Accounts` drives
them: `Fill` does what its record gives rise to (harvest, wash-sale loss, day trade),
`Transfer` and `Cancel` move the Vault's queue, `DayPasses` ages both windows. main.rs does not
connect these parts, so their order is the one the interfaces' own docs describe.

### FlowManager

Each handler of the loop is one step; the subscribe calls spawn a task and cannot fail, so
`subscribe_to` is one step as well. `feed` is the broker's ladder, from which each row operation
is derived with its position; `PrintArrives` and `RowArrives` put into the two channels, and
dropping or replacing the receivers empties them. Prices are in tenths of a cent, so `round_dp(2)`
rounds half to even here too. Prints have one size.

### EventStore

`append` only sends. The writer thread inserts, or fails to and logs it; counts events, failed ones
too; checkpoints at every multiple of the interval. SQLite is external: a commit in the WAL
survives the process, a checkpointed one survives a power failure too, and a power failure takes
a suffix of the WAL. SQLite's own checkpoints are left out: they can only make less be at risk.

## What is checked

| Run | States | What it shows |
|---|---|---|
| `exec_core` | 484,060 | all safety properties of the gate and that it implements `IntentLifecycle` |
| `exec_core_silent_broker` | violation | if the broker is silent, the ten-second timeout is not kept |
| `console` | 740,693 | gate, keyboard and broker together: a rejection in time is final, a single approval hits only what was on the banner, nothing leaves that was not released, nothing can be cancelled that counts as rejected, and every intent sent is decided |
| `console_unseen` | violation | approve-all executes an intent queued after its key was pressed and never on a screen the operator acted on |
| `governor` | 157,833 | one tier per cooldown; tightening never triggers; losing never admits more; nothing goes out unasked that was not earned |
| `flameout` | violation | tightening can move a stop away from the price |
| `trust_reearned` | violation | trust, once lost, cannot be earned again |
| `market` | 2,589,026 | windows, signals, brackets, setups and the watchlist under lag, three sources and backpressure |
| `terminal` | 6,373,152 | the cursor stays on the list; once all is answered the candles are the header's |
| `flow` | 425,083 | the book, the statistics, the session and the snapshot of the flow tab |
| `event_store` | 218,930 | order, completeness and bounded loss of the log, through crashes |
| `accounts` | 282,913 | the ledger adds up, harvests stay within gains, the wash-sale window is exact, the day-trade tracker forgets nothing that counts |

### The bounds, and why they are enough

* `exec_core`: four intents of which three are supervised and interchangeable (symmetry), with a
  pending queue of two, channels of one, a timeout of one second of two instants, two waiting
  ticks. So an intent is queued in either phase of the interval, ticks pile up, the queue fills, a batch has
  two elements, a third intent meets a full queue, and both channels exert backpressure. The real
  bounds (10, 256, 50, 10 s) add length and no new kind of state; the proofs below cover them.
* `exec_core_silent_broker`: two intents, without symmetry.
* `console`: two strict intents, a command channel of two, so that a command can be overtaken,
  queued behind another, or dropped; one retry of the connection; one waiting tick; account answers with no
  figure, another figure, the figure, and the figure followed by one that does not parse.
* `governor`: main.rs's own thresholds (3, 5, 8, 15 %) and limits, equities on both sides of each
  threshold and below zero, a cooldown of two minutes, stops on both sides. Time since the last
  update is cut at three cooldowns, after which no further tier is left to climb. 100 approvals are
  scaled to two, diversity to two of each kind, over four decisions on three keys, so that there is
  room for a rejection before, between and after the approvals.
* `market`: two symbols, one with bars, the fallback and snapshots, of which one has its low above the
  price, and one with snapshots without a trade; windows of two and three quotes; at most five quotes;
  a bar channel of one, a
  broadcast of three, an intent channel of one. So the windows fill and slide, every module signals,
  both readers lag, and the module loop waits for the gate. Longer windows add no kind of step.
* `terminal`: two symbols and three time frames, so that next and previous differ, room for one
  request, so that it is dropped while another is being fetched.
* `accounts`: three symbols of which two are a family, at most three shares, four fills and two
  days, both windows of one day, a day-trade limit of one and a tracker of one. So
  positions are opened, added to, reduced, closed and turned over, and both windows open and close.
  Prices are multiples of 144, so that every average is a whole number.
* `flow`: two symbols (symmetric), a book of two levels with three bids and one ask, channels
  of one, two prints between resets, two days. The book overflows and shrinks, rows shift under rows.
* `event_store`: three events, one snapshot, a checkpoint every two events, at most one explicit
  checkpoint in the queue, any number of crashes and restarts.

### Fairness

* `LinkFairness` (`BrokerLink`): weak fairness of the clock, because time goes on, and strong fairness of the
  three select branches. tokio's `select!` picks a random branch among the ready ones on each
  turn, so a branch that is ready again and again is taken with probability one; a branch that
  is ready at each turn of the loop need not be so during the awaits between, hence strong.
  The connection has none: a program that never connects decides nothing. The operator has
  none either: `EventuallyDecided` holds with no key pressed at all, by the timeout, and under any
  number of keys.
* The broker's two answers are weakly fair there. It is an assumption on the outside: the code
  sets no time limit. `exec_core_silent_broker` has the loop's fairness (`LoopFairness`) without it.
* `Market`, `Terminal`, `FlowManager` and `Accounts` state no liveness: a quote may be lost to lag, a
  fetch may hang, and a stream may end.
* `EventStore` has weak fairness of the writer: the thread only ever waits for its channel, and
  SQLite returns, with an error perhaps. Callers, crashes and restarts have none.

### What the violations say

* `TimeoutIsKept`: the account snapshot and `submit` are awaited inside the loop. `talon.toml`:
  "auto-reject after 10s with no decision". The counterexample: one intent waits in the queue,
  an autonomous one is submitted, the broker never answers, and no tick is handled again.
* `StrictApprovedOneByOne`: approve-all acts on the queue as it is when the command is handled.
  The counterexample: the key is pressed with one intent on the screen, another one is queued before
  the command is handled, and both are executed. The architecture document wants an approval
  "on every trade" of a strict module; that approve-all approves all the screen holds is granted.
* `StopsOnlyTighten`: a long position entered at 100 with its stop at 92 and its price at 94 gets
  the stop 94 - 4 = 90. The document speaks of tightening, and of "whichever is tighter".
* `TrustCanBeReEarned`: `record_rejection` resets the approvals and counts a rejection that
  nothing resets, and `qualifies_for_auto_trust` wants none.

## What is proved

39 theorems, resting on 332 lemmas, for every value of the constants that satisfies the assumptions named in the modules:
any finite set of intents, any modules, quantities and stops, any answers of the broker, any
capacities, timeouts, windows and limits. Each component has one inductive invariant; its theorems
are the invariant's consequences.

**The gate** (`BrokerLinkProofs`, first part). `TypeCorrect`, `OnePlaceOnly`, `NoDoubleOrder`, `CountersBalance`,
`SnapshotIsCurrent` and `SweepIsPrompt` follow from

    IInv == TypeOK /\ InOnePlace /\ SubmittedAtMostOnce /\ Balanced
            /\ PublishedIsCurrent /\ SweptInTime

`InOnePlace` is what carries it. That an order is acknowledged at most once does not follow from
the number of acknowledgements: it follows from an acknowledged intent being neither queued, nor in
the batch, nor in hand, nor in the channel, nor still to be sent, so that no handler can submit it
again. `Balanced` is `Accounted` with the batch and the intent in hand counted as one set,
so that every step moves elements between three disjoint sets. `SweptInTime` is
`SweptWithinASecond` extended to the suspended handlers: with no tick waiting, an intent's age is
below the timeout plus the phase, whatever its own phase. Ages and phase grow together until the phase
starts anew, which makes a tick due. Over the same invariant `GateImplementsLifecycle` proves that under the mapping
`Stage` (where an intent stands, read off queue, batch, hand and acknowledgements) every step of the
gate moves intents along `IntentLifecycle` or leaves them, and `OperatorReleases` that a supervised
intent leaves the queue towards the broker only in a step that takes an operator's command naming
it, or approve-all.

**Gate, keyboard and broker** (`BrokerLinkProofs`, second part). `DeskIsGate` says that the desk behaves as a gate,
so that all of the above holds of it too. `DeskTypeCorrect`, `RefusalHolds`, `ApprovalIsExact` and
`BrokerAgrees` need what is in the channel: an approval on its way was given with its intent on the
banner (`ApprovalsWereAsked`); a refused intent that still waits has a rejection ahead of every
command that could release it (`RefusedStayOut`); what left for the broker has left the queue for good
(`SentWereReleased`); and the order map is the acknowledged orders but for one whose answer the gate
has still to take (`AckedAreKnown`).

**The governor** (`GovernorProofs`): `GovernorTypeCorrect`, `LiftsAreSpaced`, `TighteningIsSafe`, the action
property `LosingIsMonotone` and `AloneOnlyWhereEarned`. `LiftsAreSpaced` needs the minutes since the last
override inside the minutes since the last update (`LiftsAreApart`), up to the cut of the clock.
`LosingIsMonotone` needs that no override lifts the tier above the drawdown, for then a lower equity is a
deeper tier, and the mesh's three limits shrink with both. `AloneOnlyWhereEarned` needs that an entry
counts the streak of approvals since the key's last rejection (`LedgerIsStreak`). The thresholds
are assumed to be between 1 and 100 %: at 0 every account would be in Nosedive, and above 100 an account
that lost everything might not be. They need not be in order.

**The event store** (`EventStoreProofs`): `StoreTypeCorrect`, `NoRowForgotten`, `ReplayIsInOrder` and
`PowerLossIsBounded`. `InOrder` puts log and channel into one order, that of the calls; the channel's
last command is Shutdown, if any (`ShutdownIsLast`), so that nothing follows what closes the store; and
the events at risk are at most the counter's remainder (`RiskIsCounted`), which is what the writer
looks at, though it counts failed inserts too.

**The terminal** (`TerminalProofs`): `TerminalTypeCorrect`, in which the cursor stays on a row because the
list only ever grows; and `CandlesMatchTheHeader`, because the last request tried is the last
in the channel, or the one being fetched, or the chart's (`LastWins`), and names what the
pane shows unless a symbol moved (`AimIsTrue`).

**The FlowManager** (`FlowManagerProofs`): `FlowTypeCorrect`, `TapeIsPure`, `NothingUnpublished`,
`RecordsReconcile` and `BookFollowsTheBroker`; all but the last for any rows, in place or not.
`TapeIsPure` needs that the channel of prints
holds the selected symbol's only, since every selection replaces it. `RecordsReconcile` needs that a
print moves one price level, the minute and the cumulative delta by the same amount, and
sums over the levels. `PrintPrices` is assumed finite, since the levels are summed.

`BookFollowsTheBroker` is the property `BookCatchesUp` itself; inductive together with
the broker's book never being deeper than the manager's (`FeedFits`, the guard of the feed's
insertions). A broker's row is given by a position and `process_depth` by a sort, and the two meet in the
ladder: a finite set of prices has exactly one list that is strictly in the side's order. So the list
after an insert, an update or a delete at the right position, sorted and truncated, is the ladder of
the set so changed. Replay then moves at both ends: a row the broker sends extends it by that step, a
row the manager handles moves from the front of the channel into the book, and the result is the same.

**The market** (`MarketProofs`): all six properties of the run. The wiring
(`WiringTypes`: cursors within what was published, losses before the cursor) and the modules' types
carry each of them.

* `WatchlistNeverGoesBack` (`WatchInv`): the state loop goes through the published quotes in order, and
  what it did not show is what it lost.
* `SignalsReachTheGateInOrder` (`SignalInv`): the intents made are those sent followed by those in the
  outbox; they are ordered by quote, then by module, none is for a quote beyond the cursor, the counters
  count them, and the outbox is empty between quotes.
* `ModulesSeeTheTape` (`WindowInv`): the tape of a symbol is the received quotes that were not
  lost; one more received quote makes it longer by one, a lag changes neither tape nor window, and
  a window that keeps the last n of a sequence keeps the last n of the longer one.
* `HeatingIsTrue` (`HeatInv`), of Firebird: every reading is that of the window before the current one, so
  that the comparison made on the next quote is between neighbours.
* `BracketsAroundThePrice` (`BracketInv`): by the arithmetic of each `on_quote`, for every intent made
  of a quote with a price; Thunderbird's target, the mean, is below the price because the price is above
  the band. Of the data it assumes only that a
  snapshot has one low at most. Where Firebird's quote has a low above its price, or none, the property
  claims a target and no stop: the code takes the two from separate fields and compares them nowhere.
* `ReversalsNeverOppose` (`NoneOpposed`, with `WindowInv` and `SignalInv`): Firebird buys what the RSI
  calls oversold, Thunderbird sells short what is above the band. By `WindowInv` both look at the end of
  the same tape. Oversold, the first two prices of the RSI's window are together more than twice the
  last; with the last above the band, the three would be far above the mean together. The squares of n
  numbers bound how far three of them can be (Cauchy-Schwarz, `ThreeFromMean` in `SumTheorems`), and that
  excludes it where (n - 3) k2 <= 3 k1 for n prices and the squared deviation k1 / k2, and the RSI
  looks back at least two and less than n (`BandIsWide`). The code's 14, 20 and 2.5 satisfy it,
  just: 17 * 4 <= 3 * 25. So do the run's figures.

**The books** (`AccountsProofs`): `WashIsExact`, `DayTradesRemembered`, `HarvestsWithinGains` and
`CashIsAccounted`. The tracker's twenty last trades suffice because trades are recorded in order
of days and the limit is no larger than what is kept: either it still has every recent trade, or all that it
has are recent (`WindowIsSeen`). The losses pruned are past the window for good (`LossesKept`).
`CashIsAccounted` is the part of `LedgerAddsUp` about cash and the day's figure; a position's
quantity is what its symbol's fills add up to, which tells the full closes from the rest.

Two things carry the proofs about data. Sums are a recursive function (`Sums`), and
`SumTheorems` proves what one more element, one changed element or larger elements do to
them; where that takes induction, it goes by the least index at which a claim fails
(`LeastNat`, `UpTo`). Sets that are counted are sets of indices.

Model-checked only:

* `ProfitsAddUp` in `LedgerAddsUp`: it holds where every average entry is a whole number, as
  in the run; `\div` loses what the code's decimals keep. The other half of `LedgerAddsUp`, cash
  and the day's figure, is `CashIsAccounted`.
* All liveness (`EventuallyDecided`, `EventuallySettled`): fairness and ENABLED are beyond the prover.
* The four violations, which are counterexamples.

## What is left

Every safety property of a passing run but `ProfitsAddUp` is a theorem. That one would need positions
valued in exact fractions instead of whole numbers. Not modelled is what the next section lists.

## Not modelled

* Positions, margin events and the fill stream of the broker. Positions are only drawn; the fill
  stream copies the order map before any order exists (ibkr.rs:431), and what it sends goes to a
  broadcast without a receiver, so that no fill changes anything.
* The state loop's account and position fields, the session clock, the module states: each is
  written by one task and only drawn.
* `update_price`, `recompute_nlv`: figures that no decision in the code reads.
* `pause` and `go_idle` of the strategies, `is_cruising_altitude`, `timeout_default`, modify and
  withdrawals: no caller, or none with anything to act on.
* The mock broker and the rate limiter: no order of the program passes through them.
* Drawing, apart from what two panes choose to show; configuration; the scaffolded crates.

## Read in the code, shown by no run

* RUNBOOK.md:34 has `h` as an entry halt that stops new intents; in the code it is `H`, and it only
  sets a flag of the terminal that nothing but the drawing reads (input.rs:57-64). RUNBOOK.md:32's
  keys for moving in the pending list move the watchlist.
* RUNBOOK.md:99-100 counts automatic executions as approved and timeouts as rejected;
  `ExecMetrics` keeps them apart, and a failed submission is counted as approved and rejected.
* `SupervisionDecision::ExecuteOnTimeout` and `timeout_default` are never produced or called.
* Trading modules without an allocation get zero percent, which the mesh takes as no limit
  (mesh.rs:55-72); the limit on concurrent positions meets an empty list of positions.
* WIRING.md:27-31 sends fills to `Portfolio::apply_fill`; nothing subscribes to the fill channel, and
  both ends of the event channel live to the end of main unused, so that the store receives no events.
* flow.rs:160 says a reset clears tape, profile and delta; it clears the book as well, under a
  stream whose rows are positional. `BookCatchesUp` is stated for books that were not cleared so.

The market data:

* Bars bring the volume of five seconds, snapshots and the fallback that of a day, into one window of
  volumes: a declining volume can be a change of source. A snapshot without a trade has price 0.
* Yahoo is described as a fallback (RUNBOOK.md:69) and polls always. A quote has no time of its own.
* Firebird's stop is the day's low less one (firebird lib.rs:139). Bars and the fallback bring no low, so
  that its intent goes out without a stop, where its own test (lib.rs:275) expects one; and a snapshot's
  low (polygon.rs:98-137) is compared with its last price nowhere, so that the stop can be at or above the
  limit. `BracketsAreSane` names both cases and excludes all others.
* A quote that gives no reading (Taxi at its support, Thunderbird in a band without width) leaves
  the previous one, so that `heating` can be judged against one many quotes old. `HeatIsReal` is
  stated for Firebird, which has a reading for every quote once its window is full.

The broker and the terminal:

* An order the broker refuses after the call returned (error 201) stays acknowledged, counted as executed
  and in the order map: no stream that the program reads brings the refusal.
* `positions()` and `account_snapshot()` return Ok with what came before a stream's error, and the state
  loop takes a failed `positions()` as an empty list (main.rs:170).
* Fills that find no order get a fresh id, and their shares are taken unsigned (ibkr.rs:468).
* The banner shows the first pending intent only, while approve-all takes all. Keys work also
  when the terminal is too small to draw anything (ui/mod.rs:55).
* The chart pane does not compare `chart_symbol` with its header, and the watchlist's
  `scroll_offset` never moves, so that the selected row can be off the screen.
* RUNBOOK.md:35's EJECT sends nothing; Ctrl+X leaves the loop as `q` does, so that the event
  store is shut down in both. No key sends a `FlowCmd`: the book pane stays empty.
* The HTTP client of the chart has no time limit.

The books:

* Cash misses the proceeds of every full close (portfolio.rs:67-68), and a fill through zero keeps the
  entry price of the old side. `LedgerAddsUp` states both exceptions exactly.
* The day-trade window is five calendar days (position.rs:105), and `specs/TALON_ARCHITECTURE_v3_2_0.md:334`
  has `business_days_ago(5)`: over a weekend the code counts fewer days and allows a day trade that the
  document forbids. `Accounts` has the code's days and none of the week, so no run shows it;
  `PdtForgetsNothing` is about what the tracker lets go of. `blocked_symbols` lists the losing symbols, not their
  families, which `is_blocked` does block. A transferred harvest is never marked in the queue.
* The governor executes an `ExecuteOnTimeout` decision at once, and its ledger cannot be written.
* The mock broker ignores the side of an order: its positions are always long.
