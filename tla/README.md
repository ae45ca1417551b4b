# B20SCAN in TLA+

B20SCAN indexes the tokens of the B20 factory on Base into one SQLite file and
serves them over HTTP.  This directory holds TLA+ models of it, the TLC runs
that check them on small instances and TLAPS proofs of their invariants for
every value of the constants.

## The system

| component | source | state it keeps | operations |
|---|---|---|---|
| store | `db.js`, `chain.js` | tables `tokens`, `events`, `holders`, `policy_events`, `policy_state`, `meta` | insert-or-ignore, flag upkeep, `applyTransfer`, policy state upserts |
| indexer | `indexer.js` | three cursors in memory, four in `meta` | factory, live and event streams; start, tick, failure, crash |
| Cobalt streams | `indexer.js` | two cursors and `cobalt_start_block` in `meta` | registry and seizure streams with ranges in flight, search of the start block |
| RPC transport | `rpc.js` | slots and their queue, cooldowns, checked chains, preferred endpoints | one call with failover |
| repair tools | `repair-balances.js`, `repair-chain-balances.js` | a plan, in a backup file | rebuild balances from the events or from the chain |
| history and policy API | `history.js`, `policy.js` | none | folds over the events, keyset pagination |
| web server | `server.js`, `health.js` | caches, rate buckets, account types | live reads, account typing, health, rate limit |
| MCP bridge | `mcp-server.js` | none | forwards tool calls to the REST API |
| frontend | `public/index.html` | list, card, address of one tab | fetch, refresh, navigate, render |

The indexer is the only writer of chain data.  It reads the chain through the
transport, which several awaits of one process share, and writes the store,
which several processes share: the service, a cron run of `--once`, a
`--cobalt-backfill` and a repair tool.  The server reads the store and adds the
account types.  What makes this hard:

- a range is stored, applied and vouched for by a cursor in three steps; the
  process can die between any two, and a failed drain leaves the in-memory
  cursor behind the stored one;
- the live stream stores newer rows before the event stream has applied older
  ones, and `applyTransfer` clamps at zero, so order matters for ever;
- nothing is ever unwound, so everything rests on the depth of `CONFIRMATIONS`;
- two processes move the same cursors, one with four ranges in flight;
- the transport's slots are handed over from call to call, and its cooldowns
  and preferences are written by calls that planned with older ones;
- the web server derives the admin filter of the token list from three tables
  and two caches that the indexer, visitors and a warm-up change at their own
  pace, one statement at a time;
- in the page every answer may be overtaken by a click, and an older answer by
  a newer one.

## Modules

| module | models | built on |
|---|---|---|
| `Store` | the tables and every statement on them, as operators on a record | |
| `Indexer` | the processes, the chain, cursors, transactions | `Store` |
| `PublicLedger` | the promise: balances are the exact net of a confirmed prefix | |
| `IndexerLedger` | the refinement mapping from `Indexer` to `PublicLedger` | both |
| `CobaltStreams` | `followCobalt`, registry tables | |
| `RpcTransport` | `createRpcProvider` | |
| `LogSplit` | `getAddressScopedLogs`, `getTopicScopedLogs` | |
| `Creators` | `txFrom`, `fillMissingCreators` in the follower and under `--fill-creators` | |
| `Repair` | the two repair tools beside a follower | `Store` |
| `TokenHistory` | the stored events of a token, arriving in any order | |
| `TokenControls` | roles, controls, seizure capability, announcements | `TokenHistory` |
| `PolicySnapshot` | `policySnapshot` | `TokenHistory` |
| `HistoryPages` | `eventQuery`, `runPaged` and a paging reader | `TokenHistory` |
| `AccountTypes` | `accountTypeFor`, its caches, the warm-up, the admin flags | `Store` |
| `TokenPage` | the list, the card and the address bar of `public/index.html` | |
| `MC*` | small instances for TLC | |
| `StoreProofs` | lemmas about the operators of `Store`, and about folds over sets | `Store` |
| `IndexerProofs` | theorems, and the proof of the refinement | `IndexerLedger`, `StoreProofs` |
| `RepairProofs` | theorems | `Repair`, `StoreProofs` |
| `CobaltProofs`, `TokenPageProofs` | theorems | the module of that name |
| `RpcProofs` | theorems | `RpcTransport`, `LogSplit`, `Creators` |
| `TokenApiProofs` | theorems | `TokenControls`, `HistoryPages`, `PolicySnapshot` |
| `AccountTypesProofs` | theorems | `AccountTypes`, `StoreProofs` |

### Store

A database is a record; `insertToken`, the insertion of rows with
`markTokenEvent`, `applyTransfer` and `insertTransferEventAndApply` are
functions from databases to databases.  `UNIQUE(tx, log_index)` makes a row the
log itself, so INSERT OR IGNORE is set union.  A holder row exists exactly when
its balance is positive, so `holders` is a function to `Nat`.  Columns nobody
decides on (names, timestamps, creators, last activity) are left out.

### Indexer

Each process has a program counter.  An action is what the code does between
two awaits, or inside one SQLite statement or transaction; `applyStoredTransfers`
is one action per row inside an open transaction, which a crash discards.
Variables: `chain` and `head` (the network, with reorganisations less than
`CONFIRMATIONS` deep), `db` and `meta` (committed contents), `txn` (the open
transaction of one writer), `mem` (one record per process; `F`, `T`, `L` are
`main`'s cursors, `cur` the one inside a drain, which `main` sees only when the
drain returns).  A `getLogs` reply is the whole answer, or with `ShortReplies`
any part of it.  `START_BLOCK`, the chunk sizes, lookback and ranges per tick are
constants.  Block times only fill display columns and are left out; the search
for creators has its own module, and the halving of a query that is refused has
too: here a reply is what the halves add up to.

`PublicLedger` is the promise a reader of the API relies on: a ledger that has
counted all Transfers up to some confirmed block and counts whole blocks.
`IndexerLedger` maps the indexer to it: the applied rows are what is counted,
`holders` and `total_supply` are the books.  It assumes what a token contract
guarantees, that no Transfer spends more than its sender has
(`SolvencyAssumption`); the clamp of `applyTransfer` then never has work to do,
and that it has none is what the refinement says.

### CobaltStreams

`drainNewStream` for the two cursors, with up to `Concurrency` ranges whose
replies and insertions interleave; the binary search of `cobaltStartBlock`, an
await per step; `setPolicyChildren` with its guard on block and log index.
Only confirmed blocks are read, so the chain is a constant here and `safe` moves
over it; that confirmed blocks stay is `CanonicalOnly` of `Indexer`, and that
deployments up to the factory cursor are listed is its `CursorComplete`.

### RpcTransport

Calls, slots, the queue of `acquire`, cooldowns per endpoint and method,
`chainChecked`, `preferred`.  Error texts and statuses are abstracted to the
outcomes an endpoint may produce: answer, split, outage, failed chain check.
`Dependable` endpoints never produce the last two when they serve the right
chain.  ethers never cancels a request of a `JsonRpcProvider`, so the abort
path is left out.

### LogSplit, Creators

`LogSplit` is the algorithm behind a reply: an endpoint refuses an answer with
too many logs or a query over too many blocks, the transport refuses an answer
that may have been cut off, and the two functions halve blocks and addresses.
A query is a record of addresses and blocks, and the two functions of the code
are recursive functions on such records.  Answers are sets: a log that came
twice would be stored once, by its key.  `Creators` is the loop that
looks up who deployed a token, with the null that `txFrom` caches, in the
follower (a batch per tick) and in the run with `--fill-creators` (batches until
one fills nothing).  The batch sizes 25, 50, 100 and 1000 are one constant.
Three kinds of transactions are told apart: those that every endpoint returns
(`Sure`), those returned now and then (`Flaky`) and the rest.  `CreatorsFilled`
says of a sure creator that it is found in the end if fewer rows than one batch,
of those that are not sure, come before it; `FillComplete` says of the end of
`--fill-creators` that a sure creator is only left behind a whole batch of missing
rows that are not.  With such a batch in front it really is left (see Findings).

`RpcTransport`, `LogSplit` and `Creators` share no state; `MCNetwork` checks them
in one run, each from initial states in which the other two rest.

### Repair

The reads of `repair` and `repairChain` are separate actions and each last
transaction is one.  `Unchanged` is what that transaction checks.  A follower
goes on beside the two tools that check for one; beside `repair` without
`--dry-run`, which checks nothing, it is stopped, as README.md:81 of the
repository demands.  Initially any of the stored rows up to the cursor have not
been applied, and the follower may have been killed between the commit of a
range and its cursor, so that rows above the cursor are applied already.
`FromBlocks` are the values of `--from-block`.  Rows that arrive meanwhile may lie
above the cursor or, late, below it.  Balances of the chain are those of all logs
up to the cursor.  The file a tool saved may be applied again, by `applyPrepared`
or `applyChainSnapshot` (`ApplySaved`), at any time later: `Unchanged` has to
refuse it by then.

`applyPrepared` marks by block: every unapplied row of the token up to the cursor.
The rows it marks need not be the rows the plan is about, and what it checks, the
cursor and two totals, does not always tell.  There are two ways to it:

- A row at or below the cursor arrives after the preparation.  That takes a reply
  that was too short and a follower that was not stopped, against README.md:81 of
  the repository.
- `--from-block` leaves older unapplied rows out, and what a killed follower has
  applied above the cursor makes up for them.  With a mint in block 1 and transfers
  in blocks 2, 3 and 4, of which 2 and 3 were left unapplied and 4 was applied by a
  follower that died before it moved its cursor to 4, a repair from block 3 finds
  one row pending, three rows in the ledger up to block 3 and an old count of two.
  It then marks both rows, writes a count of three, and four rows are marked.

`MarksPlanned` says that the rows a step marks are rows of its plan.  Nothing in
the code sees to it, so it is written as the condition of `LedgerExact` and of the
half of `CountsExact` about `transfer_count`, and both say nothing of an
application for which it is false.  Both ways to such an application occur in the
run: its first token has four blocks for the second one.

### TokenHistory and its readers

The API answers by replaying stored events.  What makes it hard is that the
streams store events in any order, so these modules insert rows in every order
and compare the replay with a definition over the set of stored rows ("the
newest change is a grant").  `Histories` are the chains tried, one chosen
initially; `Paged` names those with a reader, a bound.  `HistoryPages` lets rows
arrive between two pages of one reader.  `Replay`, the loop the readers share,
is a fold in `TokenHistory`.  `PolicySnapshot` follows the memo of
`resolve`, which hands out entries whose children are still being resolved; the
registry record of a policy is what its stored rows say, as `StateIsNewest` of
`CobaltStreams` shows of `policy_state`.  The memo is a table, a function whose
value is `Missing` where the code's Map has no entry, and `Resolve` a recursive
function on such tables and the policies that are still to be looked at.  There
are finitely many policies and each is created once in a history, as the registry
contract guarantees.

### AccountTypes

Between two awaits nothing else happens in the server, so an action is one
piece of `accountTypeFor` or `warmAdminAccountTypes` between two awaits, except
that every SQLite statement is its own transaction: the row of `account_types`
and the flags of each token are separate actions (`Answer`, `Refresh`), between
which the indexer may store role changes and the server may die.  `code` is
what the chain would answer, and a look-up carries the value of some moment of
its way (`Evaluated`).  Time is the expiry of entries: a row of the table and an
entry in memory turn old at any moment.  `RowBusy` and `FlagsBusy` are writes that find
the file locked for longer than `busy_timeout`.  In a look-up of the warm-up they
make `Promise.all` reject (`Throws`): `finally` resets `adminTypeWarmRunning`
although the rest of the batch is still under way, and goes on beside the next
warm-up.  Such a rest and the visitors go by the names `Others`; the bound is one
look-up of an account for each name and one for the running warm-up.

### TokenPage

One browser tab.  Its handlers run one at a time and every request in flight is
a record in `lists` or `cards`, so answers come in any order.  A cached record
is abstracted to whose data it holds: the token of its list row, of its detail
fields and of its live values.  A list is the set of its addresses (order and
`activeDetailIndex` only place the row).  The server's lists are constants:
`ListConverges` is about which list wins, not about lists that change.
`LateFailures` says whether a request for a token may fail when another card is
open by then; with it the code files a record under the wrong token (see
Findings), without it the properties hold.  Bounds: `MaxLists` and `MaxCards`
requests under way.

## Runs

| run | question | bounds |
|---|---|---|
| `follow` | Does one follower keep the store canonical, complete below its cursors, in order and equal to the ledger, through forks, lagging heads, failures and crashes? Does it catch up when failures stop, and are deployments independent of the event scan? | 4 blocks, 2 forks, 2 tokens, 2 accounts, chunk 2, live chunk 1, one range per tick |
| `cron` | The same safety beside a `--once` process on the same file | 3 blocks, one chain |
| `short` | What still holds when endpoints leave out logs? | 3 blocks, any subset per reply |
| `cobalt` | Follower beside `--cobalt-backfill`: safety, and progress once failures stop | 4 blocks, heads one behind, chunk 2, two ranges in flight |
| `network` | Slots, chain check, failover; does every call end? Does a query that is split return all its logs? Do unanswered transactions starve others, and when does `--fill-creators` end too early? | 3 calls of two methods, 2 slots, 3 endpoints (one on a wrong chain, one unreliable); every subset of 11 logs of 3 addresses in 4 blocks; 5 tokens (3 sure, one flaky, one never answered), batch of 2 |
| `repair` | Are counts, rebuilt ledgers and chain repairs exact, also when a saved file is applied again? | 2 tokens, 2 accounts, 6 transfers, 4 blocks, every `--from-block`, a follower killed anywhere before, rows that arrive late |
| `token_api` | Do the replays say what the newest events say, are policies resolved through shared children and cycles, does paging skip or repeat rows? | four histories of 12, 4, 12 and 8 events in every order, pages of 2 |
| `accounts` | Do the admin filter and the labels end up true? | 1 token, 2 admins (one of them changes its code, is visited and may be revoked), a warm-up of 2 in one batch, one name for visitors and failed warm-ups |
| `page` | Do address, card, row and list agree, whatever is answered when? | 2 tokens, 2 filters, up to 2 lists and 2 cards under way |
| `role_labels` | see Findings | the first of the histories |
| `wrong_card` | see Findings | as `page`, with late failures |
| `fill_stops` | see Findings | as `network` |

The bounds are the smallest at which every branch happens: ranges end inside and
at the head, a drain takes several ranges, a tick ends before the drain does, the
live window starts behind, at and ahead of the event cursor, a fork replaces
blocks that were already reported as head, a token is deployed in a later range
than another, a transfer empties its sender, goes to oneself or burns, and a
role is granted and revoked within a block.

### Findings

`role_labels` ends in a counterexample against MCP.md:15 ("current role holders
folded from history").  `/roles` keeps accounts by label.  The hashes of the zero
role and of `DEFAULT_ADMIN_ROLE` are both labelled ADMIN, so after both are
granted to an account and the second is revoked, the account is not listed
although it still holds the first.  `admin_active` keeps the hashes apart and
still counts it.  `ListedHold` shows that nobody is listed without a role.

`wrong_card` ends in a counterexample against README.md:152 ("Shareable token
URLs are served by Express and hydrated by the single-page app").  A card is
opened for a token that the list has cached, a second one before the first
request is answered, and then that request fails, or its body is an error (404,
429).  The `catch` of `openToken` writes the record of the first token under
`activeDetailAddr`, which is the second by now: under the second token's URL the
page shows the first one's name, supply and holders.  Nothing in `page` depends
on the failure as such: requests that fail while their own card is open, or
none, do no harm.

`fill_stops` ends in a counterexample against README.md:29 ("To backfill deployers
on an existing database that was indexed before creator lookups were enabled") and
README.md:111 ("plus the `--fill-creators` helper for older databases").
`while (await fillMissingCreators(100)) {}` (`indexer.js:370`) ends at the first
batch that fills nothing.  When the newest 100 rows without a creator are ones
whose transactions no endpoint returns (in the run two), every older row keeps
its NULL, though any endpoint could tell its creator, and running the tool
again changes nothing.  `FillComplete` is what does hold.

### Fairness

`FairSpec` gives each follower weak fairness on its next step: systemd restarts
it (`Restart=always`) and its loop never ends.  A `--once` or backfill process
need not start, but keeps going once it has.  Requests settle because
`AbortSignal.timeout` bounds them.  Nothing is assumed about replies: the
liveness properties say what happens once failures stop (`<>[][Working]_vars`),
and `DeploymentsListed` allows every live and event range to keep failing.

In `RpcTransport` each step of a call that is under way is weakly fair: requests
are bounded by their timeout and cooldowns run out.  In `Creators` the steps of
the process are, as in the indexer.  In `AccountTypes` entries expire (the clock), a
look-up is answered or times out (`withTimeout`), and the interval timer starts a
warm-up for ever and a running one goes on, the last two with strong fairness
because a crash or another look-up may disable them for a moment.  In `TokenPage` the timer goes on and, of the list
requests under way, some one is answered or given up; nothing is assumed of
cards, nor that list requests are answered in order.

## Proofs

TLAPS checks every theorem below for all values of the constants.  Assumed are
only the named ASSUMEs of the modules, which TLC evaluates for the values of the
runs: that sizes are positive and sets that are counted finite; what a chain
guarantees (a position holds one log, a token emits nothing before its creation,
block times do not decrease, nobody spends what he does not have); that a
history of rows has a type, and that a policy is created once in it.  A theorem with a condition of its own names it in
its ASSUME.

`StoreProofs` has the lemmas about the operators of `Store` (what an insertion
and an application do to types, counts, holder rows, flags and supply).

**Indexer.**  `IndexerProofs` builds a tower of inductive invariants, each using
those below it:

1. `Typed`: types, plus that an open transaction belongs to a process inside
   `apply`.  Gives `TypeCorrect`.
2. `Counted`: in the committed database and in the view of an open transaction,
   `transfer_count` and `holder_count` are exact.  The view is needed because
   `Commit` publishes it.  Gives `HolderCountsCorrect`, `TransferCountsCorrect`.
3. `Rooted`: everything stored, everything a process has on its way to the store
   (`todo`) and everything in an open transaction is final, and every range a
   process works on ends at or below the safe head it read.  Gives
   `StoredIsCanonical`.
4. `Streamed` and `Covered`: which stream a process is in at each program counter,
   and what its cursors, the range it works on, its open transaction and the
   stored cursors each vouch for.  A drain's `cur` may be ahead of the `T` that
   `main` sees, and both may be behind the stored cursor after a failed drain, so
   each of the three needs its own claim.  Gives `CursorsComplete`.
5. `Ordered`: the rows a transaction has left to apply are in the range of its
   process, and whatever is applied has every earlier Transfer applied, in the
   committed database and in the view.  It needs `Covered`: what lies before the
   range is behind the process's cursor.  Gives `TransfersInOrder`.
6. `Flagged`: the flags say what the stored rows say; the heart is the lemma that
   `CurrentAdmin` is about the newest row of each member.  Gives `FlagsCorrect`.
7. `Emitters` (a known token stays known while its logs are fetched) and, for one
   process, `Sure`: what is applied in the range between two cursors even when
   endpoints leave out logs.  Gives `KnownTransfersAreApplied`, with one process or
   complete replies; the comment at the theorem says why neither can be dropped.
   It is about the step in which the cursor passes a stored row.  A row that a
   short reply hid and that the live stream stores below the cursor later may
   stay unapplied for good: that takes a repair tool.

8. `Viewed`: the view of an open transaction keeps everything the committed
   database has, because no other process writes while it is open, so that its
   commit cannot undo what somebody else stored.  Gives the action property
   `NothingIsLost`, with short replies as well.

4 and 5 are stated for endpoints that answer in full (`~ShortReplies`); with
short replies nothing promises what they promise (`CursorComplete` and
`AppliedInOrder` are about `~ShortReplies` themselves).

**Refinement.**  `LedgerImplemented` is `Spec => ImplementsLedger` for endpoints
that answer in full.  Three more invariants carry it: `Booked` (balances and
supplies are what the applied rows amount to, also in the view of an open
transaction), `Prefixed` (the applied rows are those up to some confirmed block)
and `Spanned` (an open transaction adds rows of its range only).  `ApplyBooks` is
the step that matters: when exactly the earlier Transfers of the chain are
applied, `SolvencyAssumption` says that the sender can pay, so the clamp of
`applyTransfer` changes nothing.  `Ordered` and `Covered` are what makes "exactly
the earlier ones" true.  Then only `Commit` moves the ledger, by whole blocks
(`CommitPosts`); a new block or a fork moves the bound of what may be posted
(`NetworkMoves`), and every other step stutters (`AppliedStays`).

**Cobalt streams.**  `Formed` has the types, that the ranges in flight tile the
blocks behind them without a gap, and that the binary search encloses the first
Cobalt block; it gives `StartBlockExact`.  `Vouched` says what a cursor, the progress
of a drain and the reply to a range each promise about the stored rows; it gives
`StreamsComplete`, whatever the order of replies and whoever else writes.
`StateNewest` needs only that a row is replaced by newer ones.

**Transport.**  Types, the slot accounting (with a lemma on the cardinality of
the set of slot holders when one call leaves and another enters), answers from
the right chain, and `FailoverAlwaysWorks`: a dependable endpoint never cools
down and stays on the list of every call that has not reached it (`UpInv`).

**Repair.**  `Inv` of `RepairProofs` relates a plan to the rows it was made from:
its totals are old ones, the same transfer count means that none of the pending
rows has been applied since (`Fresh`), and a rebuild's holders are the net of the
ledger (`Rebuilds`), a chain plan's add up (`Adjusts`).  The theorems have no
condition besides the one their properties state (`MarksPlanned`).  The counts are
exact or (`Spent`) a rebuild has marked rows it did not plan: `transfer_count` is
then wrong for good, but above what the saved file was made with, so that the file
is refused from then on.

**Readers of the API.**  `Paging`: pages shown so far are in front of the
cursor, everything else behind it; it gives `PagesExact`.  `RolesHold`,
`AnnouncementsReplayed` and `ControlsReplayed` say what a replay has found when it
has read some rows, and with all rows read they are the property.

**Policies.**  `resolve` enters a policy in the memo before it looks at the
children, which cuts cycles, and what it enters depends on the memo it finds.
The proof separates the two.  `Reach(m, list)` is the set of policies that a call
adds to a memo `m`, in closed form: those that can be reached from the list
without passing an entry of `m`.  `ResolveMeaning` says that the recursion ends
with the entries of exactly those policies (`After`); every call either adds an
entry or shortens the list, so a smallest counterexample has the fewest policies
missing from the memo and then the shortest list.  `Sound` then says of every entry that its
type and source are those of its own record and its children the newest, which
needs no memo at all, and gives `PolicyDetailsExact`; `BoundScopesShown` follows
from a policy being in `Reach` of a list it is on.

**Look-ups.**  `SplitAnswersExact`: a query's halves have smaller extents (blocks
plus addresses), together hold its logs, and are refused only when a single cell
is too large.  `FillLeavesNone`: the last batch filled nothing, so it held no sure
creator; it took the newest that are missing, so a sure one that is left comes
after a whole batch of others.

**Account types.**  `LabelSources` says where a label can come from in one step:
the memory takes it from a fresh row or an answer, a row from an answer, an answer
from the chain, and a set of flags from the rows of that moment.  From it follow
`TypesNotInvented` (whose inductive half about flags speaks of former admins too,
since a revocation leaves the flags alone) and the safety half of the two liveness
properties: `LabelsStayRight`, `FlagsFollowRows` and `FilterStaysRight`.  What
makes `Settled` stable is that it includes the look-ups under way: an old answer
among them could still overwrite a row.  TLC confirms with the instance of
`accounts` that a system that calms down does become `Settled`, so these theorems
are about states that are reached.  `AdminColumnShown` needs no order of arrival:
a row that changes an admin role recomputes the column from all rows
(`AdminRecomputed`).

**Token page.**  The address bar names the open card in every behaviour
(`UrlNamesCard` is inductive).  Under the assumption that no request fails behind
another card (`~LateFailures`, which only the failing look-up uses, in `DetailFailsStep`
and `CardRests`)
`CardAlwaysShowsItsToken` and `OpenCardAlwaysVisible` hold.  Their invariant is
`Filed`, which also speaks of what requests under way remember (a remembered
record is about its token, and the cache has not lost it since), and `Visible`,
which adds that an inline card always has a record.

`ListConverges` says that the table comes to rest on the page that is set; its
liveness is TLC's.  `TableStaysRight` is what can be proved of it: once the table
is that page and every list under way is of that page and later than the first
of the visit (`Rested`), no refresh, answer or failure, in any order, disturbs it;
only the user does.  `Rested` names the lists under way because an older one could
still replace the table, and excludes the first because it opens the token of the
URL as a spotlight, which takes back the row an inline card had pinned.  TLC
confirms with the instance of `page` that it is reached: a visit that in the end
consists of refreshes and answers only, and again and again has no list under
way, becomes `Rested` for good.

**Induction over data.**  Four kinds of recursion needed it: folds over a set
of rows (`applyStoredTransfers`, sums of amounts), replays of rows in order, the
halving of a query, and the resolution of policies.  The library's induction principles take a predicate as
a parameter, which the provers cannot instantiate.  `FoldInduction`,
`ReplayInduction` and `SplitInduction` therefore speak of a set of those sets (or
queries) for which the claim holds, and are proved by a smallest counterexample
(`SmallestExists`, from the well-foundedness of numbers).  `FoldExists`,
`ReplayExists` and `SplitExists` show that the recursive function exists, that is,
that its CHOOSE has a value with the recursive equation.

**Model-checked only.**

Liveness, which needs ENABLED: `CatchesUp` of the indexer and of the Cobalt
streams, `DeploymentsListed`, `EveryCallSettles`, `CreatorsFilled`, `FilterConverges`,
`LabelsConverge` and `ListConverges`.  Every invariant and every action property
that a passing run checks is a theorem.

## Plan

Left:

1. Bounds of progress in place of liveness, where there are any: how many batches
   `--fill-creators` needs, how many ticks a follower is behind.
2. The live-read and name caches of the server, if anything comes to depend on
   them.

## Not modelled

- The MCP bridge: it answers requests concurrently and matches them by id only,
  and keeps no state between them.
- `liveToken` and `basenameFor` of the server, rate buckets, health and the
  deployment series: each is a cached read of one value, or arithmetic on a few
  numbers, that no other part depends on.  That a slow live read may replace a
  newer one for 15 seconds is listed as a hazard.
- Of the page: rendering, the feed and the bars, and the names and labels of
  accounts.
- Schema migrations, formatting, and the text patterns by which `rpc.js`
  classifies errors.
