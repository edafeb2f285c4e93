# A verification project for pcomirror

pcomirror keeps a local SQLite copy of the People data of Planning Center
Online (PCO), serves it in PCO's own JSON:API, and writes through to PCO. It
has no snapshot to read from: the copy is built out of paged listings, single
GETs and webhooks, each of them late, partial, repeated or lost, applied by
several threads to one database. The modules of this directory model how that
copy is kept and how it is served, check it with TLC on small instances, and
prove the properties that matter most for every instance with TLAPS.

## 1. Inventory

| Component | State | Operations | Interacts with | What is hard | What makes it correct |
|---|---|---|---|---|---|
| canonical writer (`writer.py`) | the rows: payload verbatim, `deleted_at`, `tombstone_reason`, `tombstone_uat` | `upsert`, `upsert_untimed`, `tombstone` (with `_cascade`), `confirm_live` (with `_uncascade`), `route`, `route_page` | called by every other component | copies of different ages and richnesses in any order; cascades | order does not matter; rows never go back; tombstones are sticky but nothing PCO has stays lost; children follow owners |
| webhook inbox (`webhooks.py`) | `webhook_event`, `webhook_dead_letter` | `receive`, `drain`, `process_event`, `_retry_or_dead`, `retry_dead_letters` | HTTP threads, hot lane, admin page; calls the writer and the hydration queue | redelivery, crash between any two statements, retries, replay against drain | acknowledged means captured; done means whole; over stays over; everything ends |
| rate limiter (`ratelimit.py`) | tokens, rate, capacity, pause | `acquire`, `on_response`, `on_429` | every thread that calls PCO | burst plus rate, two kinds of pause in one field, priority | within PCO's window; Retry-After honoured; background work does not starve |
| PCO client (`pcoclient.py`) | one request per thread | `request` | limiter | lost answers, proxies, retries | a write is applied at most once and never after a refusal is reported |
| backfill and sweeps (`ingest.py`) | `mirror_sync_state`: phase, cursors, seen ids | `backfill`, `_drain_second`, `_offset_page_all`, `incremental_sweep`, `_descending_sweep`, `reference_refresh`, `merger_poll` | scheduler, client, writer | PCO changes while it is paged; one second fuller than a page; error answers; crash between page and cursor | no gap behind the cursor; the mirror catches up |
| delete audit (`ingest.py`) | `audit_scratch`, the round in `mirror_meta` | `delete_audit_step`, `_restore_one` | cold lane, webhooks | the list is torn by changes, errors and crashes; filters PCO ignores | buries only what is gone; a round settles what it found; rounds converge |
| hydration and repair (`ingest.py`) | `hydration_task` | `enqueue_hydration`, `drain_hydration`, `hydrate`, `_include_diff`, `repair_*`, `drift_probe` | inbox, serving, merges | a task enqueued while the same one runs; delays that collide | every reason to re-read is followed by a read |
| per-parent walks (`ingest.py`) | `nested_walk_state`, the round in `mirror_meta` | `walk_round_step`, `_walk_one`, `ensure_parent_walked` | cold lane, read path | a parent that vanishes; refreshes that forget a walk in progress | a walked parent's children are PCO's |
| scheduler (`scheduler.py`) | `next_run_at`, retry times, place in the ring | `run_once`, `run_cold_once`, `_audit_due` | all of the above | two threads, requests that arrive during the run they ask for | due work is done; no unit starves another; a request is not forgotten |
| serving (`serving.py`) | none of its own | reads, `_write_through`, `_refresh_affected`, `_verify_peer_edge`, pass-through | writer, client, hydration | PCO has applied the write when something fails here; replica lag | a caller reads its writes; no refusal after the fact |
| database (`db.py`) | one connection, one lock | `execute`, `query`, `transaction` | everything | `execute` commits by itself, inside `transaction` too | the grain of atomicity everybody assumes |
| divergence checks (`divergence/`) | corpus of requests, tokens, log of differences | `observe`, `run_once`, `classify`, `_trim` | web threads, hot lane, admin page | pages that are windows, tables read after the answers; a budget smaller than the corpus | accuses only what is missing; "staleness" is really repaired; every sample is checked; the newest reports are kept |
| webhook subscriptions (`webhooks.py`, `admin.py`, `cli.py`, `db.py`) | `webhook_subscription`, the override in `mirror_meta` | start, page, command line, hand-over, rebuild of the table | every start, operator | three writers of one list, several statements each | what was saved stays; PCO's receiver URL never changes |
| CORS (`cors.py`) | the policy in force: environment's or operator's | validation, storing, preflight, the headers of an answer | browsers, shared caches | an answer for one origin handed to another | who may send may read; browsers do what was saved |
| pseudonyms, sign-in and keys, links, diagnostics, registry, configuration | see `PROJECT.json` | | | | not modelled, section 8 |

The hazards this list leads to are in `PROJECT.json`, each at its line.

## 2. Modules

| Module | Models | State and actions |
|---|---|---|
| `Mirror` | `writer.py` as operators on the whole mirror | `Upsert`, `UpsertUntimed`, `Tombstone`, `ConfirmLive`, `Route`: the mirror before the call to the mirror after it, cascades included. `Wins`, `NoPoorer`, `Revives`, `Buries` are the conditions of the SQL |
| `Writer` | the writer fed by all that PCO says | `pco` are PCO's records; each of their changes adds *facts* to `sent`; `Deliver` and `Receive` apply a fact, once or repeatedly, in any order |
| `WebhookInbox` | `webhooks.py` | one action per SQL statement: `rx` are the HTTP threads, `work` the drain, `door` the operator's replay; `did` records which effects of an event's handler have landed |
| `InboxPromise` | what the inbox promises, abstractly | `owed`, `standing`, `whole`, `letters`; `WebhookInbox!Promised` is the refinement |
| `RateLimiter`, `PcoClient` | `ratelimit.py`, `PcoClient.request` | the bucket in fractions of a token, refilled when looked at; `req` is what each thread has asked and been told, and how often PCO really applied it |
| `Sweeps` | backfill and incremental sweeps of one resource | `saved` is the row of `mirror_sync_state`, `job` the sweep's local variables, one action per page |
| `DeleteAudit` | the audit of one resource, over `Mirror` | `round` is what is persisted, `answer` the GET in hand: `Ask`, `Write` and `Drop` are separate, so webhooks and crashes fall between |
| `Families` | the two stored halves of a household's edges | `house` and `carry` are the halves in the mirror, `joined` and `served` PCO's truth and what its replicas answer; `web` is a write-through, from `Relay` to `QueueRest`; `task` is `hydration_task` and `hot` its drain; `Repair` is the drift pass |
| `Walks` | child collections PCO serves per parent | `walked` is the ledger in order of `walked_at`, `round` and `since` the round in `mirror_meta`; `job` holds two walkers, the cold lane and a web thread, each between its GET and what it writes |
| `Scheduler` | `scheduler.py`, both lanes | `due` is `next_run_at`, `request` and `open` the requests and rounds in `mirror_meta`; `retry`, `last`, `cold` and `pass` are the object's own, lost by `Restart`; `probe` and `asking` are the drift probe's, whose request is a read (`ProbeRead`) and a write (`ProbeWrite`) with the operator's click between them |
| `Reading` | reads in `serving.py` | `read` is where an answer has got to: one action per query (`Count`, `Rows`, `Level1`, `Level2`, `Echo`), `WritePerson` and `WriteHousehold` between any two |
| `Verdicts` | `divergence/rules.py` | two pages of one query and the mirror's tables, with the reason a row is buried; `Check` classifies, `Sweep` is the repair a verdict may promise, of either of the two ways of sweeping (`filtered`) |
| `Divergence` | `divergence/__init__.py` | `corpus`, `stamps`, `tokens`, `log`; the pass of the hot lane beside the web threads' `Observe` and the operator's `Configure` and `Clear` |
| `Subscriptions` | the list of webhook subscriptions | `at` is what the process is at; every statement of a start, the page and the command line is an action, and `Crash` falls between |
| `Cors` | `cors.py` | `default` and `stored` policies, `kept` what a shared cache holds, `shown` what a page was given; an origin is the sequence of its labels from the top |
| `Worlds`, `Service` | no code: they put modules that share no state into one run, a `part` each, for all constants | each property is that of the module named in its comment, for its part |
| `MCMirror`, `MCService` | the small values with which `Worlds` and `Service` are checked | |
| `MCWriter` | puts `Writer`, with the actions its bounds allow, and `Families` into one run, a `part` each | |
| `MCScheduler`, `MCWebhookInbox`, `MCWalks` | values a cfg cannot write | |
| `WriterProofs`, `WorldsProofs`, `InboxProofs`, `SchedulerProofs`, `ClientProofs`, `DeleteAuditProofs`, `WalksProofs`, `ServiceProofs` | theorems | section 6 |

`DeleteAudit` and `Writer` are both built on `Mirror`; `PcoClient` extends
`RateLimiter`; `Families` and `Walks` put read path, write-through, queue,
rounds and PCO together where they act on the same rows.

Operators named `Mut...` are wrong variants of the operator they precede, each
the slip a programmer could make there; putting one in its place makes the
property it is listed with fail.

Abstractions that matter:

- A payload is its `updated_at`, the relationships it carries and the owner it
  names. Of a destroyed payload only `updated_at` is read by the code, and real
  ones have none (`BareDestroys`, TRUE in every run). `crossed` is a history, not
  code: how the last destroyed webhook of a record met its row.
- `deleted_at` and `tombstone_reason` are set and cleared together by every
  statement, so `why` stands for both; `"none"` is the absent row.
- The wall clock that `tombstone_uat` falls back to for untimed rows is
  compared with nothing and stays `NoTime`.
- A writer call is one step in `Writer`, although its UPDATE and its cascade
  commit separately (hazard on `db.py:555`).
- `Sweeps` fetches and writes a page in one step: upsert's guard keeps a page
  from taking back what came in since it was fetched, so what PCO does and what
  the hot lane writes (`HotWrite`) in between may as well come after. A crash
  leaves any part of the page written. The watermark after a backfill by offset
  is read from the table in a step of its own (`Measure`), after the hot lane may
  have written there.
- In `DeleteAudit` one GET is in hand at a time, as in the code; the two
  snapshots of the start are one step.
- `Families` has one household, whose copy is its `people` array, and of each
  person only whether the copy names it. The copy of the household that is
  included beside a person goes through upsert (`Sideloaded`): it may be thinner,
  refused, or newer than a tombstone. The delays of a queued verify and of
  the repairs' minimum age are actions (`MinutePasses`, `HourPasses`).
- `Walks` takes a parent's collection for one page, and writes a walk's answer
  in one step: between the GET and that step the other walker and PCO may come.
- `Scheduler` counts in ticks of the cold lane, and every clock is a countdown;
  what a unit does is in the other modules, here it goes on, ends or fails.
- `Reading` keeps the two edges as the sets their stored arrays name; the order
  and the duplicates of an answer, the `order` parameter, filters, search and
  sparse fields only choose or arrange the rows of one query.
- `Subscriptions` takes an id for how it was made: issued by PCO, derived by
  the page, or derived by the command line.
- `Divergence` leaves out restarts, which refill the bucket with one token.

## 3. Runs

Three runs (`people`, `worlds`, `service`) pack several modules that share no
state into one state space: `part` is chosen by the initial state and never
changes. They claim nothing about an interaction of their parts; where
components interact, one module has them together.

| Run | Question | Bounds, and why they suffice |
|---|---|---|
| `people`: merge | do edits, destroys and a merge, delivered late, twice and in any order, leave rows that agree with PCO, never go back and are dug up only by news? | two people, an email, two seconds, bare destroys: a merge with a child that moves or goes needs all three; equal and greater seconds both occur |
| `people`: families | does a written, lagging or forgotten edge of PCO's end up in both halves, and does nobody go on naming a household that is gone? | two members, so that one may join as the other leaves; one peer read at once and one queued; drains of one task, two writes, one fault |
| `worlds`: restore | are records that are destroyed and come back, told with three sets of relationships, lost or poorer? | one record, two seconds; of the sets two have one size and differ, and the third contains one of them and not the other |
| `worlds`: members | do cascade and un-cascade stay together while GETs answer 404 and 200? | one owner, one untimed child (the cascade treats children independently), three seconds; destroyed payloads as PCO sends them, without `updated_at` |
| `worlds`: sweeps | does a cursor leave a gap; do sweeps catch up? | three records, pages of two: a second with more records than a page, and the page after it, both occur; two changes, one fault |
| `worlds`: audit | are only gone records buried, does a round settle what it found, do rounds converge? | three records, pages of two, both kinds of endpoint, one change, one fault, one restoration a round: the bound on restorations is reached |
| `inbox` | is an acknowledged event captured, a done one whole, does everything settle, and is the promise kept? | four events, one for each way through the handler, two deliveries, two attempts, two faults, a crash, a replay: enough for give-up, replay and crash in one behaviour |
| `client` | do window, Retry-After, at-most-once and progress hold with retries? | a foreground writer and a background reader, two attempts, a window of four ticks and ten requests, two tokens a tick into a bucket of two and a half: a full bucket and a window of refills come to exactly the limit; one Retry-After shorter and one longer than the window, so that each kind of pause is overwritten by a shorter one |
| `walks` | is a walked parent whole, and do rounds catch up with additions, removals and vanished parents? | two parents, one with two children, steps of one parent: a parent due while another is walked; two changes, one fault, one refresh |
| `scheduler` | does anything starve, is the operator heard, do sweeps go on? | an audited resource whose endpoint never answers, an audited one, a walked one: one of each class, the broken one first; a cooldown of three for a ring of three, one click at any point of a probe, one fault or restart |
| `service`: reading | is whoever was there on a page, and what the echo names included? | three people, two households, pages of two, one write during one reader's walk |
| `service`: verdicts | is only the missing accused, and staleness swept? | three records, first pages of two, two seconds, both ways of sweeping, rows buried by a destroy or a merge: every pair of answers such a mirror and PCO can give |
| `service`: divergence | is every sample checked, and is the newest kept? | one shape with more requests than samples, one with a single request; one check a pass for two shapes; a log full at two reports or at three bytes |
| `service`: subscriptions | is what was saved kept, and the URL? | two issued ids, two contents, two acts, one crash anywhere but in the rebuild (section 7), tokens chosen, kept and minted |
| `service`: cors | may who sends read, do browsers do what was saved? | a page below the pattern, one of another site, `null`, no origin; forms taken and refused; two edits |
| `sweep_torn_second` | is a second read whole before the cursor passes it? | fails, section 7 |
| `families_far_end` | do the two halves agree in the end? | fails, section 7 |
| `walks_buried` | is staleness bounded by the rounds? | fails, section 7 |
| `child_outlives` | does a child ever outlive its owner? | fails, section 7 |
| `operator_demoted` | does a request for an audit only ever escalate? | fails, section 7 |

Deadlock is not checked: PCO's changes, the faults, the clicks and the replays
are bounded, and a system with nothing left to do stops.

## 4. Fairness

- `WebhookInbox`: the hot lane never stops (`scheduler.py:67-73`), backoffs
  elapse, an HTTP thread finishes its request, PCO repeats what was not
  acknowledged. Arrival is strongly fair, since each request has a thread of
  its own. Faults, crashes and the operator are under no obligation.
- `PcoClient`: time passes; a thread wakes from its sleep and takes a token
  when it may; a transport timeout ends every exchange. Weak fairness each. The
  foreground is not assumed to come to rest: `BackgroundRuns` says so in its
  hypothesis.
- `Sweeps`: the scheduler begins sweeps for ever, and a unit reads a page before
  it may yield (`ingest.py:387` tests the budget before the first page with a
  budget of eight), hence strong fairness of pages. No webhook is obliged to arrive.
- `DeleteAudit`: the ring comes back to a round in progress
  (`scheduler.py:161-169`). No webhook is ever obliged to arrive.
- `Families`: the hot lane drains at every tick and repairs every so many
  (`scheduler.py:84-130`), in one thread, so neither keeps the other away for
  ever: strong fairness of both. Time passes, replicas catch up, the audit
  reaches a household that is gone. Nobody has to write.
- `Walks`: the ring returns to the walk (`scheduler.py:161-189`) and a walk that
  has begun goes on. No read, write or refresh has to come.
- `Scheduler`: two daemon threads that never stop looping (`scheduler.py:54-82`),
  weakly fair each as a whole: a lane goes on with whatever it can do next. That
  a unit's round ever ends, or that an endpoint ever answers, is not assumed.
- `Divergence`: the hot lane begins a pass, makes its checks and waits between
  two, weak fairness each. Nobody has to read, dial or clear.
- `Writer`, `Reading`, `Verdicts`, `Subscriptions` and `Cors` have none: their
  properties are about what has happened.

## 5. What the properties say

The safety properties are stated against PCO's records, kept in the same
module, never against the mirror's own bookkeeping. `Agreement` and
`NothingLost` say what eventually holds *once everything has been applied*,
whatever the order, and although destroyed payloads do not say which version
was destroyed: what that costs is excepted by name, the records whose destroyed
webhook overtook an older version or was overtaken by a newer one (`crossed`); `MonotonicRows`, `NeverPoorer`, `TombstonesStick` and
`DugUpOnlyByNews` say what no single call may do. `NoGap` and `CatchesUp`
except the seconds in `torn`: those changed, or not answered, while they were
being read. The exception is what the code really loses (hazards at
`ingest.py:375`, `409`, `435`), and is as narrow as TLC lets it be: with
one of its cases removed the property fails. In `DeleteAudit`, `owed` plays the
same part: an id leaves it only for a webhook, an error answer or a torn page
that concerns it. `HalvesMeet` speaks of the edges PCO has; of those it no longer
has, `families_far_end` shows that one half may stay. `WalkedIsWhole` and
`CatchesUp` of `Walks` except the children in `hurt`, which `walks_buried` shows
to be really lost; a restart's credit of a walk that never was
(`db.py:472-491`) is not taken for a walk.

`Promised` is the refinement: read through `inbox`, `outbox` and `did`, each
statement of the inbox is a step of `InboxPromise` or a stutter. It covers what
no invariant says: a settled event reopens only by its dead letter, an
acknowledgement covers the whole delivery, `done` comes after every effect.

`NoUnitStarves` asks that a round in the ring is taken up, not that it ends:
one that never ends must still not keep the others away. `OperatorHeard` asks
that what the operator requested is begun, `OperatorStands` that only the end
of a whole round of that resource takes the request away; both except a probe
that was inside `request_audit` when the operator clicked, which
`operator_demoted` shows. `RetryAfterHonoured` asks that nothing is sent before
the last Retry-After has run out, unless a shorter pause was asked for since
(`cut`): that the limiter forgets the longer one is what the code does (section 7). `SweepsGoOn` asks of
every resource that can be swept what a failing neighbour could prevent.

The service's properties each have one exception, where the code does what is
excepted: `PagesCover` a row before the edge that came or went, `EchoLinked` a
row written while the answer was made, `AccusesOnlyTheMissing` pages after the
first, `UrlKept` re-adds on the page and a crash in the rebuild,
`MaySendMayRead` the answer made for no origin under `*`, `BrowsersObey`
`Authorization` under a list of `*` and `Content-Type` under a list without it,
`StalenessIsSwept` rows buried by a merge and the second at which a descending
sweep stops. Section 7 takes them up.

## 6. What is proved

Each theorem holds for all constants that satisfy the modules' named
assumptions, and under the hypotheses in its statement. The proofs have one
lemma for each operator or action that the invariant is about, then one step per
action of `Next`, and one temporal step.

Writer:

- `WriterProofs!TypeCorrect`: `Spec => []TypeOK`. It holds the claim that only a
  tombstoned row has a tombstone timestamp, on which `Revives` relies.
- `HistoryHolds`: the inductive invariant of the rest. The action properties are
  not inductive: whether a delayed update may dig a row up depends on what was
  said of the record before it was destroyed. `History` relates the three: every
  fact said of a record carries a timestamp that PCO's record had or passed; a
  destroyed fact carries the last of them; a row's version and its tombstone's
  come from facts that were said. From it `RowsNeverGoBack`, `RowsNeverPoorer`
  (nothing confirmed by GET), `TombstonesAreSticky` (no restorations, bare
  destroys or not) and `OnlyNewsDigsUp`.
- `MirrorAgrees` (`Agreement`), under `Converging`: the mirror starts filled, PCO
  tells of the destruction of children too, brings nothing back, and no thread
  reads single records. Destroys may be bare. Each hypothesis is a way in which
  the code falls short without it (the hazards at `writer.py:128`, `135` and
  `ingest.py:1134`). The invariant adds to
  `History`: `Family`, PCO never has a live child under an owner that is gone;
  `Named`, the owners that copies name are the child's, or were until merged;
  `Told`, what PCO did was said; `Heeded` and `Kept`, what was applied had its
  effect, and keeps it.
- `WhatComesBackIsNotLost` (`NothingLost`), under `Returning`: no children and no
  GETs; destroys may be bare. The invariant `ReturnInv`
  adds to `History`: `Beginnings`, how a record starts; `Endings`, a destroy that
  was said of a record, and the tombstone it left, is no newer than the record,
  and strictly older than a live one; `News`, the version of a live record has
  been told, and a row that heard of it holds the record alive.
- `OrphansHaveBuriedOwners` (`OrphansTrackOwner`), where families do not change
  (`FixedFamilies`): `Parented`, a child's copies name its owner, and a call of
  the writer buries or frees a whole family at once (`CallShape`, `FamilyCall`).
- `WorldsProofs` carries these over to the worlds that `worlds` checks, for
  every set of records, owners, children, relationships and seconds:
  `RestoredIsNotLost`, `RestoredNeverPoorer`, `OrphansFollow`, with no hypothesis but `WorldsAssumption`.

Polling, rounds and queues:

- `DeleteAuditProofs!AuditBuriesOnlyTheGone` and, of the run's own
  specification, `WorldsProofs!AuditsBuryTheGone` (`AbsentIsGone`): a row the
  audit has in hand for burial was live once, and PCO destroys for ever in that
  module, so a 404 for it is final, however old the answer. The least id of a
  page is found by well-founded induction on the naturals.
- `DeleteAuditProofs!RoundsSettle` and `WorldsProofs!AuditsSettle`
  (`RoundSettles`). An id that is owed is `Doomed`, gone from PCO for good,
  known to the round and still to be asked about or buried already; or `Missed`,
  PCO's, unknown to the round, and either fetched, to be fetched, or `Ahead` in
  the enumeration: listed from the cursor on with a rank at or past the offset.
  `Answering` adds that the answer in hand is right for an owed id although PCO
  goes on changing: a change or a delivery that could falsify it takes the id out
  of `owed`. The assumptions say that the records are finitely many and that
  the bound on time leaves room for the first states.
- `WalksProofs!LedgerIsWhole` (`WalkedIsWhole`): what a walker holds exists or
  did; a row is buried because its parent is, because PCO's child is gone, or
  by mistake (`hurt`); what the ledger owes is in the mirror.
- `WorldsProofs!SweepsLeaveNoGap` (`NoGap`), for both ways of sweeping. What a
  sweep has read is a prefix of a listing, so `SweepInv` speaks of ranks, the
  number of records listed before one: by keyset (`Behind`) all behind the cursor
  is as PCO has it, and of a second being drained all whose rank is below the
  offset; by offset (`Walked`) all whose rank is below the place saved or reached;
  newest first (`Watched`) all up to the watermark, and of the pages read also
  what is newer, unless newer than the newest read. It rests on lemmas about
  listings, those of `DeleteAuditProofs` and some of its own: ranks are ordered
  as the listing is, the first `k` of a longer listing are `k`, a page that is
  not full is the last, and a change moves no other record to a lower rank (a
  deletion does, which is why it tears what is walked by offset).
- `SchedulerProofs!RequestsStand` (`OperatorStands`) and `WorksOnOpenRounds`:
  the cold lane is only ever at a round that is open, so the end of a round drops
  a request; a probe that writes over one had read before it was made
  (`Overtaken`).
- `InboxProofs`: `InboxTypes`, `AcknowledgedIsCaptured`, `DoneMeansWhole` and
  the refinement `InboxKeepsItsPromise`. The invariant `InboxInv` adds to the
  three what each actor may rely on between two statements: what a receiver has
  captured so far, what the drain has in hand and which effects have landed
  before its place in the handler, what the operator's replay has read. The
  refinement maps every action by name to one of `InboxPromise`'s.

Client and limiter (`ClientProofs`):

- `WritesOnce` (`WriteOnce`): a request that is still open has not been applied,
  what is over was applied at most once, and a thread that waits has a request
  open.
- `WindowKept` (`WindowBudget`), under `Budgeted`: the largest bucket and a
  window filled at the largest rate stay below the least limit. That is what
  the code's fractions of the limit give (`ratelimit.py:97-98`) while the limit
  stays as it is; the limiter cannot know of one before it is announced. The
  invariant says of *every* stretch of the past window, not of the whole of it
  only, that what went out in it and what may still go out now came from one
  full bucket and that stretch's refills.
- `RetryAfterKept` (`RetryAfterHonoured`), for every set of Retry-Afters: the
  invariant is that the promise still standing is within the pause, unless it
  was cut.

Service (`ServiceProofs`), each for its part of `Service`:

- `NoStartUndoes` (`SavedStays`): `SavedInv` says at each statement of a start,
  the page and the command line which rows have been written and whether the
  override is there, so that no start that reads it touches what was saved.
- `AddressKept` (`UrlKept`), without re-adds on the page and crashes in the
  rebuild, both of which break it (section 7): the tokens in hand are those of
  the rows that the loop has still to write.
- `SavedIsObeyed` (`BrowsersObey`) and `AnswersAreShared` (`MaySendMayRead`):
  every policy in force was built, and storing gives back what was built; what
  the cache keeps was made by a policy in force and varies whenever two origins
  would get different answers.
- `PagesAreWhole` (`PagesCover`): whoever has matched since the first page and
  was not seen has an offset among the rows at or past the page to come, unless a
  row before it came or went. It rests on how removing or adding a row changes
  the number of rows before another (cardinality lemmas).
- `EchoIsSideloaded` (`EchoLinked`): at each query what has been read differs
  from the tables only by what was written since.
- `FirstPageAccusesNobody` (`AccusesOnlyTheMissing`), for `Offsets \subseteq {0}`;
  with an offset TLC refutes it. `WhatIsStaleIsSwept` (`StalenessIsSwept`), for
  both ways of sweeping and every reason a row is buried for.

Assumptions worth knowing: `SchedulerAssumption` has the drift probe's cooldown
no shorter than the ring of rounds (an hour against a handful of units), without
which a request that keeps coming back starves the walks.

Model-checked only: liveness (`EverythingSettles`, `BackgroundRuns`,
`CatchesUp`, `Converges`, `HalvesMeet`, `NobodyNamesTheDead`, `NoUnitStarves`,
`OperatorHeard`, `SweepsGoOn`, `EverySampleChecked`), out of the prover's reach;
and `NewestKept`, whose sums of bytes over a sequence need induction over data.

## 7. Where the code and its documents part

Shown by a run:

- `sweep_torn_second`: a page of `_drain_second` answered with an error is taken
  for the last page, and the cursor passes the second (`ingest.py:412`, `435`).
- `families_far_end`: after a member is removed through the mirror the household
  is re-read and the person is not; `repair_split_edges` re-reads only the half
  that *lacks* the edge, here the one that is right (`DESIGN.md:1233`,
  `serving.py:761`, `ingest.py:1036`). The person's copy names the household
  until something else moves it.
- `walks_buried`: a walk buries a membership that another thread added after its
  GET, and an untimed upsert never lifts a tombstone `destroyed`: the membership
  stays hidden, although each later walk returns it (`DESIGN.md:939`).
- `child_outlives`: the cascade buries each child at the version the mirror
  holds; a child's edit that is told later is newer and digs it up under its
  buried owner (`writer.py:80-94`), and so would a child created and told after
  it. "A child cannot outlive the record that owns it" (`writer.py:139`).
- `operator_demoted`: `request_audit` reads and writes without a lock, so a probe
  that read before the operator clicked writes `drift` over the click
  (`ingest.py:72-74`, `admin.py:459`): the request waits for the cooldown, or is
  refused where scheduled audits are off. "A request only ever escalates"
  (`ingest.py:70`).

Known and not shown by a run of their own, each at its line in the hazards:

- Writer and inbox. Real destroyed payloads have no `updated_at`
  (`tests/test_webhooks.py:160`). `DESIGN.md:620` would bury them at the moment
  they were received; the code does at the row's own version (`webhooks.py:489`,
  `writer.py:131`), so a delayed version of before the deletion that the mirror
  had not seen digs the row up until the next audit, which `DESIGN.md:238-241`
  denies, and a destroy delivered after the news of a restoration buries the
  returned record, which that news, repeated, cannot dig up. A destroy that does
  carry a timestamp and is told again to a row that is dead lowers its
  `tombstone_uat` (`writer.py:132`). The replay's DELETE may take the letter of
  the drain's *second* verdict with it (`webhooks.py:369`). A payload that does
  not parse makes its whole delivery be refused for ever (`webhooks.py:450`,
  against `DESIGN.md:1404`).
- Limiter. `DESIGN.md:383` has Retry-After honoured verbatim; one longer than the
  window is cut short by a response near the wall (`ratelimit.py:100`), and any by
  a shorter one that another thread is answered (`ratelimit.py:105`). Without
  its exception `cut` TLC refutes `RetryAfterHonoured` in the run. A limit of
  less than two requests a second starves deferrable work (`ratelimit.py:75`).
- Scheduler. A `request_sweep` made while that sweep runs is overwritten by its
  end (`scheduler.py:112`), an audit requested in the last unit of a round is
  answered by that round (`ingest.py:819`), and `_rotated` restarts at the head
  when the unit that ran last has left the ring (`scheduler.py:189`).
- Sweeps. The pages of a newest-first sweep are at offsets into a list that
  grows at its head: when more records change between two of its pages than a page
  holds, the newest then read becomes the watermark, and others changed in that
  second but already pushed to the pages before are never read
  (`ingest.py:525`, `536`). `torn` names that second; without it TLC refutes
  `NoGap` with pages of one record.
- Reading. Under a concurrent write the echo of a nested include may name ids
  that are not included (`serving.py:1337`).
- Divergence. With an offset the page's leading edge moves too, which
  `windowed_sides` does not see: with `Offsets = {0, 2}` TLC refutes
  `AccusesOnlyTheMissing` (`rules.py:38-40`, `129`). Once a shape holds all its
  samples a new request is inserted with `seen = 1` and deleted at once
  (`divergence/__init__.py:240`). `staleness` is promised for a row buried by a
  merge when PCO's copy is newer, which upsert never revives (`rules.py:378-380`,
  `writer.py:82`), and for a record of the watermark's own second, which a
  descending sweep does not read (`rules.py:376`, `ingest.py:525`).
- Subscriptions. Adding a subscription again with the token left blank mints a new
  token (`admin.py:1076`), and the URL PCO delivers to is no longer one. The form
  says so, "Leave the token blank to have one minted" (`admin.py:1282`);
  `webhooks.py:195-197` says that URL "must never change underneath it", and the
  command line looks for the row's token first (`cli.py:145-146`). With
  `Readds = TRUE` TLC refutes `UrlKept`. A start that dies while it rebuilds the table loses
  its rows (`db.py:462-467`; `TornRebuild = TRUE`); what the command line writes
  does not take the list over, and the next start undoes it. Re-adding several
  events whose rows hold different tokens gives all of them the first row's
  (`cli.py:153-159`), against "the one thing this must never do"
  (`cli.py:145-146`).
- CORS. Under `*` without credentials the answer to a caller without an Origin
  carries neither `Access-Control-Allow-Origin` nor `Vary`, and a cache may hand
  it to a page; a header list of `*` does not cover `Authorization` in browsers. A
  header list without `Content-Type` neither refuses nor advertises it
  (`cors.py:111-113`, `312`, `326-334`), although `cors.py:82-84` says a JSON:API
  body is not safelisted: the browser refuses a POST that nothing explains.

## 8. Not modelled

- Pseudonyms, sign-in and API keys: cryptography and text; what they are worth
  is in hashing and comparing secrets.
- Links and diagnostics: rewriting of URLs, and a log nothing reads back.
- Registry, configuration, wiring, the pages and statistics of the console:
  declarations and rendering. The registry's distinctions are the constants of
  the modules; the operator's actions are actions of the module they act on.
- Of the modelled components: `reference_refresh` and `merger_poll`, which read
  whole collections through the writer's operations; `repair_incomplete`, which
  queues whole resources; `_include_diff`, a filter on what is re-read; the
  write-through of records without edges, one call of the writer; the SQL of
  searches and orders; typed columns of field data; column migrations, which
  are idempotent; signature verification, which decides whether a delivery
  enters the model at all; half-done cascades (`writer.py:135`), restarts in
  `Divergence`, sideloads in `Verdicts`.

## 9. What could come next

1. The crash between a tombstone and its cascade, as a step of `Writer`.
2. `reference_refresh`, `merger_poll` and the include diff in `Sweeps`.
3. An abstract `Replica` (an id is copied, dropped, or brought to PCO's version)
   as a property of `Sweeps` and `DeleteAudit`.
4. A proof of `NewestKept`, which needs a prover for induction over sequences.
