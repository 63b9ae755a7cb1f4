# Notification Hub in TLA+

A verification development of the Notification Hub (notihub): a NestJS service that
takes events over HTTP, finds the chats they go to, and delivers them to Telegram
through a BullMQ queue. The repository also carries the skills of its editor under
`.cursor/skills`: Python tools that agents run to design and style the admin pages.
The modules here model the concurrent core of the hub and what the skills read,
decide and write; the `.cfg` files model-check them with TLC on small instances, and
the `*Proofs` modules hold theorems that TLAPS checks for every value of the
constants. Line numbers refer to the repository at the commit next to this
directory; paths such as `src/queue/telegram.processor.ts` are relative to its root,
and the scripts of the skills are named without `.cursor/skills/`.

Contents: [inventory](#1-inventory) ·
[modules](#2-modules-and-how-they-follow-the-code) · [runs](#3-runs) ·
[fairness](#4-fairness) · [proofs](#5-proofs) ·
[disagreements](#6-where-the-code-and-its-docs-disagree) · [not
modelled](#7-what-is-not-modelled) · [plan](#8-plan)

## 1. Inventory

| component | state it keeps | operations | what makes it hard |
|---|---|---|---|
| Event intake, `src/events` | `notification_logs`, `event_idempotency` (Postgres), jobs (Redis) | `POST /events` → `EventsService.handle` | 4 to n awaited calls per request, no transaction; concurrent repeats of one key; admins editing rules meanwhile; errors and crashes between two calls |
| Delivery worker, `src/queue/telegram.processor.ts` | the status of a log; the job's place in the queue | `process`, `onFailed`, `delayJob`, `markFailed` | three concurrent slots; at-least-once queue (locks, stalls, retries); the queue and the log change at different moments |
| Recovery, `src/queue/pending-delivery-recovery.service.ts` | none of its own | `recover()` every 30 s | stale batches, overlapping runs, a live worker next to it, an uncaught rejection |
| Telegram client, `src/telegram` | none | `sendMessage`, classification of failures | accepted messages whose answer is lost |
| Bot rate limiter, `src/queue/bot-rate-limiter.service.ts` | a counter per bot and second in Redis | `tryAcquire` | INCR and EXPIRE are two calls, delayed without bound against the clock that names the key |
| Health probes, `src/health` | none | `live`, `ready`, `probe` | a command to an unreachable Redis has no outcome |
| Hub monitor, `src/monitor` | `depsDown`, `failureAlerted` in memory | `tick()` every minute | overlapping ticks, snapshots older than the field, restarts |
| Watchdog, `scripts/watchdog.sh` | a state file | one run a minute | lost messages and killed runs between changing the file and telling |
| Admin API, `src/admin` | clients, bots, types, rules | CRUD, list of logs | look-ups before writes, restricts and cascades under running calls |
| GlitchTip webhook, `src/webhooks` | none | map a payload, then `EventsService.handle` | the key it derives |
| Guards, secrets, env validation, logging, OpenAPI, bootstrap | none | – | – |
| Admin SPA, `admin/` | React state | CRUD pages, log list | responses that overtake each other |
| Seed, backup, container files | – | one-shot scripts | – |
| Design persistence, `ui-ux-pro-max/scripts/design_system.py` | `design-system/<project>/…` and temporary files | `persist_design_system` | several agents at once, create-if-absent, kills between two system calls |
| Search, `ui-ux-pro-max/scripts/core.py` | caches of rows, indexes and keywords | `search_stack`, domain detection | data files that are saved while they are read; three caches with keys of their own |
| Style catalogue, `validate_data.py`, `core.py`, `design_system.py` | `styles.csv`, `ui-reasoning.csv` | validation, search, `_resolve_style` | two look-ups that should agree on tables edited by hand |
| Design decision, `reasoning_contract.py`, `design_system.py` | none | rules, mode, style, palette, advice | decided one after another, from sources that contradict each other |
| Image generators, `design/scripts/{icon,logo,cip}` | output files, results | single runs, batches, sets | requests that fail in the middle, names that collide, a logo that goes away |
| `ui-styling/scripts/shadcn_add.py` | the components of a project | add, add all, list | check, then act, next to another agent |
| `ui-styling/scripts/tailwind_config_gen.py` | the configuration | `add_…`, `write_config` | calls in any order and more than once |
| Slide search, `design-system/scripts/slide_search_core.py` | none | recommendation per slide | thirds of short decks |
| Deck generator and validator, `generate-slide.py`, `html-token-validator.py` | decks on disk | generate, validate | names by the minute; one tool judges what the other wrote |
| `design-system/scripts/fetch-background.py` | none | image and overlay of a slide | token files that lack some of their parts |

How they interact. A request creates one `NotificationLog` per matching rule and
adds one job per log, whose `jobId` is the log's id. A worker slot takes the job,
asks the limiter, reads the log and the bot, sends, and writes the status; BullMQ
retries, delays or fails the job, and its `failed` event runs `onFailed`.
`recover()` looks for logs that have been PENDING for a minute and adds their
jobs anew. The monitor counts FAILED logs and probes Postgres and Redis; the
watchdog asks the same probe from outside. Everything but the watchdog lives in
one Node process, so actors interleave exactly at their `await`s, and one
unhandled rejection ends them all. The skills are separate processes that meet
in the file system only: agents persist designs, add components and generate decks
beside each other, and the data files are edited while they run.

What makes each component correct is stated as the properties below; the hazards
they are aimed at, each at its line, are listed in `PROJECT.json`.

## 2. Modules and how they follow the code

One action per awaited call throughout: the code between two `await`s is one
atomic step of the event loop, so the action holds everything up to the next one.

**`JobQueue`** – the BullMQ queue, an external library, as the hub uses it: one
operator per Redis script (`Add`, `Remove`, `Fetch`, `MoveTo…`, `Stall`, …). A
job is named by its log. What comes from the repository are the options:
`attempts: 8` (`MaxAttempts`), eviction (`Evict`), concurrency (`Workers`).
Adding a job whose id is still known, in any state, is ignored; every move out
of `active` needs the lock; a locked job cannot be removed; `moveToDelayed`
counts no attempt. A paused job counts as waiting.

**`TelegramErrors`** – `classifyTelegramFailure` and `classifyTransportFailure`
on answers reduced to what they tell apart (HTTP status, `error_code`,
`retry_after`, wording). `retryAfterMs` undefined and 0 are one value, as the
processor only asks whether it is truthy.

**`Delivery`** – one log from creation to its last status.

| in the module | in the code |
|---|---|
| `log`, `intake`, `CreateLog`, `EnqueueJob`, `EnqueueFails` | the loop of `EventsService.handle`, for one log |
| `pc[w]`, `job[w]`, `TakeJob` … `MarkFailed` | the awaited calls of `TelegramProcessor.process`, in order |
| `DelayJob`, `Return`, `Throw` | the ways `process` ends, with what BullMQ does then |
| `failing`, `OnFailed` | `onFailed`, from the event to its `updateMany` |
| `rpc[r]`, `todo[r]`, `FindStuck` … `AddJob` | `recover()`: the batch, then each log of it |
| `RemoveRejected`, `ProcessDies` | `remove()` of a locked job under `void this.recover()`: an unhandled rejection, which ends the process |
| `accepted` | copies of the message that Telegram has taken; the code does not keep it |

The answers of the limiter and of the bot look-up are open (any of the two at
any time), which covers every history of limits and edits. The destination of a
message and its text are left out. `faults` bounds crashes, lost locks, a lost
Redis, lost answers and rejected calls together.

**`DeliveryLifecycle`** – what is promised of a log, without queue, worker or
recovery: created, reached, confirmed, given up, deleted. **`DeliveryRefinement`**
instantiates it with `status <- log` and `reached <-` the logs with an accepted
copy.

**`EventIntake`** – `EventsService.handle` for concurrent requests, next to
admins that disable and delete clients and rules (a rule counts as inactive when
its bot is). A request makes at most one log per rule, so logs and jobs are
named `<<request, rule>>`. `stored` is the `event_idempotency` table: a set of at
most one response per client and key. `answer` is the HTTP status;
`CallFails` lets any awaited call reject, with or without its effect; `Crash`
leaves all requests in progress unanswered. `before[q]` remembers which requests
had been answered 200 when `q` arrived. Moving a rule to another client or type
shows up as one rule that is disabled and another one that appears.

**`AdminRegistry`** – `AdminService` with concurrent calls: `Ensure` and `EnsureRef`
are the look-ups (those of a `Promise.all` come back in any order, the first that
fails is the answer), `CreateRow` to `DeleteRule` the one write of a call, which the
unique indexes and foreign keys of `schema.prisma` accept or refuse at that moment.
The three tables a rule refers to are treated alike (`Kinds`); of a row its unique
field is kept. `uniqueOrThrow` and `inUseOrThrow` turn Prisma's codes into 409 and
leave the rest as 500. A field that is null passes `@IsOptional` and is refused by
Prisma (a null token is skipped and counts as not given). A value of `Unstorable`
passes the DTOs and fits no column: a `threadId` above INT4
(`routing-rule.dto.ts:28-32`, `schema.prisma:64`), a text with a NUL; Prisma's error
for it is none the service knows. `deletedDuring` remembers which rows others
deleted while a call ran; the code does not keep it.

**`HubDependencies`** – Postgres, Redis (up, answering with errors, or
unreachable), the process, and the two pings. ioredis is configured with
`maxRetriesPerRequest: null`, so a ping of an unreachable Redis has no outcome
until Redis is back (`PingAnswered`). The first query of `recover()` on a lost
Postgres rejects without a handler: the process ends (`RecoverRejected`), Docker
restarts it, and the entrypoint's migration needs Postgres (`Restart`).

**`HubMonitor`** – overlapping ticks `t`, each at one awaited call of `tick()`. Time
is reduced to whether the creation and the failure of a log lie in the last 15
minutes. A spike is the time in which the failures in the window reach the
threshold. What the code does not keep: `alerted`, that this spike has been alerted;
`overtaken`, the ticks whose lower count is older than that alert; `forgotten`, that
the process died since, or that such a tick has cleared the flag. Sending an alert
always comes to an end and its outcome is not looked at, as in `alert()`.

**`Watchdog`** – `watchdog.sh` command by command: ask, compare with the state
file, change the file, tell. `curl` gives up when the hub does not answer. `told`
is what the chat heard last; losing a message, killing a run and losing the file
are faults.

**`BotRateLimiter`** – `tryAcquire` for one bot. Time is a counter with `Second`
steps to a second; a call reads the clock, and its INCR and EXPIRE are executed at
any time after, as ioredis keeps a command for a Redis that is away
(`maxRetriesPerRequest: null`), which may come back without its keys (`LoseKeys`).
`made`, `madeAt` and `losses` remember how often a key was made and lost; the code
does not keep them.

**`DesignPersist`** – `persist_design_system` by several agents, one action per
system call of `_write_persisted_file`.

| in the module | in the code |
|---|---|
| `request`, `Slug`, `Master`, `PageFile` | the arguments, `safe_slug`: names that differ may have one path |
| `Open`, `Write` | the temporary file; a full disk or a refused call at either |
| `Publish`, `MayPublish` | `os.replace` with `--force`, `os.link` without, which fails when the path exists |
| `PublishFails` | either call raises for another reason: no links on this file system, no permission, a disk that fails |
| `Cleanup`, `Unlink`, `Return` | the `finally`, then the next file, the report or the error |
| `CleanupFails` | the unlink raises, and takes the place of whatever was raised before |
| `Crash` | the process is killed; its temporary file stays |

`published` notes who put what where; the code does not keep it. **`DesignShelf`**
is what is promised of the files alone: a whole design is put down at once, and
without `--force` only where there was none.

**`SearchCache`** – one process of `core.py`. The file has one state per
signature (`past`); rows are read one by one while `Rewrite` may happen between
any two steps; `StatBefore`, `ReadRow`, `StatAfter` are the loop of
`_load_csv_snapshot`, and a reading has each row it kept under its
number; `ReadRaises` is an `open` or a reader that raises, which the keywords take for
an empty file and a search for an error (`unread` remembers under which signature
the keywords met it); `TakeData`, `Rank` use the index under `IndexKey`;
`DetectDomain` and `KeepKeywords` are `_domain_keywords`. Of a row its Status is
kept, as that is what `_stack_row_filter` chooses by. A save always changes the
signature (a size and a time in nanoseconds).

**`StyleCatalog`** – the rows of `styles.csv` and one rule of `ui-reasoning.csv`,
`Edit`ed at will. `Valid` is what `validate_data.py` accepts
(`_check_style_contract` and the style part of `_check_reasoning_contract`); nothing
validates the tables when they are read, so the properties are about those it
accepts. `Search` with its one hop of redirection and `ResolveStyle`,
`SelectBestMatch` of the generator are operators on the tables. The search takes the
first row with a name, the dictionary of `_resolve_style` keeps the last
(`FirstNamed`, `LastNamed`, by place in `Order`); `Reached` are the rows a chain of
parents can come to. A dial is any sequence of keywords, names of styles among them,
as in `DIAL_TIERS`; they come before what the rule names (`EffectivePriority`).

**`DesignDecision`** – `generate()` from the rules to the advice, one action per
decision: `ApplyReasoning`, `ResolveMode`, `SelectPalette`, `FilterAdvice`. What a
search returns is chosen freely.

**`MediaGeneration`** – the three generators share the steps of a batch (`Begin`,
`Call…`, `Answer…`, `Open…`, `Write`, `Pause`), each with its own handling of an
error, its own names (a slug and an index, a size, a style, the time in seconds)
and its own pause. `LogoIsTakenAway` is a change of the file between the check
in `main` and the second load in `generate_cip_set`.

**`ShadcnAdd`** – the look at the installed components, npx (external: it adds files
one by one, decides on files that are there, and may fail), and what is reported.
`Configs` is what `components.json` makes of the look: it is not there, malformed
(the look finds nothing), of another shape (an `AttributeError`), its alias or the
`.jsx` of the project hide the files, or the look sees them (`plain`). `Launch`
reads the version from `package.json`, which may raise. `met` and `since` remember
which components npx found there and which of them others wrote after the look.

**`TailwindConfig`** – every `add_…` on a dictionary of sections, `write_config`,
and the command line.

**`SlideDeck`** – `search_with_context` for each slide of a deck: goal, layout,
background, full-bleed, pattern break.

**`TokenValidator`** – `validate_html` as operators on a document, a sequence of
marks: the literals its regular expressions look for (hex, rgb, rgba, hsl, fonts),
what only looks like one (an entity, `#100`, an id), literals of a form no pattern
has (`unseen`), the tags of blocks, and style attributes with their end. A hundred
characters of context are two marks without a `gap` between (`Near`). Next to it
stands what a browser makes of the same document (`StylesThePage`), and the two ways
in which the validator differs from it: `Overlooked` and `FalseAlarms`.

**`DeckFiles`** – the runs of `generate-slide.py` that write decks (`Generate`,
`Name`, `Open`, `Write`) and a run of the validator (`Check`) that reads the
directory meanwhile, path after path in the order of `PathSeq`.
**`BrandBackground`** – `resolve_token_reference`, the two layers of
`load_brand_colors`, and `get_overlay_css`.

The `MC*` modules give constants their values (rules and their clients, answers,
symmetry). Three of them also join parts that have no state in common, so that
one run checks them all: in `MCHubGuards` (the limiter and the watchdog),
`MCSkillsCatalogue` and `MCSkillsTools` a variable that `Init` chooses says which
part runs, and the variables of the others keep their first values.

## 3. Runs

| run | instance | what it shows |
|---|---|---|
| `delivery_overlap` | 1 log, 2 workers, 2 recoveries, 2 attempts, 2 faults | `TypeOK`; SENT only after Telegram accepted (`SentMeansAccepted`); at most one copy, and one more per fault (`OneCopyPerFault`); a completed job has a settled log (`CompletedMeansSettled`); as long as nothing has failed a PENDING log is always in somebody's hands, also under a stale batch (`PendingIsInHand`); SENT stays (`SentIsFinal`); every step is one of the life cycle (`FollowsLifecycle`) |
| `delivery_fair` | 1 log, 1 worker, 1 recovery, 2 faults, fair | every PENDING log is settled (`PendingIsSettled`) |
| `intake_race` | 2 requests, 2 clients, 3 rules, 1 key, 1 fault, 3 edits | equal keys, equal answers (`SameAnswer`); a later repeat creates nothing (`RepeatCreatesNothing`); what is answered is queued (`AcceptedMeansQueued`) and stays with its client (`AnswerStaysWithClient`) |
| `monitor_overlap` | 2 ticks, 1 log, threshold 1, fair | a spike is alerted again only when the flag was forgotten, by a restart or an older count (`OneAlertPerSpike`); no count above the failures there are (`CountIsOfRecentFailures`); old snapshots do not stay (`FieldSettles`); a lasting spike of fresh deliveries is flagged (`SpikeIsFlagged`) |
| `registry_race` | 2 calls, any registry of 2 tables with 2 rows and 2 rules, 1 place that fits its column and 1 that does not, 1 fault | no rule refers to what was deleted between look-up and write (`ReferencesResolve`); a 500 is due to a lost database, a null field, a value no column holds or a row deleted meanwhile (`ServerErrorHasACause`); a deletion is told to one caller (`DeletedOnce`) |
| `hub_guards` | limiter: 3 calls, limit 1, 2 seconds of 2 steps, commands of any delay, 1 loss of the keys; watchdog: 2 faults, fair | a second of the clock is given the limit once for each key it can have had (`AllowedPerBucket`); a counter without expiry was left by a call that ended early (`KeysExpire`); the chat knows what the file says (`ToldMatchesFile`); a lasting outage and its end are told (`OutageIsTold`), also after earlier losses once the script runs without its file (`LaterOutageIsTold`) |
| `skills_catalogue` | 3 agents, 1 project, 1 page; 2 rows, 2 saves, 2 calls; 3 styles, 1 alias, 2 edits, dials of 2 keywords; 2 rules, 2 palettes | the files are those of the shelf (`PersistsAsPromised`), each run says what it did, and cleans up or raises (`EndsInOrder`); answers are of the file as it was during the call (`AnswersAreCurrent`) and no call leaves another a cache that misleads it (`CachesAreSound`); the dial, then the rule names the style, and the search agrees (`RuleAndSearchAgree`); a dark design is dark throughout (`DarkDesignIsDark`) |
| `skills_tools` | batches of 3 in 3 s; 2 agents, 2 components; 4 calls of the Tailwind generator; decks of 1 to 14 slides; 2 deck runs in 2 minutes; pages of 4 marks; every token file | `BatchIsAsReported`, `StylingIsAsTold`, `SlidesAreComposed`, `DecksAreJudgedRightly`: see below |
| `failed_is_final`, `intake_concurrent_repeat`, `monitor_redis_outage`, `monitor_late_failures` | smallest instances that show it | the disagreements of section 6 |

The four properties of `skills_tools` are conjunctions of what the modules claim.
`BatchIsAsReported`: a run returns what it saved (`ReportedIsSaved`), no item of a
batch is saved over another (`BatchKeepsItsFiles`), requests keep their distance
(`RequestsAreSpaced`), mockups show the logo as long as it is there (`LogoIsUsed`).
`StylingIsAsTold`: where the script can see the files, npx comes without
`--overwrite` by a component that has one only if another run wrote it after the
look (`MetOnlyInARace`), success means that the components are there
(`SuccessMeansInstalled`), the Tailwind configuration has everything that was given,
once (`WrittenIsComplete`). `SlidesAreComposed`: no two full-bleed slides after each
other in decks of nine slides or more (`ApartInLongDecks`), each of them with an
image (`FullBleedHasAnImage`), overlays of colours (`OverlayHasColours`) of one
layer (`GradientIsOfOneLayer`). `DecksAreJudgedRightly`: the file of a deck holds
it, or the deck of a run with the same name (`GeneratedDeckStays`); the validator
passes the decks of the generator but for the diamond and texts like colours at a
style (`GeneratedDecksPass`); and for any page it succeeds exactly if what styles
the page, as a browser reads it, is a token or overlooked, and nothing raises a
false alarm (`ExitTellsTheStyle`). For each part `PROJECT.json` lists a change of
the code that breaks it.

Why the bounds are enough. Two workers and two recoveries are what is needed for a
lost lock, a zombie that still sends, and two runs that remove and add the same job;
three slots add no new pair. Two attempts distinguish a retry from the last attempt,
and two stalls (`MaxStalled` is 0 or 1) the failure by stalling. Two faults allow a
fault during the repair of another. Two requests suffice for each pair of positions
in `handle`; the theorems cover more. One client with two rules makes the loop go
round, the second client owns the same key. The limiter's three calls are one more
than a limit of one and one key made anew allow; four steps of half a second let a
key expire and a late INCR make it once more, and so does the loss. Two calls to the
registry suffice because it starts in any state earlier calls may have left. Three
agents are two that race and one that finds the result, with the project's page or
without it. Two rows make a torn read, two saves defeat one retry of the loop
(`Attempts` is 2), two calls let one use what the other cached. Three styles make a
chain of two redirects, and two edits take its middle away; a dial of two keywords
has one before a name. Fourteen slides contain every remainder of the thirds. A page
of four marks nests two blocks around a literal. Deadlock is not checked: every
system here may stop (no events, no requests left, the end of the modelled time).

## 4. Fairness

`Delivery!Fairness`: an awaited call returns (the event loop, and the timeouts of
`sendMessage`); BullMQ promotes delayed jobs, finds stalled ones and hands out
waiting jobs in order, hence strong fairness for taking a given job although
other jobs and lost locks intervene; the interval starts `recover()` again. Two
assumptions concern the world: a job that is delayed by the limiter for ever is
let through at some time (its window is a second), and Telegram's flood control
ends. Faults are never obliged to happen, and never obliged to stop other than
by their bound. `HubMonitor!Fairness`: ticks continue when the call they await has
an outcome, a lost Postgres lets `recover()` reject, Docker restarts. `Watchdog`:
the timer fires and a started run ends, within curl's time limits. Of the skills
only safety is stated: nothing there is obliged to happen again.

## 5. Proofs

Every type invariant and every safety and action property of the runs is stated by
a theorem, listed with it in `PROJECT.json`. All theorems are for any number of
logs, workers, requests, rules, ticks, calls, agents, rows, styles, components,
slides and pages, any number of attempts and any number of faults. They rest on
the named `ASSUME`s of the modules, which TLC evaluates on every run:

* finite sets where something is counted, positive limits, bounds that are numbers,
  and values that stand for none (`NoKey`, `Null`, `Unlocked`, …) apart from the
  others;
* for the designs `SlugAssumption`, `NamesAssumption` and `AbsentAssumption` (every
  name has a slug, none of them `MASTER`; not that slugs differ);
* for the search `CacheAssumption` (a file has a row, `_load_csv_snapshot` makes an
  attempt, what stands for an empty cache is not one);
* for the catalogue `StylesAssumption` (a style has one row; what stands for no name
  and for the hint of a landing page is not a style);
* for the tools `BatchAssumption`, `LengthsAssumption`, `SectionsAssumption` (no
  section is named `plugins`, which the configuration keeps elsewhere) and
  `DecksAssumption` (a day has a minute; what stands for no file is no content).

Where a property is not inductive as it stands, the invariant it follows from is
named with it. TLC checked these invariants too, before they were proved.

* `DeliveryProofs`, first part: `TypeCorrect`; `SentTruthful`, `CompletedTruthful`
  and `SentStays` from the invariant `Truthful` (a worker that is about to confirm
  has a copy in the chat, a worker that returns has a settled log, a log that is
  known to somebody has been created); and `DeliveryImplementsLifecycle`, one
  lemma for each way a step looks from outside: a change of status, an accepted
  copy, or nothing. Second part: `OnceAndOncePerFault`. `OneCopyPerFault` is not
  inductive: it says nothing of copies yet to be sent. The invariant `Budget`
  charges each log for its accepted copies, for its *zombies* (workers that lost
  the lock of its job and may still send) and for the regular attempt that may
  still send, and keeps the sum at most 1 + faults. A send spends what allowed it;
  only a fault makes a zombie or reopens a log. Third part: `PendingInHand`, from
  `HandOver`: besides being in somebody's hands, a PENDING log with a failed job
  has its handler pending. Without this the invariant breaks where `recover()`
  adds a job that is still known and nothing happens.
* `EventIntakeProofs`: `TypeCorrect`; `OneAnswerPerKey`, `AnswersAreQueued`,
  `AnswersStayWithClient` from `Consistent` (what is stored was queued and belongs
  to the client; whoever was answered 200 with a key holds what is stored, unless
  the client is gone), and `RepeatsCreateNothing` from the fact that a request
  that started after such an answer never passes the look-up.
* `HubMonitorProofs`: `MonitorTypeCorrect`; `SpikesAlertedOnce` from
  `SpikeIsRemembered` (until it is forgotten an alerted spike is remembered by the
  flag, and only ticks the alert overtook can clear it) and `CountsRecentFailures`
  (no failure is older than its log).
* `AdminRegistryProofs`: `RulesAreResolved` needs the foreign keys alone, the
  look-ups do not help it. What they are for is `ServerErrorsAreCaused`, from
  `LookedUp`: what a call has looked up exists, or its deletion by another call
  has been noted. `DeletionsAreUnique` follows from ids that never come back.
* `HubGuardsProofs`, the limiter: `BucketsAreLimited`. A key that expires forgets
  its count, so the limit does not follow from the counter alone. The invariant
  counts keys instead: a bucket has let through at most `Max` calls for each key
  made for it (`PassedPerKey`), and its keys are apart, each made when the ones
  before had had two seconds, unless they were lost (`KeysAreApart`); `KeysAreFew`
  turns this into their number. No assumption on delays is left. `CountersExpire`
  states what may stay in Redis. The watchdog: `ChatMatchesFile` from
  `ToldUnlessUnsent`: between the change of the file and the message chat and file
  differ, and only there, as long as there was no fault.
* `DesignPersistProofs`: `PersistImplementsShelf` needs that what is about to be
  published is a full temporary file (`FullInvariant`); that a path is not
  overwritten without `--force` is then `os.link` alone. `ReportsAreTrue` from
  `NotedWhenPublished`: what a run has published is what it has noted, or what it
  notes when the cleanup of the write it is in has ended, for the outcome of a
  write is known before `created_files` has it. `TempsAccounted`:
  a temporary file that is left belongs to a run that was killed, or whose unlink
  raised and which ends with that exception. Together they are `RunsEndInOrder`.
* `SkillsCatalogueProofs`, the search: `SearchesAreCurrent` and `CachesKeepSound`
  from `CacheInv`, which judges everything by the signature it is kept under. What
  the loop has read is a part of the file for as long as the signature is still the
  one from before (`LoopReadsTheFile`), hence what it returns is the file whole
  (`LoadedIsTheFile`); the cached rows and index are those of their signature
  (`CacheHoldsTheFile`); keywords may be newer than their signature, never older
  (`KeywordsAreNoOlder`), so that a later call that sees the newer signature fits
  them anew; the seed alone is kept only under a signature the keywords could not be
  read from (`unread`). Catalogue: `StyleIsNamedAsSearched` needs of the validator
  that a name belongs to one row (`NamedOnce`), so that the first row of the search
  and the last of the generator's dictionary are one, and that a redirect ends with
  its first hop; that the first keyword that names a style decides is
  `FirstNameDecides`. Decision: `DarkDesignStaysDark` from `DecisionInv`: the
  palette agrees with the mode from its choice on, the advice a step later.
* `SkillsToolsProofs`, generators: `BatchesReported` from `MediaInv` (one request
  for each item up to the one the run is at, results behind it, a file of its own
  for each, requests with their gap before them). `ui-styling`: `StylingTruthful`
  from `ShadcnInv` (components only come, and what a run did not see at its look was
  written since) and `TailwindInv`. Slides: `SlidesComposed` from `SlidesInv`
  (full-bleed at four places of a deck only) and `BackgroundInv` (the colours are of
  one layer). Decks: `DecksJudged`, in three steps. (1) `BlocksByTags`: along a
  document in which no block has the tag of another in its text, the last tag before
  a mark tells its block, so that what the validator finds is what styles the page
  without what it overlooks, and the false alarms (`FoundIsStyle`). (2)
  `DeckOfSlides`, along the slides of a deck: a gap stands before each slide, so
  that no literal of one is in the context of another (`NearApart`), and a deck
  fails exactly if one of its slides does (`FlaggedApart`, `SlideFlagged`). (3)
  `DeckInv`, an invariant of the runs: a path is the name of the minute it was
  chosen in (`PathsAreNamed`), whoever writes to the file of a finished deck has its
  name (`NamesDiffer`), and what was read was judged as it was then
  (`ReadsAreJudged`).

How the inductions are done. Recursion is written as functions that are recursive
on the length of a document, a deck or a batch. That such a function has the
values its definition says is proved by `StepByStep` (functions given step by step
exist) and `UpTo` (a set with 0 and the successor of each of its members has all
numbers up to n); the set takes the place of the predicate of an induction
theorem, which the installed provers cannot instantiate. Overridden functions (`@@`)
and folds are opaque to them as well, which is why tables are written as functions
of their domain.

Only model-checked: everything under fairness, which is outside what TLAPS does:
`PendingIsSettled`, `FieldSettles`, `SpikeIsFlagged`, and the
watchdog's `OutageIsTold` and `LaterOutageIsTold`; and the four runs that refute a
sentence of the docs.

## 6. Where the code and its docs disagree

Each is a run that TLC refutes; `PROJECT.json` quotes the sentence.

* `FailedIsFinal` – the life cycle in `docs/integration.md:125-126` ends in FAILED.
  `recover()` may add the job of a still PENDING log anew between BullMQ's move to
  `failed` and the handler's update; the log then goes to FAILED and on to SENT.
* `OneJobPerKey` – a repeated `idempotency_key` is said to create nothing. Two
  concurrent requests both pass the look-up. What does hold is `SameAnswer` and
  `RepeatCreatesNothing`: repeats *after* the answer are safe. A request that
  failed half-way has the same gap for its retry.
* `RedisOutageIsNoticed` – the monitor is said to report a lost Redis; its ping
  waits for Redis instead, and the count of failures behind it as well. The
  watchdog does report it (`OutageIsTold`), since curl gives up.
* `SpikeIsCounted` – the window is on the creation of the log, not on its failure.

Four more are built into properties that hold, as the exception they name, and
have no run of their own:

* "If False (default) and MASTER.md already exists, persistence is skipped", and the
  status is "skipped_exists" (`design_system.py:1005-1011`, and `search.py:24-25`):
  with `--page` the page is created all the same, and the status is "success"
  (`ReportIsTrue`: only a run that published nothing says "skipped_exists").
* "ALL styles MUST use CSS variables" (`generate-slide.py:5`): a deck with a
  solution slide fails the validator, which takes the entity `&#9670;` (:510) for a
  hex colour (`GeneratedDecksPass`).
* "Never consecutive full-bleed" (`slide_search_core.py:307`): the thirds of a deck
  of three to eight slides are neighbours (`ApartInLongDecks` starts at nine).
* "Resolves semantic token references to actual hex values"
  (`fetch-background.py:42`): only one step is resolved. A reference to another
  semantic token, or to a group, ends up in the overlay as it is (`OverlayHasColours`
  is about token files without such references).

## 7. What is not modelled

Of the hub: wording and formatting of messages and alerts; the worker's global
limiter (20/s), which only delays; the lists of the admin API and the fields of
its rows that nothing depends on; Bull Board's manual actions; `GET /health`; the
GlitchTip mapping, guards, environment validation, the admin SPA, the rotation of
the dumps. The destination of a message is left out, so that a rule that is
rerouted before its delivery is recovered is outside the model. Not to be
modelled: generated Prisma code, OpenAPI and logger set-up, the seed.

Of the skills: the scores of BM25 and the ranking of rows, the text of formatted
output and prompts, the parallel searches behind `generate()`, the contracts of
`validate_data.py` other than the styles', the searches and `render-html.py` of the
CIP and logo tools, the `.cjs` token tools. Files are whole or truncated and rows
are what the properties tell apart; that a save changes a file's signature is
assumed. `icon/generate.py --sizes` with a size given twice saves the second icon over
the first, under one name; the model asks for each size once. The tables of the style
catalogue are read without being validated: what an edit breaks before the next
validation is outside its properties.

Behaviour seen while modelling that no property covers, and that the list of
hazards leaves out:

* The right to send is acquired before two database reads
  (`telegram.processor.ts:29`); sends per second are not bounded by it.
* A client that was disabled after its first request gets 400 for a repeat
  (`events.service.ts:37`); no doc says which answer is meant.
* An event that matched no rule stores its empty answer under its key
  (`events.service.ts:104`), also when a rule is added later.

## 8. Plan

Done, in this order: `JobQueue`, `TelegramErrors`, `Delivery` with its abstract
`DeliveryLifecycle`; `EventIntake`; `HubDependencies` with `HubMonitor` and
`Watchdog`; `BotRateLimiter`; `AdminRegistry`; `DesignPersist` with its abstract
`DesignShelf`, `SearchCache`, `StyleCatalog`, `DesignDecision`; `MediaGeneration`,
`ShadcnAdd`, `TailwindConfig`, `SlideDeck`, `DeckFiles`, `BrandBackground`; the
proofs of section 5.

What would add most:

1. `Hub`: `EventIntake` and `Delivery` composed, with an abstract intake (a key is
   taken once, its answer is fixed) that `EventIntake` implements for sequential
   repeats, and the proof of that refinement; instance of 1 client, 2 requests,
   1 rule.
2. Recovery under a full batch: 2 logs and a batch of 1, where a delayed log may
   keep another from being recovered (`take: 50`).
3. `EventIntake` on top of `AdminRegistry`, instead of its own edits, with the
   destination of a message.
4. What the alert chat is told by the monitor, across restarts.
5. The key and its life time that the GlitchTip webhook derives; loads of
   `LogsPage.tsx` that overtake each other.
6. Proofs: the lemmas of `TelegramErrors` (which answers are permanent), and that
   `WrittenIsComplete` keeps the values last given and not only their names.
