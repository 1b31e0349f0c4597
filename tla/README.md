# Mazimi in TLA+

Mazimi recommends public benefits to young people in Korea.  A worker collects
programs from public data sources every night, an API serves them to a mobile
and a web client, and the worker reminds users of the deadlines of programs they
subscribed to.  This directory models the worker's jobs, which share tables and run
concurrently, the evaluation of eligibility rules behind the recommendations, and
the mobile client, whose screens, stores and caches overlap in another way; it
checks the models with TLC and proves their main safety properties with TLAPS.

## 1. The system

### Components, their state and their operations

| component | source | state | operations |
|---|---|---|---|
| Ingestion pipeline | `crates/worker/src/pipeline.rs` | tables `ingestion_runs`, `ingestion_items`, `source_snapshots`, `programs`; per run a batch, a position, the duplicate cache, a counter | `run_ingestion`, `process_source`, `process_record` |
| Sync scheduling | `crates/worker/src/main.rs`, `admin.rs: trigger_sync` | none | nightly loop over seven sources; a manual loop over three |
| Source fetchers | `crates/worker/src/sources/` | none | `fetch_all` page by page |
| Deadline alerts | `crates/worker/src/alerts.rs` | `alert_deliveries`; per job a date, a type, candidates | `generate_deadline_alerts`, `run_for_type`, every hour |
| Alert settings | `crates/api/src/routes/alerts.rs` | `alert_subscriptions`, `notification_preferences` | `upsert_preferences`, `update_notification_preferences`, reads |
| Notifications | `crates/worker/src/notifications/` | `expo_push_tickets`, `push_tokens` | `send`; `check_pending_receipts` every 15 minutes |
| Push tokens | `crates/api/src/routes/push.rs` | `push_tokens` | register, unregister |
| Application state | `crates/api/src/routes/state.rs` | `user_program_states`, `user_program_state_history` | `upsert_state`, `update_application`, reads |
| Programme administration | `crates/api/src/routes/admin.rs` | `programs` | create, `update_program`, `toggle_publish` |
| Bookmarks | `crates/api/src/routes/bookmark.rs` | `user_bookmarks` | toggle |
| Payments | `payment.rs`, `payment_provider.rs` | `user_subscriptions` | verify, status |
| Authentication | `auth.rs`, `routes/auth.rs` | `users`, `user_profiles`; stateless JWTs | login, refresh, withdrawal |
| Rule engine | `crates/core/src/rule_engine.rs` | none | `evaluate`, `compute_final_score` |
| Recommendation preview | `crates/api/src/routes/recommend.rs` | none; the client keeps the last list | `preview` |
| Other reads | `programs.rs`, `dashboard.rs`, `my.rs`, `stack_check.rs` | none | queries |
| Mobile session | `apps/mobile/store/auth.ts`, `lib/api.ts`, `app/_layout.tsx`, `login.tsx`, `consent.tsx` | tokens in memory and in the secure store; the required consents | start, login, requests with a refresh, logout |
| Mobile cache | `lib/cache.ts` | entries with an expiry | get, set, fetch with fallback |
| Mobile vault | `lib/crypto.ts`, `vault.ts`, `app/document-vault.tsx`, part of `auto-fill.tsx` | master key, salt, files, the list in AsyncStorage, temporary copies | add, delete, share |
| Local notifications | `store/notifications.ts`, `lib/notifications.ts` | a stored list, the push token | receive, read, clear |
| Onboarding, calculator, profile tab | `app/onboarding/`, `calculator.tsx`, `(tabs)/profile.tsx`, `IncomeBracketGuide.tsx` | the answers, the row on the server, its cached copy | answer, save, apply a bracket |
| Programme detail, assistant | `app/programs/[id].tsx`, `apply-assistant.tsx` | status query, checklists, profile form, launch panel, bookmark icon | update the status, tick, edit, open the site |
| Stack calculator, simulator | `stack-calculator.tsx`, `region-compare.tsx` | selection; changed conditions, cached answers | calculate, compare |
| Form filling | `auto-fill.tsx` | copies under way, marks, timers, toast, injected scripts | copy, fill, share |
| Search | `(tabs)/explore.tsx`, `FilterSheet.tsx` | filters, draft, term | filter, apply |
| Home, packages, saved preview | `(tabs)/index.tsx`, `manage.tsx`, `preview.tsx` | three queries; one kept result | show, save, refresh |
| Rest of the clients | cards, texts, `apps/web` | | presentation |

### How they interact

All server-side components meet in one Postgres database and nowhere else: there
are no queues and no locks.  Nearly every handler is a sequence of single
statements, each committed on its own, so between two statements of one
handler anything may happen in the others.  What keeps the data in order are
unique keys (`ON CONFLICT`), not transactions.

- The nightly sync (02:00 UTC) and the admin's `trigger_sync` run the same
  `run_ingestion` in different processes, and nothing keeps them apart.
- `programs` is written by ingestion, by the admin's endpoints, and by the
  welfare source on behalf of the youth_center source (a duplicate's link).
- The alert job reads `programs` and `alert_subscriptions` while they change.
  It starts every hour, whether or not the last one has ended.
- The alert job calls the notifier.  The notifier can store Expo tickets that a third job
  checks, deleting tokens that the API writes, but the alert job passes no token
  (`alerts.rs:230`, although `README.md:17` speaks of push alerts), so that at
  this commit neither table is ever put to use.
- In the mobile client nothing runs in parallel, but every `await` lets anything
  else go on: other requests, timers, the user, the end of the app.  The requests
  share one session; screens share react-query's entries by their keys, the stores of
  `store/`, AsyncStorage (whose calls are served in order) and SecureStore.  What a
  screen started goes on when it is left.
- The client meets the server in the status row (`state.rs`), the bookmark
  (`bookmark.rs`) and the profile row (`routes/profile.rs`); these modules hold both sides.

### What is hard, and what would make each component correct

*Ingestion.*  A record is skipped when its content hash equals the one in
`source_snapshots`; the snapshot is saved **before** the row.  Everything that
depends on more than the payload (the normalizer's version, the other records of
the batch, the rows of other sources) can go stale, and everything that stops
between the two statements can be lost.  Correct means: what a run reports is
what it did; a record reported as upserted has the row of the payload that its
snapshot stands for; a finished run is not touched again; a failing record or
source does not stop the loop.

*Alerts.*  The count and the insertion are separate statements; jobs overlap and
are restarted; a failing statement ends the job.  Correct means: no alert
twice; a limit that holds, or is missed by a known amount; every due alert
recorded in the end.

*Application state, bookmarks.*  Two screens update one status without waiting and
read it through one query; a toggle is two statements.  Correct means: what the
screen calls fresh is the row, an application is not reported before the site
was seen, overlapping toggles all count, the icon is the row.

*Session, vault, cache, notifications.*  Several awaits write one thing after the
other into two places, and nothing serialises two such sequences.  Correct means:
memory and SecureStore hold one account, expired tokens lose no session; every file is under the
keys that are stored, the list and the directory agree, no share forgets its decrypted copy;
without a network old data is served, as documented; a restart brings back what was shown.

*Screens.*  Answers arrive late, in any order, for conditions that have changed since,
or not at all.  Correct means: what is shown belongs to the answers, filters or
conditions on the screen, or is marked; what the user typed is not replaced; a total
can really be received; a mark goes away.

*Administration, payments* (planned).  No lost update of a program while it is
ingested; one subscription per payment.

*Rule engine and recommendation.*  The preview filters by date, region and age in
one place, evaluates the rules in another and scores in a third, and the three have
to agree although a profile is incomplete, values may not be comparable, and the
truth value of the rule tree is thrown away.  Correct means: a program the user
is entitled to is listed; a full match is one; answering more questions never
takes points; a program does not fall before it is over.

*Link choice, duplicate similarity* (planned).  Pure functions: the order of
preference of links, thresholds.

## 2. The modules

| module | models | uses |
|---|---|---|
| `RunLedger` | what `ingestion_runs` and `ingestion_items` promise: a run is opened, noted in and closed once, and its report agrees with its items | |
| `Ingestion` | the pipeline, the loops over sources, and what the sources may return; implements `RunLedger` | `RunLedger` |
| `MCIngestion` | an instance of it for TLC | `Ingestion` |
| `IngestionProofs` | types, ownership of runs, frozen runs, progress; items, snapshots, rows and counts; the refinement | `Ingestion` |
| `AlertLedger` | what `alert_deliveries` promises: recorded once, dispatched at most once and afterwards | |
| `DeadlineAlerts` | the alert jobs; implements `AlertLedger` | `AlertLedger` |
| `MCDeadlineAlerts` | an instance of it for TLC | `DeadlineAlerts` |
| `DeadlineAlertsProofs` | types, the refinement, the bound on the limit | `DeadlineAlerts` |
| `Recommend` | the rule engine and the recommendation preview | |
| `MCRecommend` | a catalogue, its rules and a user for TLC | `Recommend` |
| `SetSums` | lemmas: induction over finite sets, sums over them | |
| `RecommendProofs` | types, what a list is, who is listed, and the scores | `Recommend`, `SetSums` |
| `Session`, `SessionProofs` | tokens in memory and SecureStore, requests, login, logout, the consent gate; one account, kept | |
| `Vault`, `VaultProofs` | documents, keys, files, consent, shares; keys, copies, masking, the list and its files, and the vault's type | |
| `IncomeMedian`, `IncomeBracket` | the table of median incomes; the guide that asks for it | |
| `Profile`, `MCProfile` | onboarding, calculator, profile tab, cache, the server's rows; an instance | `IncomeMedian` |
| `Notifications` | the stored list, push registration | |
| `AccountProofs` | types and the properties of the guide, the profile and the notifications; the five parts together | `MCClientAccount`, `VaultProofs`, `SessionProofs` |
| `MCClientAccount` | the five parts above on small instances | all of them |
| `Programme` | what is derived from a programme, the answers and the vault (no state) | |
| `Applications` | detail screen, assistant, status query, the server's row | `Programme` |
| `PreCheck` | the two checklists, the pre-check, the profile form | `Programme` |
| `Bookmarks` | the toggle's two statements and the icon | |
| `Stack`, `WhatIf`, `AutoFill`, `Explore`, `Home` | one screen each, as named above | |
| `Preview` | the preview with its kept result | |
| `ScreensProofs` | the properties and the types of these nine parts, and of all of them together | `MCClientProgrammes`, `SetSums` |
| `MCClientProgrammes` | the nine parts above on small instances | all of them |

### Ingestion

Every loop `w` has a program counter `pc[w]` that names the statement it executes
next; one action executes it.

| action | code |
|---|---|
| `StartSync`, `EndSync` | the job of `main.rs` (60-175), `trigger_sync` |
| `OpenRun` | INSERT of the run's row |
| `Fetch` | `source.fetch_all()` and the shared links of its result |
| `LoadCache` | `load_youth_center_cache`, for national_welfare only |
| `ReadSnapshot` | SELECT of the content hash |
| `WriteSnapshot` | upsert of the snapshot, then (no statement) the normalization, the duplicate check, and the decision what to do |
| `WriteLink` | UPDATE of the duplicated row's link |
| `WriteRow` | upsert of the program |
| `WriteItemUnchanged`, `...Duplicate`, `...Upserted`, `...Failed` | INSERT of the item, with its ON CONFLICT clause |
| `CloseRun`, `CloseFailedRun` | the run's final UPDATE |
| `Crash`, `ChangeFeed`, `Deploy` | a process stops; a source changes what it publishes; a new normalizer is deployed |

Each statement may fail (`Fault`): it then has no effect and the code takes its
error path.  A local variable lives as long as the code's: the cache is loaded
once for a run, the record at hand is the one at `pos[w]`.  `build` is the version
of the normalizer, which a row keeps; `changedBy` and `contended` are history
variables that only properties read.

A payload is a title and a link.  Two payloads have equal hashes iff they are
equal (collisions of the 128-bit hash are left out); two titles are duplicates iff they are
equal (the similarity threshold is left out); a youth_center record has a plcyNo and
one candidate link, a specific one or none.  `SharedLinks` and `OfficialLink`
are `collect_shared_youth_center_ref_urls` and `select_official_url` on such
payloads.  The other sources behave like `other`: neither cache nor shared
links.

The refinement maps `runs` and `items` to the ledger's.  An `OpenRun` that takes effect is the
ledger's `Open`, `CloseRun` its `Succeed`, `CloseFailedRun` its `Fail`, and a statement that
writes an item its `Note`, unless the item stays what it was.  The ledger knows no loops, batches or
positions: it says who may write what to a run, and how a report relates to the items.

### DeadlineAlerts

Every job `j` has a program counter, too.  `Tick` starts it and reads the date;
`Select` executes the query of one type; `Count` takes a candidate and counts the
day's alerts; `Insert` records it, or finds it there; `Send` calls the
dispatcher, which always returns Ok; `Advance` goes on with the next type or ends.
`CountFails` and the failures inside `Select` and `Insert` end the job, as `?`
does.  The environment changes subscriptions, preferences, publication and
deadlines, lets midnight pass, and stops the worker with all of its jobs.

The refinement maps `alert_deliveries` to the ledger's `recorded`, and `sends`,
which counts the calls of the dispatcher for each alert, to the ledger's
`sends`.  An `Insert` that takes effect is the ledger's `Record`; a `Send`
is its `Dispatch`; everything else is a stutter.

### Recommend

The service keeps nothing between two requests, so the state is what a request is
made of (`profile`, `now`, `active`) and what the client shows (`items`, with `asked`,
a history variable: what that list was computed from).  `Edit` changes an answer,
`HalfDayPasses` lets time go by, `Toggle` publishes or withdraws a program, and
`Preview` is the handler: the SELECT with its WHERE and ORDER BY, the hard
filters, `evaluate`, `compute_final_score` or `inline_score`, and the stable sort.  Rows
that tie in the query's order may come in either order, hence `Rankings` is a set.

| operator | code |
|---|---|
| `Extract`, `Cmp`, `EvalOp`, `Holds` | `extract_field`, `cmp_values`, `eval_op`, `evaluate_condition` |
| `Matched`, `Failed`, `Unknown`, `Passes` | the leaves and the result of `walk` |
| `Urgency`, `BenefitPoints`, `RuleScore`, `Score` | the `compute_` functions |
| `Candidate`, `Included`, `ItemFor`, `Rankings` | `preview` and its query |

Strings are numbered in lexicographic order, as the engine only compares them
(`SubstringOf` stands for `contains`).  Time is counted in half days, so that
`num_days` has something to round.  A rule is a conjunction of disjunctions of
conditions, the form of every rule the migrations install; deeper trees are left
out.  Scores are fractions and never rounded.  The texts of
the explanation and the sums of benefits are left out.

### The mobile client

A module of the client has variables for what its code keeps - React state, a
store, an entry of react-query's cache, a key of AsyncStorage or SecureStore - and
one action for each handler up to its next `await` and for each thing that may come
back.  Every call may fail where the code catches it - in `Preview` and for the copies of `Vault` also where it
does not - and a screen may be left at any
time it offers a way out; what it had started is then marked as no longer open, since React
drops its updates.  What a screen shows and offers is an operator (`AddDocModal`,
`WizardOffers`, `HomeScreen`, ...): a set of names, and a handler's guard is that
its button is among them.  `...UNCHANGED` parts of other screens are not in the
module, as they share no state.

| module | steps and code |
|---|---|
| `Session` | a *flow* is one call in progress: `restoreSession` (`RestoreRead`, `RestoreReadRefresh`, `RestoreMe`), a request (`StartRequest`, `RequestAnswer`, `Refresh`, `KeepTokens`, `Publish`, `Retry`), a logout (`HandleLogout`, `Clear`), a login (`LoginReturns`, `HandleTokens`); two requests may run at once |
| `Vault` | `HandleSave`, then `CopyFile`, `ReadKey`, `WriteKey`, `EncryptFile`, `UnlinkAndAdd`, or `FallBackToPlain` when one fails; `HandleDelete`; `StartShare`, `DecryptToTemp`, `CloseSheet`, `CleanTemp`; the dialogs and the consent; `FlushList` writes a list; `LeaveVault` leaves a save to itself, `RestartApp` ends all of it |
| `Profile` | the steps of the onboarding, `SaveAnswers`/`SaveAnswered`; `CacheGet`, `NetworkAnswer`, `StaleAnswer` are `cachedFetch` with the store's failures; `CalcReadCache`, `CalcAnswer` the calculator, `CalcLeftAnswer` a fetch whose calculator was left; `ApplyIncomeBracket` |
| `Notifications` | `Initialize` issues the read, `ServeRead` serves it, `LoadPersisted` takes its result; registration; `AddPending`, `MarkAsRead`, ...; `PersistNotes` is a write that was not waited for, and may fail unheard |
| `Applications` | `SendUpdate`, `StoreUpdate` and `LogUpdate` (the two statements of `update_application`), `UpdateSucceeds` with `Refetch` (`invalidateQueries`, which joins a first read that is under way), `ServeStatus`, `StatusArrives`; the dialog, `SiteOpens`, the assistant's steps |
| `PreCheck` | `VaultRead`, ticks, `OpenForm`, `ProfileArrives`, `HandleProfileChange` |
| `Bookmarks` | `DeleteRow`, `InsertRow`, `ToggleAnswered`, `ToggleFails` |
| `WhatIf` | the chips and scenarios; `CurrentProfile` and `SimProfile` are what is asked for, by year of birth, and `SectionShows` what the screen says, by age |
| `Preview` | `ShowKept`, or `KeptUnread`; a fetch by `FetchSucceeds` and `FetchStored`, or `FetchFails` and `FallBack`, or `FallBackFails` |
| `AutoFill` | copies and the timers of their marks; a toast is shown by `Show`, then `ToastFadedIn`, `ToastWaited`, `ToastEnds`, each for one part of its sequence |
| `Stack`, `Explore`, `Home` | the handlers of the screen, and the arrival or failure of each query; the dashboard's through `cachedFetch` |

Documents, programmes, regions and fields are model values or names; an amount is a small
number, a date the days left, a URL its kind, an encrypted file the pair of keys it
was made with, a query's answer the profile it is for.  Variables or fields marked
*history* (`crossed`, `incidents`, `raced`, `stray`, `had`, `missed`, `disturbed`, `visited`, `saved`, `blind`, `seen`) are read by properties only - but for
`crossed`: once two flows have written the session at the same time, `Session`
is not followed any further, as from then on nearly everything is possible.

## 3. The runs

| run | what it asks | result |
|---|---|---|
| `ingestion` | two overlapping syncs, one change of the sources, one fault or crash: `RunCountsMatchItems`, `UpsertedMeansCurrent` | holds |
| `ingestion_live` | two overlapping syncs with one fault and a deployment in between: does every sync end (`SyncFinishes`), and nearer with each statement (`LoopsAdvance`), and are the tables of runs and items a ledger (`RunsRecorded`)? | holds |
| `ingestion_guide` | does the run after a deployment fill the new columns of every record it handles? | violated |
| `ingestion_shared` | is a link that two records of the batch share kept off their rows? | violated |
| `alerts` | two overlapping jobs, one change of the settings, midnight, one failure or restart: `OvershootBounded`, `AlertedOnce`, `AlertsArrive` | holds |
| `alerts_limit` | is the daily limit kept? | violated |
| `alerts_muted` | are users who turned deadline alerts off left alone? | violated |
| `recommend` | a user who fills in, corrects and takes back answers while a day and the year pass and a program is toggled: `EligibleAreListed`, `FullMatchIsEligible`, `AnswersOnlyHelp`, `TimeOnlyRaises` | holds |
| `client_account` | vault, session, guide, profile, notifications, each with failures, restarts and overlaps: eleven properties, below | holds |
| `client_programmes` | application, pre-check, bookmark, stack, simulator, form filling, search, home, preview: thirteen properties, below | holds |
| `profile_save` | does applying a bracket change nothing but the bracket? | violated |
| `profile_stale` | does a profile that cannot be fetched fall back on the one that expired? | violated |

The properties of the two client runs:

| part | property |
|---|---|
| vault | `FilesUnderStoredKeys`: every file can be decrypted; `ListMatchesFiles`: list and directory agree, unless a save or deletion failed, was killed or left; `TempCleared`: a share that ends leaves a decrypted copy only if making or deleting it failed or the app was killed; `MaskingConfirmedForFile`: the tick belongs to the file that is stored |
| session | `SessionConsistent`: memory and SecureStore hold one account; `SessionKept`: expired tokens lose none |
| guide | `BracketsOrdered`: more income or a smaller household never lowers the bracket |
| profile | `RowsComplete`: no incomplete row is saved; `CalculatorShowsOwn`: a calculator that has stopped fetching shows the result of all the answers of now, or failed and says so or shows an older one |
| notifications | `StoredIsShown`: a restart brings back what was shown, unless the last write or the read failed or the list changed while it was loaded |
| application | `FreshStatusIsServers`: a fresh status is the row, unless an update was answered while a first read, or one of a closed screen, had been served before it; `AppliesAfterVisit` |
| pre-check | `EditsKept`: late profiles replace no edits; `ReadyNeverWorsens`: more documents, no worse verdict |
| bookmark | `EveryToggleCounts`; `IconIsRow` |
| stack, simulator | `TotalIsReceivable`: the total is that of some allowed choice; `ResultsOfThisProfile`: the difference is between the two profiles shown, with the year of birth of the age shown, or 2001 when there is none |
| form filling, search | `MarksHaveTheirTimer`: each mark its own timer, a message an animation that will hide it, its own or an older one's; `FilterFindsWhoQualifies`: against a quantified definition of who may apply |
| home, preview | `CardsMatchAnswers`; `SavedPreviewIsMarked`: with the banner and no dead end, unless what is kept cannot be read |

**Bounds.**  `ingestion` has two youth_center records and a welfare record that may
duplicate the first, two titles, two links (one of them bokjiro's), and batches
of at most two records.  That is enough for two records to share a link, for a
record to be listed twice, for a duplicate with either kind of link, and for two
loops to meet on a record; the two loops cover two sources and one, and a fourth
row of `ingestion_runs` leaves room for a loop that is started again.  One fault suffices for each error path; what two
faults can do (the failed item's own INSERT fails) is left to the proofs, which
have no bounds.  The instance without a change of sources is used for liveness,
as its graph is searched for cycles, and for the refinement, which
is costly to check at each step.
`alerts` has one user, three programs with deadlines one and seven days off, two
jobs, and a limit of 1 where the code has 2: with a limit of 1 the second
candidate of a type already meets it, so the interesting cases take fewer
programs.  The proofs hold for every limit; `alerts_limit` uses 2.  Users do not
interact except through the order of the candidates, which is arbitrary already.
`recommend` has three programs whose rules are like those of the migrations (a
conjunction with a disjunction, a range, a negated membership, operators without a
value) and one without, so that both scores are in one list.  Its dates
lie on either side of the thresholds of 60 and 30 days and of the last
day, and all are crossed within the two half days; a new year begins at the second, which
moves a user's age.  Two of the fields have two values besides no answer, so that
one condition goes from unknown to matched and another to failed.
`client_account` and `client_programmes` each hold several parts that share no
variable.  A behaviour belongs to one of them, its `focus`, so that TLC explores
the union of their graphs and not the product; this loses nothing, because no
action of a part reads or writes a variable of another.  Their bounds: two documents
(one of a type with a number to mask, one of the sensitive health type) and one
incident - failure, of a copy or of anything else, kill, screen left, overlapping share - in one behaviour; one
login, two issues of tokens and one mishap; one account, one save, one region and one failure of
the profile, one age inside the range (0 stands for one outside), and one fetch left behind by a calculator; lists of two kept
notifications, three arrivals and two calls of AsyncStorage under way.  Two updates of a status, one pressed step of the detail
screen (`PressedSteps`; the assistant sends another), three toggles, so that two overlap and a third
follows; six listings with every pair of exclusion rules; an onboarding with an age and one without,
and a year, a region or an income that may change; two copies, of which the second meets the first
one's timer and toast, and two toasts that wait; four cards on both
sides of the age limits; two accounts and two regions at home; three fetches of the preview, one
more than can overlap in a visit.  Constants called `Max...` bound what the user and the
network may do and appear in guards only.
`CHECK_DEADLOCK FALSE` is set in the other runs because their bounded behaviours come to an end.

**Fairness.**  `SyncFinishes` assumes weak fairness of the steps of a loop: tokio
drives a spawned task as long as the process lives, and database calls end with a
result or an error.  `AlertsArrive` assumes it of the steps of a job and of `Tick`, as
the scheduler fires every hour; it does not assume that midnight comes, nor
anything of the users.  The number of faults is bounded, so that an hour without
a failure comes; a database that fails for ever delivers nothing.

**What the violations show.**
1. `infra/migrations/20260701000001_program_application_guide_fields.sql:3-6`
   says that rows need no backfill as the next run populates them.  The
   next run skips every record whose payload is unchanged
   (`pipeline.rs:197`), so the new columns stay empty until the source edits it.
2. The doc comment of `collect_shared_youth_center_ref_urls` says that a shared
   link is not used as a deep link.  A record that was normalized before
   the link became shared keeps it for the same reason.
3. `alerts.rs:6` and `:21` state a limit of two alerts a day and that repeated
   runs are safe.  Jobs that overlap can exceed the limit; `OvershootBounded` says by
   how much.
4. `infra/migrations/20260321000009_notification_preferences.sql:1` describes
   per-user toggles for alert types.  The worker never reads the table.
5. `(tabs)/profile.tsx:284-288` forwards every known field so that applying a bracket does
   not "silently null out anything else the user has set".  The fields are those
   the tab has read, possibly from its cache, and saving in the onboarding does not
   touch that: answers saved in between are overwritten with the older ones.
6. `lib/cache.ts:139-147` and `:184-186` say that expired data is served when the network
   fails.  The read that found it expired has asked for its removal (`:76`), so unless that
   fails there is nothing left to serve, and the caller gets the error.

**Met while modelling,** each visible in its module or in a part that is left
out, and in no run: a program without `deadline_at` gets the points of one that is "always open"
(`rule_engine.rs:447-448`), also when it closes tomorrow by its `application_end_at`, the only one of
the two that ingestion writes and one that the preview's own filter looks at.  Two first uses of the vault can
make two master keys, and the files under the first are then lost (`raced`).  A health
document can be attached without its consent, by switching the type after the file was picked
(`HealthFilesConsented` in `Vault` says what would have to hold; no run checks it).  A server
error during a refresh logs out (`api.ts:44`).  `preview.tsx` does not take the banner of
saved results down when a fetch succeeds that overlapped a failed one, and is linked from no
screen.  The simulator's base region is always "national" since the table is keyed by labels
(`region-compare.tsx:507`).  The bracket chosen in the filter sheet is not used by the
home screen, which `explore.tsx:402` says it is (`index.tsx:373-377`).  A failed query of the simulator counts as
an answer without programmes; without an age it shows 24 years, and asks for those who were born in 2001 (`region-compare.tsx:225`, `:594`).
The end of an older toast hides a newer one (`auto-fill.tsx:76-83`).  When the kept preview cannot be
read, `preview.tsx:119` never fetches and its spinner stays.  A status that is first read while it is
updated may stay the old one, as the invalidation joins that read.  A copy that a failing
`deleteAsync` leaves behind stays until the document is shared again (`auto-fill.tsx:214-218`).  A
notification that arrives while the list is loaded is dropped from it, and a failed write is not repeated.  The icon of a bookmark is never loaded, and
a failed toggle turns it over.  A conditional return before a hook breaks the form filling
screen when the session changes under it (`auto-fill.tsx:1150`, `:1231`).
`OfflineBanner.tsx:91-105` leaves its opacity at 0 after it was dismissed, so that the next
offline phase shows none.

## 4. The proofs

The theorems about the server hold for all values of the constants that satisfy
`ConstantsAssumption` and `AbsentAssumption`: any finite sets of records, users,
programs and jobs, any number of loops, any plan of sources, any bounds.  The
finiteness is needed for the cardinalities the properties speak of; that
`Absent` and `Nobody` are no real values is what makes them stand for NULL.

The theorems about the client assume, in the module that declares the constants, that bounds
are natural numbers, that data has the shape of the API's (`IsProgramme`, `IsCard`, ...), and:
programs and rules are finitely many (`Recommend`, `WhatIf`); every clause has a condition, and the
two required answers exist (`Recommend`); no region is the empty string (`Home`, `Preview`); the server
sends recommendations with the best score first (`Home`); names and
contacts never come from the server (`AutoFill`); the masked type is in play (`Vault`).

**IngestionProofs.**  `SafeInv` is inductive: types; what a loop's position, cache
and duplicate refer to exists (`LocalsInv`); rows not yet opened are empty
(`FreshInv`); a loop in the middle of a run holds a row that is `running` and that
no other loop holds (`OwnerInv`).  The type invariant alone is not inductive:
the type of a row that is relinked depends on the row being there, and that
of a batch's record on its position being inside.  `ClosedRunsFrozen` (which
`RunsRecorded` implies, so that no run has it) follows:
every step that writes a run's row or items belongs to the loop that holds it, and
a held run is running.

**IngestionProofs, tables.**  `RunCountsMatchItems` and `UpsertedMeansCurrent` speak of
finished runs, so the invariants carry what is true at every statement before.
`NotedInv`: the items of a run in progress are those of the records
its loop is done with.  `CountInv`: their number, by outcome, is what the
loop has counted so far.  `SerialInv`: between `WriteSnapshot` and the item, an
uncontended record's snapshot is the loop's own, and after `WriteRow` so is
its row.  Contention (two loops on a record at once, a record twice in a batch) is
the only way to break it, and the property excludes exactly these records.

**IngestionProofs, ledger and progress.**  `LedgerInv`: the run a loop holds is of the source it is at and
reports nothing yet, and so is every record of its batch; so no item is ever noted in a run
of another source.  With `CountInv` at the last record the report is the ledger's, with `NotedInv` a
run that fails has no item, and an item that an `ON CONFLICT` leaves alone is a stutter
(`ImplementsRunLedger`).  `LoopsAdvance` orders the positions of a loop
lexicographically - stage, part of the run, record, statement - and every statement and every
failure goes up in that order, inside bounds that the step leaves alone.  `SyncFinishes` is this and
the fairness that makes a loop take its next statement.

**DeadlineAlertsProofs.**  `LedgerInv`: a job about to dispatch holds an alert that
is recorded, has not been dispatched and is held by no other job.  With it, every
step is a ledger step or a stutter.  `OvershootInv`: a user's alerts of a day plus the jobs that have passed
the check for them and not yet inserted are at most the limit plus the number of jobs minus
one, since a job passes only while there is room.

**SetSums.**  Scores, amounts and totals are sums over sets, by the community operator
`MapThenSumSet`, a recursive function that takes the elements in an order nobody
knows.  An induction over finite sets needs a property as a parameter, which the provers
cannot instantiate; `SetInduction` takes the *set* of the sets that have the property, and
says that a smallest one without it cannot exist (`WFMin`, for the strict subsets of a finite
set).  From it: the sum is the recursion's whatever is picked first (`TotalOfAny`), splits over
disjoint sets and over families of them (`TotalOfUnion`, `TotalOfParts`), grows with the set (`TotalGrows`),
and with positive weights is the whole sum only for the whole set (`TotalIsAll`).

**RecommendProofs.**  `EligibleAreListed` compares the list with the query it
answers, so the invariant says what a list is: `items` is a ranking of
`asked` (`ItemsInv`).  A ranking enumerates the listed programs, each once; and a program
whose rule passes has a matched condition, because every clause has one, so
that `Included` keeps it.  The three other properties are about sums.  `FullMatchIsEligible`: the
matched weight is the whole weight, weights are positive, so every condition matched
(`TotalIsAll`).  `AnswersOnlyHelp`: between two lists of which the later one answers more, no condition that
matched or failed changes (`AnswersKeep`), so the matched weight does not fall and the whole
weight is the same (`ScoreGrows`); and the program stays a candidate, which needs that region and year
of birth are never absent (`RequiredInv`).  `TimeOnlyRaises`: nothing but the points for the deadline depends on the day, and they
only rise until it is over (`UrgencyRises`); behind it the date filter takes the program away.

**ScreensProofs, applications.**  `FreshStatusIsServers` is not inductive: a read that is on its way may
have been served before an update that is written now.  `StatusInv` says that, unless a
call failed or the data aged (`disturbed`), and while no written update is on its way back
(`Settled`), what a fresh query holds *and* what a read carries back is the row.  The
step that makes it true again is `UpdateSucceeds`: it asks for a new read, or joins a first one that the
server has not served yet.  A read served before that, which no invalidation gives up (`MissesRead`), is the one exception (also `disturbed`).
For `AppliesAfterVisit` it suffices to know where the assistant offers what (`VisitInv`):
"opened" is set by the opening site only.  The types need one more fact, that
updates are numbered as they are sent (`SentTyped`), so the bound on updates bounds the numbers.

**ScreensProofs, pre-check.**  `CheckTyped` gives the types; the probability is a share that is cut to
50..98, so its range needs only that it is a number, which is a sequence with at least two
conditions (`ProbabilityInRange`).  `ReadyNeverWorsens` holds because a document that gets
ready only takes items from the missing ones.  `EditsKept`: the profile writes into the form
only while nobody has edited it.

**ScreensProofs, bookmarks.**  `Counted`: with the toggles that have changed the row and are on their way
back, the row's parity is that of all the toggles that took effect, so a step from
"due" to "answered" changes nothing.  `Alone`: a toggle sent alone, until it is
answered, is the only one under way, and the row is as it left it.  For the types, `TogglesFit`: no more
toggles are answered than are over.

**ScreensProofs, preview.**  `PreviewInv`: a saved result without the banner has an open fetch that
will replace or mark it (`Marked`), which needs that what was once read stays kept
(`KeptStays`), that open fetches are for this visit's answers (`OpenFetches`), and that a
screen without fetches has stopped waiting (`Waiting`).  Both stop at a read of what is kept that fails
(`blind`), until another fetch begins or shows something.  For the types, fetches are numbered as
they start (`FetchesNumbered`).

**ScreensProofs, form filling.**  `MarksHaveTheirTimer` is inductive with the types, once these say that
a copy's number lies in 1..`MaxCopies` and that "no mark" is the number 0: a copy sets its mark together with
the only timer of that mark, under its own number, and a timer that fires clears the mark it was set for.
For the toast, `ToastFine`: there is room for a message that fades in among those that wait.  A wait that ends
begins a fade, so a message never loses its last animation without being hidden.

**ScreensProofs, search and home.**  `FilterFindsWhoQualifies` is about the two ways of comparing
ages: a range of the filter and the bounds of a programme overlap exactly when somebody of the chosen
ages may apply (`ListIsWhoQualifies`).  `CardsMatchAnswers` needs of every state that a cached entry
holds nothing but the recommendations for its own region (`EntryFine`) and that a signed-in home screen has
asked for what it lacks (`Requested`): a screen that neither shows nor waits has an
error.  The score of the package is a mean of at most five scores, none above the first.

**ScreensProofs, stack and simulator.**  `ListOfServer` is the invariant of the stack (with, for its types, that what is picked is in some
list of the server, not always in the one shown); the rest is
about the algorithm.  What it counts of each group that excludes each other is a choice without exclusions
(`Stackable`), hence at most the best one; its categories are disjoint parts whose sums add up
(`TotalOfParts`); and without a pair that excludes nothing is left out.  `ResultsOfThisProfile`: a query on the
screen has an entry under the key of its profile (`QueriesHeld`), and an entry without data is asked
for or refused (`CacheOK`), so what is shown is for the two profiles that are asked for; these are the ones on
the screen because a year more of age is a year less of birth, whichever year the base is.

**ScreensProofs, together.**  The focus never moves and each step is one of the screen in focus, with all else
left alone; so a behaviour of the nine parts together is a behaviour of each of them (`ScreensAreParts`), and both
the types (`ScreensAreTyped`) and the other properties (`ScreensKeepTheirPromises`) carry over.

**VaultProofs.**  `KeyInv`: as long as no key has replaced another, a save that has read or
made a key holds the one that is stored, and a file is under the stored keys, of which
there are both.  So a key is stored for the first time only when no save holds one and there is no
file.  Most steps neither make a key nor encrypt: one lemma (`QuietKeeps`) says that they keep it
when every save has the keys that some save had (`NoNewKey`, which covers a screen that
is left) and every file is as it was or gone (`NoNewFile`).  For `TempCleared`, `CopyInv` says that
a decrypted copy belongs to a share whose sheet is shown or that is about to delete it, or was left
behind; a share that has not decrypted yet is no reason for a copy.  `MaskInv`: a tick was set with the file that is attached now, since picking a file takes
the tick back; a save keeps the form it was started with; and what lists hold - shown, stored or being written - was made
by a save.  `FilesInv`, while no save or deletion failed, no screen was left during a save and the app was not
killed: the only save is the screen's and of the newest document, the screen shows the newest list, no
number is used twice, and each file belongs to that save or to a listed document
that has a file.  The vault's type (`VaultIsTyped`) needs counting in place of the small bounds of the instance.  `FitInv`: a
document is counted when its save begins and listed when it ends, so every list, shown, stored or being
written, is within the count.  `DrawInv`: whatever is a key was made, and each save makes two at most, as it
reads each of the two once before it makes it and holds those it has got.  `SharesInv`: a running share, like
every decrypted copy, is of a document.

**SessionProofs.**  `TypeInv` also says that a flow's position fits what it is, and that its tokens were issued;
`LoadingEnds` (isLoading, which disables the login's buttons, never outlives restoreSession) is proved from it
and by no run checked: a failing restore ends the loading too.  `SessionConsistent` speaks of quiet states, so
`SoundInv` says what is true on the way: memory and SecureStore agree except while somebody signs in or clears
(`Uniform`), the two stored tokens are of one account except between their two writes (`Paired`), and each flow
has done what its position says (`FlowSound`).  Which flows may run beside each other without crossing
is one lemma (`Alone`).  `KeptInv`, for `SessionKept`: an undisturbed account is in memory except
while its own login writes it, and no flow that clears or restores runs: a refresh leads to clearing
only by a call that fails, which is a mishap.

**AccountProofs.**  The guide: the estimate is a step function of the income over a median
that grows with the household, which the lemma orders for every income.  The profile: every row that is stored, sent,
cached or served is complete (`ServerFine`, `SavesFine`, `EntryFine`, `QueryFine`), as the last page is
reached with a valid age only.  A calculator on the screen fetches for the answers of now, up to a bracket
that was open (`OfNow`), then shows their result, or has ended with an error (`CalcFine`); the answers stay while it is
open, since the onboarding below it is covered.  The notifications: at most one of the calls under way
is the read (`OneRead`); unless something was missed, that read is behind every write, and once the list is
loaded the latest of the writes under way, or what is stored, is what is shown, cut to its length
(`Synced`).  The five parts of `MCClientAccount` compose as the screens do (`AccountIsParts`), which gives
`AccountIsTyped` and `AccountKeepsItsPromises`.

**What the proofs found in the models.**  A `CASE` whose arms overlap leaves the choice to whoever reads
it, while TLC takes the first that is true: what followed from such a definition on the small
instance could not be proved.  The chains of the code are chains of `IF` since
(`Programme`, `AutoFill`, `Explore`, `Home`, `WhatIf`, `Recommend`).  That a program stays
a candidate when answers are added turned out to rest on the two required
answers, which are an assumption now.

**Only model-checked:** `SyncFinishes` and `AlertsArrive`, which are liveness under fairness and out of the
prover's reach; the six violations, which TLC shows by a counterexample.  Every other property of a passing
run is a theorem.

## 5. What is left out

- Paging, HTTP, field filters and text normalization of the fetchers; the similarity
  measure; the priority among the three candidate links of a youth_center record.
- `program_status` and application dates in ingestion.
- Rule trees deeper than two levels, rounding of scores, explanation texts and
  benefit sums in the preview.
- The channels behind the dispatcher, whose failures the dispatcher swallows.
- In the client: ciphers, texts, layout, animations other than the toast's, analytics; the
  cards, the legal pages, the offline banner and the tab bar, which keep nothing that
  interacts; more than one user of a vault; a session after two flows have crossed; cached
  entries other than the profile's and the dashboard's; the web client.
- `upsert_state` and the list of `state.rs`, which no screen of the mobile client calls, and
  the history table, which none shows.
- Everything listed as `not_modelled` in `PROJECT.json`, with the reason.

## 6. Plan

In the order of importance to the system:

1. **Catalogue** (`admin.rs`), composed with the rows of `Ingestion`: the
   read-modify-write of an admin against ingestion; lost updates, double toggles; the
   status that is computed from dates.
2. **Payments** (`payment.rs`): one subscription per payment under retries.
   Theorem: the unique key gives at most one.
3. **ApplicationLog**, an abstract specification (an append-only log whose last entry is
   the state) that `Applications` would implement while no statement fails.
4. **OfficialUrl** with its three candidates, and the similarity of titles.
5. **PushTickets** (`notifications/mod.rs`, `push.rs`), once the worker passes
   tokens to the notifier.
6. The web client, if it gets state of its own.
