# EOPP: a verification project in TLA+

EOPP is a case-management platform: a Django and REST backend on PostgreSQL with
Celery workers, and a React client. Case managers refer young people to partners
(training, services, jobs) and follow them into work; facilitators accompany
women's savings groups (the WLT module) through formation, lending and linkages to
banks. Most of the logic is state machines over database rows, run by several web
workers and scheduled jobs at once.

This directory holds TLA+ modules that model the backend, the TLC configurations
that check them on small instances, and proofs of the main results that TLAPS
checks for every instance. `PROJECT.json` lists components, runs, the source lines
behind every definition, findings, hazards and theorems.

Run from this directory:

    tlc -workers 2 -config groups.cfg GroupsMC        # any run of PROJECT.json
    tlapm LinkageProofs.tla                           # all proofs of a module

## 1. Inventory

Paths are below `src/backend/apps`.

| Component | State | Operations | Modelled by |
|---|---|---|---|
| Referral state machine (`referrals`) | row: status, confirmation, case, category, parent and replacement links, parallel group, outcome | initiate, confirm, decline, cancel, complete, fail, onward, replace, PATCH | `ReferralEngine`, for referrals of a case |
| Abandoned-referral sweep (`alerts/tasks.py`) | a list of copies | fetch, fail each | `ReferralEngine` |
| Alert inbox (`alerts`) | alert rows: type, case, referral, Open / Actioned / Dismissed | seven detection jobs, clearing sweep, action, dismiss | `AlertInbox` |
| Case record (`cases`) | status, closing fields, manager, next actions, pathway | update, assign, note, resolve, choose, revise | `Casework` |
| Placements (`placements`) | placement, three retention checks | record, answer a check, record the exit, PATCH | `Placement` |
| Training, enterprises, follow-ups (`training`, `enterprises`, `followups`) | enrolment; plan, disbursement, milestones; contact log, verified outcome | complete, fail, drop out; approve, disburse, close; log, verify | `Delivery` |
| Youth register (`youth`) | youths and what they are known by | register, PATCH, preview and commit a workbook | `Intake` |
| Grievances (`grievances`) | eight statuses, pause and deadline, tier, appeal parent | acknowledge, review, pause, resume, decide, close, appeal, refer out, PATCH | `Grievance` |
| Service linkages (`wlt/services/linkage.py`, `wlt/tasks.py`) | twelve statuses, approval chain, obligations, risk flags | propose, screen, submit, approve, return, reject, activate, record and settle obligations, distress, cure, default, close, nightly jobs | `Linkage` |
| Group ledger (`wlt/services/ledger.py`) | meetings, entries, loans, cash | open, count, close, save, lend, repay, write off, reverse | `GroupLedger` |
| Formation, phase, structure (`wlt/services`) | group status and phase, memberships, officers, events with approvals, associations, delegates | draft, add, exit, constitute, activate, expire, submit, approve, reject, form an association, withdraw, dissolve, rotate | `GroupLife`, `Assembly` |
| Registry and enrolment (`wlt/services/enrolment.py`) | persons, profiles, the queue of likely matches | import, register, edit, resolve a match, verify, join | `Registry` |
| Policy (`wlt/services/policy.py`) | parameters by scope and date, versions | resolve, mint or reuse a version | `Policy` |
| Indicators and gates, nightly refresh (`wlt/services`) | derived from meetings, stays, bylaws, loans | attendance, savings, PAR30, gates, risk, dormancy, views | `Readiness` |
| Dashboards and reporting (`dashboard`) | derived from youths, referrals, placements | counts, cuts, funnel, retention, queues | `Dashboard` |
| Users, roles, scoping; partners, places (`users`, `partners`, `locations`) | accounts, addresses, access matrix; standing; the tree of places | hire, edit, edit oneself, edit a partner; every list a role may read | `Accounts` |
| Taxonomy of referrals | categories, outcomes | edited by administrators | constants of `ReferralEngine` |
| Web client, deployment | | | not modelled |

**How the parts interact.** All share one database. A completed referral, a
placement or a disbursement marks the case PLACED; alerts are raised from, and
cleared by, conditions on referrals, cases, training and placements; the failure of
an unanswered referral is a scheduled job that calls the referral's own state
machine; grievances point at referrals; linkages and phases read gates computed from
the ledger under versioned policy; distress of a linkage raises risk flags on groups
and, through associations and federations, on groups below; membership decides who is
expected at a meeting, who may hold a seat, and whether a profile may join elsewhere.

**What is hard here.**

* *Stale copies.* A request fetches a row with no lock (`get_object`), validates,
  opens a transaction, and saves most or all columns of the copy. What the
  transaction re-reads under a row lock differs between components: three columns
  in referrals, the edge (but not the copy that is saved) in grievances, nothing in
  linkages, trainings, placements and profiles.
* *Locks on one row, rules about several.* The parallel cap of a case, the loan cap
  and the cash of a group, pending submissions of a group: the check reads rows
  nobody has locked.
* *No transaction at all.* Casework and placements write several rows statement by
  statement; a worker may die between two.
* *Jobs that work through a list* fetched once, next to people, with one transaction
  per item, and that stop at the first exception or with their worker.
* *Long legal sequences*: chains of replacements and onward referrals, approval
  chains that return and restart, pauses and resumes, members who leave and come back.
* *The same fact computed in several places*: gates, cards, SQL views, queues and
  the cumulative series each count the same rows in their own way, over rows that
  may be dated back or ahead.

**What makes each component correct.** Referrals: status moves along the table
only; the cap; active siblings share a group of one case; a failed referral is
replaced at most once and both links agree; the stack shows everything. Alerts: one
open alert per condition, none closed while its condition holds, none left open for
ever after it has gone. Casework: one current pathway chain, a summary that follows
the open action, no placement without its follow-up. Grievances: heard once, no
closing without telling the complainant, deadlines that count only the programme's
time, a decision never replaced. Linkages: no approval without every level and never
two by one person, exposure that exists, distress visible as long as it lasts.
Ledger: what the box holds is what the entries say, and the next meeting opens with
it; a loan's standing is what its entries say. Groups: no phase without its approval
trail, seats held by current members. Registry: nothing is merged before it is asked.
Indicators and dashboards: one definition of each figure, and the past does not
change with the present.

The hazards, each at its line, are in `PROJECT.json` with the properties that bear on it.
Where a property holds only under a condition, or does not catch the race itself, the
hazard's note says so.

## 2. Plan

Done, in this order: `ReferralLifecycle`, `ReferralEngine`, `AlertInbox`; `Linkage`;
`Grievance`; `GroupLedger`; `Casework`, `Placement`; `GroupLife`, `Assembly`;
`Registry`; `Delivery`; `Intake`; `Policy`; `Dashboard`; `Readiness`, `Accounts`.

Proofs, done: every safety property of a passing run (section 5).

Left, the most useful first:

1. An abstract specification of a linkage's approval (a bag of levels, each given at
   most once) with `Linkage` as its refinement; it has the invariant `ApprovedWhenDecided`
   instead.
2. Referrals of a group (no case, no cap) and the linkages that a dissolution closes:
   compositions of `ReferralEngine` and `Linkage` with `Assembly`.
3. The credit and association gates inside `Readiness`, today inputs of the modules
   that ask them.
4. Proofs about the products: the runs check each part next to others that stand
   still, the theorems speak of each part alone.

## 3. The modules

Each module is one component; `PROJECT.json` maps every definition to its lines.
`XxxMC` modules hold constants for TLC and the products of section 4, `XxxProofs`
modules hold theorems. Common conventions: a request is what a worker holds between
two statements other requests can come between (`req`, `work`, `act`, `task`, …): the
operation and the copy that `get_object` fetched. Its start (`Load…`, `Begin…`) is an
action, its commit another, and giving up (an invalid body, a refusal, a worker that
dies) a third. Where the code has a transaction, the model has one step; where it has
none, a step per statement. A *scenario* (`scenario`, `session`, `season`, `shift`,
`desk`, `round`, …) is a constant of a behaviour chosen at the start: which operations
are in use and how many requests may be under way. It selects among what users do and
never changes what an operation does.

### ReferralLifecycle

The promise: `status` and the forward link `replacement` of each referral; create,
move along the table (`TRANSITIONS` in `referrals/models.py`), and `Replace`, which
moves the failed referral to Replaced in the same step in which its successor
appears. It has no requests, locks or copies.

### ReferralEngine (ReferralEngineMC, ReferralEngineProofs)

| TLA+ | code |
|---|---|
| `row[r]` | the committed row of a referral; `confirmation` stands for `confirmation_status` with `confirmed_date`, `group # None` for `is_parallel` with `parallel_group_id` |
| `placed[c]` | `Case.case_status = PLACED`, as the engine sets it |
| `req[w]` | a web worker in the middle of a request: the operation, the copy it fetched (`snap`), and for a confirmation the group and siblings it decided on |
| `batch[r]` | the copies the sweep has still to process |
| `Load` | `get_object`: a copy, with no lock |
| `Decide`, `Commit` | the two halves of a confirmation: lock the row, check edge and cap against unlocked siblings; then stamp siblings, save, commit |
| `Close`, `Complete`, `Replace`, `Onward` | the other transactions. Each reads only the row it has locked, so it is one step at its commit |
| `Saved` | what `save()` writes: the copy, except status, group and the partner's answer |
| `Edit` | PATCH: the whole copy, with no transition |
| `Refuse`, `Abort` | a refused request; an invalid body or a dead worker |
| `SweepFetch`, `SweepFail`, `SweepRaise` | `fail_abandoned_referrals`; a refused transition ends the job |
| `CaseRows`, `Reached` | the stack drawn for a case: its roots, then children of what is drawn |

PostgreSQL runs READ COMMITTED and there is no transaction per request (see
`config/settings`), so a statement sees what others committed before it. A row lock
is the predicate `LockFree`: a lock is held between steps only by a confirmation
that has decided. Left out: notes, dates, reason codes, who recorded an answer,
partners, the activity stamp, and referrals about groups, which have no case and skip
the rule.

### AlertInbox (ViewsProofs)

`alert[a]` is a row; `job[b]` what a beat worker has left to do: subjects found and
not yet raised, one subject between `exists()` and the insert, alerts fetched by the
sweep and not re-checked, one between the re-check and the update; `hand[p]` the open
copy a person has fetched. `due[s]` is the part of a condition that time and casework
decide, `followed[r]` that an onward referral follows `r`. Referrals move as
`ReferralLifecycle` allows (EXTENDS). `Detected` is the queryset of a detection job,
`StillHolds` the sweep's re-check; they differ exactly where the code's do.
`IndexAllows` stands for the two partial unique indexes. All alerts are about one
case; alerts of different cases share nothing but the workers.

### Linkage (LinkageMC, LinkageProofs)

| TLA+ | code |
|---|---|
| `link[l]`, `approvals[l][k]`, `register[l][x]` | `ServiceLinkage`, its `LinkageApproval` levels, its obligations |
| `flagged` | groups and associations with an open external risk flag |
| `req[u]` | the operation and the copy of the linkage that `get_object` gave; every service saves the columns of that copy |
| `Propose`, `Screen`, `RecordResolution`, `Submit`, `SubmitOverride`, `ReturnForRevision`, `Reject`, `Activate`, `RecordObligation`, `SettleObligation`, `TransferObligation`, `Cure`, `Close` | the services of `services/linkage.py`, dispatched by `Handle` |
| `Judge`, `ApproveBlocked`, `Sign`, `Approve` | an approval: the level is looked up; the gates refuse, or the level is written and the levels left are looked for; the commit, which moves the linkage on what that look said |
| `Terms`, `Edit` | what a proposal, an activation or a PATCH writes into `terms`: the two the service reads, as the form has them; PATCH also writes the subject, and the whole old copy |
| `Sees` | `get_queryset`: whose linkages a role may fetch |
| `Lapse`, `DefaultOverdue`, `RefreshRead` / `RefreshWrite`, `FlagBlacklisted` | the nightly jobs; the refresh of a group reads its reasons and writes its flag in two steps |

The gate's verdict (pass, fail, or the phase alone missing) is an input of the step
that asks for it. A level that has been written and not committed keeps other deciders
from its row (`LevelFree`), and nothing else from anything.

### Grievance (GrievanceProofs)

`complaint[c]` is the row, `holding[o]` an officer's request with its copy, `today` the
date. An edge is checked on the locked row (`EdgeExists`) while the columns come from
the copy. `WorkingDaysBetween` and `AddWorkingDays` are `clock.py` over any set of rest
days; `Standing` is the row's own answer to what is late, `Late` the queue's.
`HorizonAssumption` says that the calendar of an instance is long enough for every
deadline; the loop in the code has no end to its calendar.

### GroupLedger (LedgerProofs)

`meeting`, `entries` (append-only), `loan`, `tillFlag` (a conflict raised on the count)
and `work[s]`. Checks and inserts are two steps where the code has no lock:
`OpenLook`/`OpenMeeting`, `CountTill`/`CloseMeeting`, `LendCheck`/`Disburse`,
`RepayCheck`/`RepayRead`/`Repay`, `WriteOffLook`/`WriteOff`. `Reconciles` is the
trigger of migration 0002; `BalanceOf` sums lines by their `CASH_EFFECT`.

### GroupLife and Assembly (AssemblyProofs)

`GroupLife`: `group[g]` (status and phase), memberships, terms of office, `trail` (the
phase events in the order made), and the task of each officer. `FormationStep` and
`PhaseStep` are formation (draft, add, exit, elect, constitute, activate, expire) and
phase (submit, approve, reject), `EditGroup` the PATCH, `Reassess` the nightly status.
`Assembly` EXTENDS it with the one formation event, associations `cla`, `parent` and
`seat`, and the services of `structure.py`: open, exclude, record delegates, submit,
return, expire, approve, demote, withdraw, dissolve, rotate. `seatsPerGroup` is the
trigger `wlt_check_delegate_cap`.

### Registry (RegistryProofs)

Persons, beneficiary profiles, the queue of likely matches and memberships; `form[k]` is
what a clerk's request has read. Similarity of names is a matrix over a few names
(`Resemblance`, exact only for equal names) against `FUZZY_REVIEW_THRESHOLD`. A row of
an extract takes `BeginImport` (the look for its client id), `FindMatches` (the second
look for it, and the names), `FetchProfile` (`get_or_create`, at once or just before the
save) and `LandImport` (the writes). `BeginRegister`/`LandRegister` are the registration,
`BeginJoin`/`Join` the look at the profile when a woman joins a group.

### Casework and Placement, Delivery, Intake (CasesProofs)

`Casework`: one case, its actions and pathways, statement by statement (`job[w].stage`),
with workers that `Die` between two. `shift.opened` is the case as it was created, with or
without a next action; `MovePathway` is the PATCH that sends an assignment to another case
or takes it back (`here`). `Placement` EXTENDS it with placements and
checks: the insert, each checkpoint and the PLACED mark are separate statements; an
exit locks the row it saves until it commits (`RowLocked`). `Delivery`: a course, a
venture, a milestone, a completed referral's outcome and the contact log, each written
from old copies. `Intake`: the youth register; a workbook is a sequence of rows judged
one by one against the index of what is on file and the keys claimed further up
(`SeenBefore`, `RowStatus`), with POST and PATCH next to it.

### Policy (CasesProofs), Readiness and Dashboard (ViewsProofs)

`Policy`: parameter rows dated by administrators, both readers of them (`ResolveKey`,
`SetValue`), and the versions that decisions mint or reuse while the rows move.
`Readiness`: the figures of one savings group over dated rows (meetings, stays, bylaws,
loans), the gates P1 to P2 and P2 to P3, risk reasons, the nightly status, and the
cards and SQL views that count the same again. `Rule` holds the rules at the group's
kebele, `study.global` those that card FC-3 and the views read, which differ where the
place has its own. `BylawOn(d, other)` is `bylaw_on(d) or other`, of which the second half
counts for days before the first version; `Windows` are the sets of meetings that "the
last n" may mean when two are of one day; `Miscount` is a close refused for its till, whose
flag (`Kept`) the nightly refresh leaves alone. `Dashboard`: the youth programme's
cards, cuts, series, funnel, retention and queues after every step of the rows below.

### Accounts (RegistryProofs)

`account[a]`, their `emails`, partners `firm`, cases `dossier`, and the request of a
desk. `Access` is `ACCESS_MATRIX` with the flags of the user; each list of the API is
the operator of its name (`scoped_referrals`, `scoped_bases_referrals`,
`scoped_cases`, `scoped_groups`, `scoped_grievances`, the pickers, the caseloads).
`LookMail`/`WriteMail` is an address saved row by row, `Climb` and `Depth` the two ways
the code walks the tree of places.

## 4. The runs

| Run | Instance | States | Shows |
|---|---|---|---|
| `core_stack` | 3 referrals, 2 workers, 1 case, cap 2 | 714,375 | stale copies never replace a referral twice, lose it from its stack, erase a pairing or leave the life cycle |
| `core_serial` | 3 referrals, 1 worker and the sweep, two categories, one exempt | 637,480 | one request at a time: the cap and the shared group hold to the letter |
| `core_live` | 2 referrals, 2 workers, PATCH included | | every request is answered although it may wait for a lock held by a worker that dies |
| `nightly` | `AlertInbox` and `LinkageMC` under fairness | 217,080 | an alert raised after its condition has gone still leaves the inbox; a group with a linkage in distress is shown in distress, although the cure of its association's takes the flag away |
| `groups` | `LinkageMC`, `GroupLedger`, `Assembly`, `Registry`, `Accounts` | 774,032 | four eyes, approvals and exposure; tills and loans; phases, trails and seats; matches and signatures; accounts and screens |
| `cases` | `Placement`, `Grievance`, `Delivery`, `Intake`, `Policy` | 1,799,868 | pathways, summaries, follow-up; complaints and deadlines; one story per row; nobody lost or twice on file by an import; decisions explained by their rules |
| `views` | `AlertInbox`, `Dashboard`, `ReadinessMC` | 784,214 | one open alert and right closes; figures that agree with each other and with the gates |

`GroupsMC`, `CasesMC`, `ViewsMC` and `NightlyMC` are products of modules that share no
variable. A behaviour moves one of them, chosen at the start; the others stay in an
initial state. An invariant or a step property of one part holds in the product
exactly if it holds of the part alone, so the product is a way to check several
modules in one run and no statement about their interaction. Modules that do
interact are composed by EXTENDS (`AlertInbox` over `ReferralLifecycle`, `Placement`
over `Casework`, `Assembly` over `GroupLife`).

**Bounds.** Rows (`Referral`, `Alert`, `Linkage`, `Loan`, `MeetingCap`, `EntryCap`,
`TrailCap`, `ClaCap`, `ActionCap`, `PathwayCap`, `PlacementCap`, `RecordCap`,
`YouthCap`, `SlipCap`, …) are the number ever created; a guard stops at the bound. Two
actors suffice for every two-sided race on a row; a third adds only repetitions, and
most theorems cover any number. Three referrals give a chain of two links, or a pair
with a third confirmation against a cap of two; a linkage of a group and one of its
association let the cure of one take away the flag of the other (`Pair`, and `Shared` of
the nightly run; the other scenarios of `LinkageMC` have one linkage, with one request
at a time in `Lone`, two in `Deciding` and `Living`); two meetings and four lines let a
second meeting open with what the first counted; three pathways give a chain with a
middle; three phase events a promotion, a retreat and a promotion again; two groups in
two associations a withdrawal and a return; four accounts each kind of reader next to
the one who edits. Rows run out and terminal statuses are final: the product runs and
`dormancy` switch deadlock checking off. Symmetry is used in safety runs, for referrals,
workers, alerts, and the slots of linkages and obligations, never in liveness runs.
Every property has a mutant in `PROJECT.json`, a plausible slip in one definition, that
makes it fail.

**Disagreements with a run** (`findings`):

* `core_cap_race`: two confirmations of different referrals of a case lock only their
  own row, and three referrals run under a cap of two. The comment above the lock gives
  this very scenario as the one prevented.
* `core_sweep_race`: a referral confirmed after the sweep fetched its list is failed as
  unanswered, since Active to Failed is a legal edge.
* `core_patch_race`: a PATCH of the notes that overlaps a confirmation writes the old
  status back.
* `linkage_levels`: a level that returned a linkage keeps that decision, so when the
  linkage is submitted again it is approved without that level.
* `dormancy`: a group that stops meeting becomes AT_RISK before it is dormant by the
  clock, and only an ACTIVE group is moved to DORMANT.

**Fairness.** `FairSpec` assumes strong fairness of the steps of a request that has
been started (`Work(w)`): PostgreSQL grants a row lock to waiters in turn, so a
request that could get it again and again does. Nothing forces a request to begin, the
sweep to run or a worker to stay alive. `InboxFairSpec` assumes that Beat starts the
clearing sweep (every four hours in `config/settings/base.py`), that a job takes its
next step, and that workers do not die at the same alert in every run for ever: strong
fairness of fetching, of each alert's re-check, and of the update. `NightlyFairness`
assumes weak fairness of the two steps of the nightly refresh, for each group: it is in
the beat schedule and loops over all groups. `NightlySpec` assumes both, for whichever
part moves. Detection jobs and people need no fairness; the other specifications
state none.

## 5. What is proved

The proofs are for every value of the constants: any number of rows, workers, officers
and days, any calendar, any workbook, any scenario. Assumptions are named in the
module that declares the constants and evaluated by TLC in every run: finiteness
where cardinalities are taken, the null outside the sets, bounds that are natural
numbers. Three say more: `RegistryAssumption` that names resemble each other wholly only
when equal; `HorizonAssumption` (section 3); and `ReadinessAssumption` that the floor of
dormancy is at least two of the longest cadence, as the shipped 60 days are.

A property's own conditions ("one request at a time", "no copies saved") are part of
its definition, through the scenario of the behaviour; they are where the code is
known to fail otherwise (the list at the end of section 7). `ReferralEngineProofs`
assumes `"edit" \notin Ops` except for the types, because `core_patch_race` refutes
the rest.

**`ReferralEngineProofs`.**

* `EngineTypes` from `TypeInv`: types, and a busy worker has a referral.
* `EngineCap`. The cap alone is not inductive: two workers that have passed the
  check have not yet changed a row. The invariant `CapFor` counts, for each case,
  active referrals plus confirmations on their way (`Deciding`). A confirmation
  enters when fewer than `MaxParallel` siblings are active and at most the other
  workers are on their way; committing moves one unit from one term to the other.
  `EngineExactCap` is the case of one worker.
* `EngineReplacement`, `EngineLocks`, `EngineImplementsLifecycle` share one
  invariant, `TypeInv /\ CopiesCurrent /\ LocksHeld /\ ReplacementExact`. A save
  writes columns from a copy, so "links agree" is inductive only with "a copy
  differs from its row in re-read columns at most" (`CopiesCurrent`); that a
  confirmation may save its decision rests on "its referral is still pending"
  (`LocksHeld`). `RowsStep` classifies once what a step may do to rows (insert,
  move one row, replace, stamp siblings), and each conjunct is proved against
  these four. The refinement maps initial states to initial states and each of the
  four to a step of `ReferralLifecycle` or a stutter.
* `EngineStack`. `MadeInOrder`: the referrals can be numbered in the order they were
  made, all numbers below the count of those that exist, with a parent of the same
  case before its child. `OrderReaches` walks the numbering, so each referral is
  reached from a root however deep its chain.
* `EnginePairing` from `PairedLate` (a copy that lacks a group is of a row that lacks
  one, or its save leaves the group alone). `EngineGroups`, for one worker, from
  `GroupAgreed`: what a confirmation has decided fits the siblings it stamps, which
  nobody else moves.

**`ViewsProofs`.**

* `InboxTypes`, and `InboxShowsOnce`: only the insert opens an alert, and the index
  looks at the committed rows in the same step.
* `InboxSweepRight`. The sweep's decision is old when it writes. The conditions on a
  referral's standing go one way, from not yet, through holding, to gone for good,
  because statuses follow the life cycle; and what a job has fetched, or an alert
  names, has begun. So a condition found false after it began is false for ever.
  `Begun` and `Spent` name the two ends; `InboxInvariant` says that everything held
  has begun and what is about to be closed is spent; `StandingAges` is the one-way
  argument.

* A figure is a fold over a set, a sum or a count by comprehension, and the library
  states no fact of such folds. Here they are proved once: adding elements one by one
  in any order gives the same sum (`Adds`, `AddsStep`), hence classes that split a set
  add up to it (`AddsClasses`), classes without a row add nothing (`AddsZeros`), and a
  sum of natural numbers grows with its set (`AddsGrow`).
* `DashboardSound`: a referral is of a case that was opened, is dated as far as it has
  come and no further, and a youth who left a job has no check pending. From it
  `FiguresAreOne` (cards, cuts by place and trait, the series at its last day and the
  funnel with its losses), `RetentionAgrees`, and `StandardIsOne`: alert,
  queue and indicator measure from one date, which no request changes.
* `ReadinessSound`: versions of the bylaws follow each other without a gap, so that a day
  has at most one, and has one from the first version on (`BylawsSound`); meetings of one
  day are told apart (`MeetingsSound`); a group that never met has lent nothing and nothing
  puts it at risk (`QuietSound`). `ThePastStands`: joins and exits are dated today
  or later, so whom an earlier meeting expected stands; a later version ends the one
  before it and covers no new day before its own, so what a covered meeting asked moves
  only with a version dated back, and one that no version covers asks what today's does.
  `AtRiskIsTold`: a group shown AT_RISK with no reason would have to be dormant, and a
  dormant group has missed two meetings, because the floor is two of the longest cadence;
  the flag of a till is cleared by a meeting that closes and by nothing else.
  `DefinitionIsOne`: the cards, the views and the service count the same rows, in sums
  taken apart in different orders, for any rules of the place and of the programme: each
  figure that only the service reads at the place agrees where the place has no value of
  its own for that parameter, attendance where the window of meetings is one set
  (`WeeksAgree`, `LateAgrees`), and the bins where they stand at the gates.

**`LinkageProofs`.** `Known` (types, and the levels a copy can have been decided on)
gives `LinkageTypes` and `LinkageFourEyes`. `LinkageApproval`: every approved row, and
every approved copy in flight, is of a linkage whose levels of the type are all decided,
and so is a request that found none left to decide when it signed; levels of the type
are only ever decided, and an override adds none of them, so what was found stays true
until the commit. The level of an override may come after the look; it is waited for
where requests come one at a time. `LinkageExposure` rests on `OneByOne`: one request at
most, its copy is the row, and row and register agree after every handler, unless a
form says itself that something is outstanding.

**`GrievanceProofs`.** `GrievanceInv` (files sound, copies are past rows) gives
`GrievanceAnswers`, whose property `AnswerBeforeShut` is proved rather than run,
`GrievanceHeardOnce` and `GrievanceFinishedStays`. The clock is a second part: with
`Wd(d)` the working days up to `d`, an interval's answer is a difference of `Wd`, so
intervals add up; `AddedDays` shows that `add_working_days` stops, on a working day.
Then every row and every copy has a deadline it computed (`Clocked`,
`GrievanceDeadlines`), from which `GrievanceQueueAgrees` and `GrievanceWaitIsFree`.

**`LedgerProofs`.** `LedgerBooks`: types, lines only of held meetings, requests that
fit. `LedgerTillReconciles` follows from the trigger under that invariant.
`LoansStand` and `BackAsBooked` (what a loan has had back is the sum of its lines)
give `LedgerLoanStanding` and `LedgerRepaymentsBooked`. `OrderlyTill` gives
`LedgerTillCarries`: in a session of one request at a time and one open meeting, the
book's balance is the sum over its meetings, which needs sums to distribute over the
lines, by induction over positions (`NatSteps`).

**`AssemblyProofs`.** `LifeSound`: every row, and every copy a request holds, bears a
phase only while operating and an earned one only with an approval behind it, and
`TrailGrows`: decided events never change. Hence `AssemblyPhaseIsEarned`. `SeatsHold`
adds that a submitted formation names delegates for each included group, for
`AssemblySeats`. `StoryTold` relates phase, last decision and the request under way,
for `AssemblyTrail`; an association's decisions, appended at once, count as later
than all before.

**`RegistryProofs`.** `RegistryInvariant`: persons come before what refers to them,
copies keep signatures, and `RowsExplained`: each profile's particulars come from a
woman of that name, through a confirmed match, or, where requests overlap, from a row
with a client id. `RegistryAsksFirst`, `RegistrySigns` and both together: for a row
without a client id whatever overlaps, for one with an id one request at a time.
`AccountsStandUp` follows from `AccountsSound`: a desk that holds a copy holds a whole
row that was valid when it was read, and mails obey the index after every write.
`AccountsSeeAlike`, lists and permissions agree, from the rows of the matrix and, for
facilitators and officers, from the tree: the walk to the root and the count of joins
reach the same places on four levels (`FourLevels`).

**`CasesProofs`.**

* `DeliverySound`: every request's copy is one its row has told (`CopiesTell`), the log
  only grows, what is placed stays; hence `DeliveryOneStory`.
* `IntakeOnFileOnce`: `SeenBefore` of a workbook's rows is treated by induction over
  the rows (`SeenGrows`, `NewIsSeen`, `NewApart`); rows written are apart from each
  other and from what was on file (`NewRowsOnce`).
* `PlacementSound` is one invariant of `Casework` and `Placement`: what each statement
  of a request may rely on (`CaseJobs`), the chain of pathways (`ChainHolds`), copies
  (`CopyFits`), the summary at rest (`CaseSettled`), visits and checks (`VisitFits`,
  `ChecksFit`). `CasePathwayChain`, `CaseSummaryFollows` and `PlacementFollowedUp` are
  its consequences. Where an assignment may change cases the chain is only that of the
  index, never two current; and until a first action is made the summary may be the one
  the case was created with.
* `PolicyRulesOfTheDay`. The two readers of the thresholds agree for any chain of
  places: both rank a row by the first position its place has in the chain
  (`FirstIs`, `RankOf`), and prefer the later start (`ReadersAgree`). `DaysStand`
  keeps what a day gone by read; an added, ended or rewritten row of an orderly
  regime starts or ends after it (`Alike`, `RowsLeaveDays`).
* `PolicyVersionsTell` from `VersionsSound`: a version is for everybody, for nobody, or
  for a decision that stands between writing it and its end (`CallTrue`), and then
  holds what that decision was measured by; and from `Sole`, for a regime of one
  decision at a time: only the last version can be somebody's, so a decision sees all
  that are left (`SeesAll`), and mints only what the latest does not say
  (`MintChanges`).

**What the proofs changed in the models.** A request of `Placement` had no type until
the proof asked for one; `NextNumber` in `GroupLedger` was the maximum of a set that may
be empty; the calendar of `Grievance` may be too short for a deadline
(`HorizonAssumption`); the delegate cap of the database was missing in `Assembly`;
several sets had to be finite. A version of `Policy` was seen by a set of deciders,
which with one decider could not tell a version that is committed from one that is not:
it is now somebody's, everybody's or nobody's (`of`). `Accounts` started from any rows
at all and let a form hold any column; its null place was not kept apart from cases and
circles. In `Dashboard` youths and checkpoints had to be finite, and the null district
apart from the youths. In `Readiness` a study could end after the calendar, members
could be infinitely many, and nothing tied the bins of the cards to the gates (now a
condition of `CardsMatchGates`). Conjectures that TLC refuted on the way: a copy of a
linkage equals its row in its exposure (only one request at a time does), a decided
event stays the last of its group (an association decides several at once).

## 6. What is only model-checked

Liveness: `RequestsFinish`, `ClearedAlertsClose`, `DistressShown`. Every safety property
of a passing run is the conclusion of a theorem.

Proved only, and no longer in a run: `TypeOK`, `CopiesCurrent`, `LocksHeld`, `CapBound`,
`InboxTypeOK`, `LinkageTypeOK`, `LedgerTypeOK`, `AnswerBeforeShut`, `Clocked`, which a
run evaluated before they were proved. `DashboardTypeOK` and `ReadinessTypeOK` are
defined, were checked by TLC on the instances above, and are in no run.

Outside the prover: liveness and fairness, ENABLED, recursive operators, and induction
theorems that take an operator as a parameter. Induction over natural numbers does
work when it is stated of a set (a subset of Nat that contains 0 and successors is
Nat): `NatSteps` in `LedgerProofs` and its like prove sums over sequences, walks along
chains, and the rows of a workbook one after the other.

## 7. What is not modelled, and why

* The web client and the deployment, from which only the number of workers, the
  isolation level and the beat schedule are taken.
* Passwords, tokens and sign-in; the admin's forms other than those of policy; the
  loading of places and of the taxonomy, which are constants.
* Journey and history, which list rows and decide nothing; the cards of placement
  coverage and cohorts; certificates, courses, mentoring, subsidies, documents and
  consent texts; deletion of rows (refused by the API for most).
* Attendance, charges other than a loan's, the bank and the social fund in
  `GroupLedger`, whose lines no rule modelled there reads; meetings with their attendance
  are in `Readiness`.
* Deletion of a linkage and a PATCH of its type or provider.
* Referrals about groups, and what a dissolution does to linkages: section 2.

Hazards met and not in the list of `PROJECT.json`, because a listed one is of the same
kind and worse: a referral's alert dismissed for one night only; a placement recorded on
a case that has exited; the same referral followed up twice; `assign`'s stale save; a
disbursement next to a stale copy of its case.

### Disagreements met without a run

Each is in the behaviours of a model, or in code the models abstract; paths are below
`src/backend/apps`.

* **Referrals.** A completion that loaded its copy before a confirmation committed sets
  the partner's answer back to Pending; two first confirmations at once leave both
  referrals without a group; PATCH may move an active referral to another case or
  category regardless of the cap; the sweep overwrites a dismissal given after it
  fetched the alert; a training's onward prompt is closed by every sweep and raised
  again by the next detection. (The timeline's comment in the web client calls a third
  slot "overlapped in a way the cap should have prevented", but pending referrals
  overlap freely: the cap counts Active ones.)
* **Casework, placements.** A PATCH may send an assignment to another case
  (`cases/serializers.py:279`, `:296-304`): the old case is left without a current
  pathway, and its pointer names an assignment that is not its own. A blank
  `next_action` in a PATCH leaves actions open; PATCH of an action never syncs the
  summary; a case created with a next action gets no `CaseAction`
  (`cases/serializers.py:77`, `views.py:61`), though `perform_update` makes one of every
  new next action; full saves of old copies make `cases/models.py:122-125` ("revise() is
  the only writer … cannot silently disagree") untrue; creating a pathway or a placement
  is not atomic; a placement on an exited case leaves its closing date; PATCH of a
  placement's date does not move its checks, and PATCH from an old copy erases an exit;
  an exit racing an answer overwrites it.
* **Deliveries.** SELF_REPORTED after an external verification leaves the verifier set,
  though the docstring says source, verifier and method cannot disagree; a disbursement
  or a trading record is accepted on a closed enterprise; a plan can be revised after
  its disbursement; stale full saves erase a disbursement while the case stays PLACED;
  milestone status CANCELLED and `TrainingEnrolment.onward_referral` are never set.
* **Youth intake.** `_keys` says the ID is definitive where a register carries one, but
  both keys are always used, so two youths with different IDs and one name and birth
  date are taken for one; POST makes no duplicate check; two imports at once can
  duplicate; the preview is what a commit does only if the register has not moved.
* **Grievances.** A pause resumed on a rest day costs a day; `decided()` filters a blank
  CharField by null, so the overturn rate counts every appeal; the appeal window runs
  from the resolution, not the closing; a close with an old copy writes today's date; a
  resume with an old copy loses the extension; tier is writable by PATCH; any PATCH
  recomputes the deadline and erases a pause's extension (`models.py:741-752`: "A
  deliberate adjustment has to survive a save that was not about the deadline.").
* **Linkages.** `approve` looks for levels left (`services/linkage.py:379`) and saves
  (`:390`) with no lock, so an override that commits in between adds a level that is not
  waited for; `terms` are taken as they come by proposal, activation and PATCH
  (`api/views.py:742`, `:852`, `api/serializers.py:524`), so a linkage can say something
  is outstanding that no obligation stands for, and be kept from closing by it; PATCH
  may also change the subject, and flags stay where they are. The nightly refresh clears
  a flag inherited from a federation or a blacklist (`wlt/tasks.py:50`); a single-level
  chain returned once stays PENDING_APPROVAL; an obligation recorded as settled
  overwrites the exposure, so a close is allowed with one open; cure works on an
  APPROVED linkage; RETURNED has no edge to BLOCKED; old copies can bring a REJECTED
  linkage to APPROVED; nobody clears an association's flag; a credit gate with an
  escalation passes even when the phase fails; nothing schedules
  `default_overdue_distress`.
* **Ledger.** Races post to a closed meeting, overdraw the box, pass the cap of loans,
  over-repay, or reverse a line twice; two open meetings make the expected cash wrong;
  a written-off loan can become REPAID; a stale PATCH reopens a meeting;
  `counted_cash_etb` and the group are writable by PATCH; a deposit never looks at the
  cash nor a withdrawal at the bank; a disbursement checks no membership; no duplicate
  meeting is ever recorded as a SyncConflict; every loan is of batch 1, so that the
  gate of two completed cycles (`gate.credit.min_completed_cycles`) is out of reach.
* **Groups.** `exit_member` leaves terms of office open ("Only a current member can hold
  office."); `add_member` looks at neither the group's status nor the largest size;
  `approve` asks for the gate of the phase the group is in by then; overlapping submits
  leave two pending events; an old approval after a demotion moves the phase to its old
  target; expiry next to constitution abandons a constituted group or aborts on the
  constraint, and leaves memberships; `structure.submit` and `return_event` ignore the
  event's status; approving a formation rechecks no delegate's membership;
  `rotate_delegate` accepts a closed seat; P2 to P3 needs no association, though
  `withdraw_group` says that P3 is membership of one.
* **Registry.** A client id written on a profile between the look at `enrolment.py:113` and
  the second one at `:79-83` links an imported row with that woman, whatever her name, with
  nobody asked. `import_row` merges two women of identical names in one kebele at once
  (`birth_year` never arrives), against `enrolment.py:16` "**Never auto-merge on a fuzzy
  match.**" and `:46`; an import never records the kebele, so an imported woman is in no
  pool of candidates; a rejected match is queued again by the next import; a rejected
  row's woman can never be imported; `psnp_client_id` is not unique; PATCH saves an old
  verification and can move `person`; nothing calls `resolve_match`.
* **Policy.** `phase.py:116,206` and `structure.py:231` use the global rules while the
  gate used the kebele's; decisions in two kebeles in turn mint a version each although
  nothing changed; reading readiness mints versions; `gates.py` holds literals for the
  association gate while keys that exist are never read, and `programme.py` reads
  `gate.p2.weeks_since_p1`, which does not exist.
* **Indicators and dashboards.** The bins of the cards are literals while the gates are
  parameters, so after a change of a gate a group can be on the wrong side of a card's
  line; PAR30 is rounded, so a small share passes a limit of 0; backdated bylaws rewrite
  the past, and so does any bylaw for meetings that none covers (`bylaw_on(held_on) or
  bylaw`, `indicators.py:197`), against `indicators.py:15`; card FC-3
  (`facilitator.py:172`) and the views (`migrations/0004_reporting_views.py:47-62`) read
  the global rules where the service reads the kebele's, so with a rule of the place's
  own they part; two meetings of one day are in no fixed order, and at the edge of the
  window the service and the view may take different ones; an ACTIVE group may carry the
  flag of a till that did not balance, which the nightly refresh leaves
  (`tasks.py:46-52`); `OneStandard` takes an answer to be entered on the day it names
  (`confirmed_date`); `is_dormant` ignores `as_of`; the fund leaves out the social fund
  that the trigger counts; closing a meeting recomputes nothing, though `tasks.py` says
  so; the weeks "since P1" run from the entry to P2, because `approve` overwrites
  `phase_entered_on`; phase events that were rejected count as entries; activation
  writes no phase event, so a group activated is neither eligible nor not yet;
  attendance can exceed 100 % for a member who exits on a meeting's day; default is at
  `>=` where PAR30 is at `>`; retention counts UNREACHABLE as a loss;
  `service_start_date` is written by no code; `reporting.py:11-13` names a test that
  does not exist.
* **Users.** Addresses given when an account is created are dropped; a refused address
  leaves the rest of the PATCH saved; `wlt_scope_location` is written by no screen although
  an officer without one is refused by `User.clean`; the admin's change form names fields
  that do not exist; swapping two addresses fails; a stale PATCH undoes a change of role
  or status; a case whose manager changed role cannot be edited until it is reassigned;
  a draft accepts a facilitator the picker does not offer; a partner's standing is
  writable by no screen; a suspended account may still PATCH itself.
