# Formal models of NeroClubTelegramBot

This directory holds TLA+ models of the club's backend (`src/app`), of the
services it drives (Telegram, the WordPress plugin, the licence service) and of
the sheet that operates it, the TLC configurations that check them on small
instances, and proofs checked by TLAPS. Line numbers refer to the repository's
source under `src/`. `PROJECT.json` maps every definition to the lines it
models and lists the hazards, the runs and the theorems.

## The system

A FastAPI backend with one SQLite file decides who may be in a paid Telegram
club. Administrators work in a Google sheet; a scheduler process calls the
backend's jobs; Telegram calls its webhook.

| Component | State | Operations | Talks to | Module |
| --- | --- | --- | --- | --- |
| Payment ledger (`app/sheets.py`, `app/main.py:236-262`) | `inbox_events`, `sheet_payment_results`, `sheet_payment_baselines`, `subscriptions`, `sheets_payment_corrections` | process a row, correct, delete, create a user, import balances, upgrade | sheet script; queues `telegram.invite` | `SheetPayments` |
| Access rule (`app/access.py:19-27`) | none | `effective_access` | asked by everything below | `Access` |
| Sheet commands (`app/access.py:75-187`) | `users`, `sheets_commands`, `outbox_jobs` | allow, deny, (un)whitelist, extend, restore, invite, site commands | sheet script | `Membership`, `Invites`, `Resources` |
| Reconciliation (`app/membership.py:266-350`) | `telegram_removal_warnings`, `users` | warn the administrators, remove a day later, per chat | Telegram | `Membership` |
| Restores (`app/membership.py:353-429`) | `outbox_jobs`, `telegram_banned` | unban, send new links | Telegram | `Membership` |
| chat_member updates (`app/telegram_updates.py:385-456`) | `users` | record the status, tell a manual ban from the bot's own, queue site and licence jobs | Telegram | `Membership`, `Resources` |
| Invites (`app/membership.py:21-54, 110-263`) | `telegram_invites`, `outbox_jobs` | make links, answer join requests, revoke expired links | Telegram | `Invites` |
| Club resources (`app/site_access.py`, `app/club_access.py`, `app/integrations/`) | `outbox_jobs`, `users` | licence jobs, site jobs, `/site-access` | licence service, WordPress | `Resources` |
| WordPress plugin (`wordpress-plugin/`) | accounts, answers by idempotency key | create, block, open | backend | `Resources` |
| Licence server extension (`server_extension/`) | `licences`, `club_vip_grants` | provision, suspend, restore | backend | `ClubLicences` |
| Application keys (`app/keys.py`, `app/integrations/club_licenses.py`) | `app_keys` | show, issue, revoke, synchronise | sheet script, licence service | `ClubLicences` |
| Sheet script (`google-apps-script/SheetsSync.gs`) | the tabs | name rows, send rows, commands and forms, rewrite the tabs | backend | `SheetScript` |
| Scheduler (`app/scheduler.py`) and the write lock (`app/db.py`) | time of the last call of each job | calls seven jobs in turn | backend | `JobRuns` |
| Stripe (`app/stripe_*.py`, `app/webhooks.py`) | `inbox_events`, `subscriptions` | webhook, events, checkout | Stripe | `Subscriptions` |
| Reminders (`app/reminders.py`) | `notifications` | remind before the end of a term | Telegram | `Subscriptions` |
| Support chat, menu, dashboard, whitelist import, flags, tools | small | | | none |

### What is hard about it

* **One write lock, held across awaits.** Each request has a connection; its
  transaction begins at the first write and ends when the handler returns
  (`app/db.py:21-34`). A job that writes and then awaits Telegram keeps every
  other writer out meanwhile; what it read before its first write may be stale.
  A waiting writer blocks the event loop, so the holder cannot go on until the
  30 seconds are over: both sides see a failed request now and then.
* **Effects outside the transaction.** A ban, a link, an account exist before
  the row that explains them is committed. A restart or an exception in
  between undoes the rows and leaves the effect.
* **Telegram and WordPress answer late, twice or not at all.** A call that
  timed out may have worked; an update is repeated until acknowledged.
* **Several writers of one fact.** `telegram_banned`, its source and
  `telegram_membership_status` are written by updates, by the reconciliation,
  by the restore worker, by commands and by join approvals.
* **A ledger that can be corrected.** Payments come row by row and again;
  deletions replay the terms; imports set balances at any time.
* **Runs nobody waits for.** The scheduler gives a request up after 30 seconds
  and calls again, the bot gives the licence server up after 20, the sheet
  script is cut off or loses an answer; what was asked goes on all the same,
  beside the next attempt.
* **A spreadsheet as a form.** Executions of the script overlap each other and
  the operator's typing, find their rows by number, and rewrite the tabs.

## The modules

```
Calendar <- SheetPayments <- SheetPaymentsProofs      MCSheetPayments
Access   <- Membership    <- MembershipProofs         MCMembership
Access   <- Invites       <- InvitesProofs            MCInvites
            Resources     <- ResourcesProofs          MCResources
            ClubLicences  <- ClubLicencesProofs       MCClubLicences
CreditOnce  ~ SheetScript <- SheetScriptProofs        MCSheetScript
Outbox      ~ JobRuns     <- JobRunsProofs            MCJobRuns
Outbox      ~ Subscriptions <- SubscriptionsProofs    MCSubscriptions
```

`A ~ B`: the abstract specification A, which B implements (`INSTANCE ... WITH`).

The components meet in the database. Each module carries the tables it owns
and, for the others' tables, the steps by which their handlers touch them:
`Pay` and `Expire` stand for the ledger in `Membership`; `Approved`,
`BotRemoves`, `BanLifted` and `Reconcile` for the invites and the membership in
`Resources`; `RestoreLink` for the restore worker in `Invites`. `Switch` in
`ClubLicences` is the call that a licence job of `Resources` makes. `JobRuns`
looks at the outbox alone, with the overlapping runs that `Membership`,
`Invites` and `Resources` leave out, for the jobs whose runs call somebody
(restores, invites, site and licence jobs); those of process-stripe, which
calls nobody, overlap in `Subscriptions`. `SheetScript` has the bot's answer to
a payment row in one step, as `SheetPayments` shows it to be.

### Calendar, SheetPayments

A date is a number (31 per month, so that order is kept), which makes
`AddCalendarMonth` (`app/sheets.py:74-78`) plain arithmetic with the clamp at
month ends. `SheetPayments` has one action per operation: `ProcessSheetPayment`
= `ExtendTerm` or `RejectRow` (92-212), `CheckCorrection`, `WriteCorrection`
and `DropCorrection` (226-312: the handler checks and reads before its first
write takes the lock, so others commit in between), `Delete` (338-403, with the
replay of the terms as the function `Replay`), `CreateSheetUser` (315-335),
`ImportUser` (535-581). Processing, deletion and the creation of a user take
the lock first (`BEGIN IMMEDIATE`) and are one step. An import takes it at its
first write, and is one step too: before that it has read no more than whether
the user has a row. The three `SELECT`s of a correction are one step
(`CheckCorrection`); no property tells the difference. `Init` is a new
installation, the member known or not, or one upgraded from the older schema,
whose baselines are guessed from its subscriptions. `newest` records which
subscription row has the largest id, as access reads that one only.

### Access, Membership

`EffectiveAccess` is the rule of `access.py:19-27`; the paid term is a flag
that `Pay` and `Expire` change. In `Membership` the reconciliation is modelled
await by await (`StartRun` reads the rows, `AskTelegram`, `TelegramAnswers`,
then `KeepUser`, `LetAlone`, `AskAdmins` or `DecideRemoval`, then the alert or
the ban), and so is the restore worker. `db` is what is committed, `work` what
the holder of the lock sees, `holder` who that is. The decision uses the rows
read at the start of the run and the subscription read before `getChatMember`,
as the code does; the two reads of the restore worker just before its first
write are merged with that write (`TakeRestore`). Administrators are configured
(`ADMIN_TELEGRAM_IDS`): without any, nobody is warned and so nobody is removed
(`membership.py:91-92`), which the model leaves out and `LapsedMemberLeaves`
assumes not to be the case. A failed call is a separate action, one that worked
without an answer another (`BanUnconfirmed`). `Deliver` is the webhook for
chat_member updates; `Decide` and `RestoreCommand` are the sheet's commands,
the second in two steps because `upsert` reads before it writes. `Crash` drops
every run and the uncommitted transaction and leaves Telegram as it is. Days
are `today` and `earlier`: `Midnight` turns one into the other.

### Invites

The worker (`TakeJob`, `AskMember`, `CreateLink`, `SendLinks`, `InviteRefused`,
`InvitesAbort`), the webhook for join requests (`TakeRequest` claims the update
in the inbox, then `Approve` or `Decline` waits for Telegram), the revoking
worker and the administrator's endpoint. Links, members and open requests are
Telegram's side. A request may come from anyone who holds a link. `Forget` is
Telegram giving an update up. The write of `telegram_membership_status` by an
approval (`membership.py:219-222`) is `Approved` in `Resources`, which is where
somebody reads it.

### Resources

The hourly request works off the club.access jobs and then the site jobs in
one transaction (`main.py:508-529`); every job asks Telegram again before it
acts, await by await: `CheckClub` reads the row, `ClubAnswer` is
`refresh_club_member` after its await and writes, then the licence service is
called; `CheckSite` and `SiteAnswer` are the same for a site job. The
transaction begins with the first write, so the first job of a run asks
*without the lock*: whatever is recorded meanwhile is overtaken (`late`
remembers that), and every later job of the run asks under it.
`/site-access` is a second holder of the lock (`ask`). WordPress keeps an
answer per idempotency key (`replay`): a repeated key is answered without
doing anything. Only pending jobs are kept; a finished one is never looked at
again, and a key is once-only (`Queued`). The daily reconciliation reads its
rows first (`seen`, with what they said) and handles one member per step: only
its effect on these tables is here. A restore that was ordered twice lifts the
ban, and then the second job, or the command it overtook, writes it again, at
any later time and without a job for the licences (`BanLifted`, `BannedAgain`;
`membership.py:418`, `access.py:148`). `second` holds those for whom that is
still to come, `silent` those whose ban changed without a job while they were
in the group.

### ClubLicences

The tables of the licence server and of the bot. A request of the server is
one step, as `club_vip.py:32` takes an advisory lock for its owner: `Suspend`,
`Restore`, and `Provision` with the licences it adopts (`Adopted`), generates
(`new`) or leaves alone because an older one is on record (`Historic`).
`ensure_keys` is `Ask`, then `Serve` or not, then `ReadAnswer` or
`RefuseAnswer`; the handler holds the write lock meanwhile, so operators wait
(`line = Idle`). A request the bot gave up is served later (`late`), or never.
`ReadAnswer` keeps its rows or, when a restart undoes the transaction, has
sent the message without them. `byHand` remembers what administrators stopped.

### SheetScript, CreditOnce

An execution of `syncPaymentsAndRefresh_` request by request: `ReadPayments`,
`Mark` (the names are written to the line *numbers* that were read),
`SendPayments`, `ReadCommand`, `NameCommand`, `PostCommand`, then the tabs are
fetched and rewritten (`GetUsers`, `WriteUsers`, `WritePayments`). `Fails`
ends it anywhere. A payment is a value; its line carries whether it is
complete and the name it was given. A payment in `Referenced` has a provider
reference and is pasted in one go. `SubmitPayment` is the form of the panel,
whose every click makes a new name (`SheetsSync.gs:277`). `CreditOnce` is the
promise of `START-HERE.ru.md:60-62`: what was entered is credited under one
name, once.

### JobRuns, Outbox

The scheduler goes through its table (`turn`), calls what is `due`, and gives
up (`GiveUp`) without the run's noticing. A run takes the oldest pending jobs
of its kind. Those in `LockFirst` (restores) are written to before the first
call, so the run holds the lock from then on; the others write after the call
(invites, site and licence jobs). A run that wants the lock while another has
it waits *inside* the event loop (`blocked`), which stops the holder as well,
until the wait times out (`LockTimeout`) or a thread lets go. Kinds in `Kept`
(licence jobs) stay pending when they fail. `Outbox` is the promise of a job
row: queued, then ended once.

### Subscriptions

`PAYMENT_SOURCE=stripe`. Stripe's events happen in one order and reach the
webhook in any, repeatedly. The hourly job is a thread of its own and two runs
may overlap (`main.py:497-502`). `StartStripe` reads the list, the oldest
`Window` pending jobs, without a lock, and looks the first row up; `ApplyStripe`
is everything after the first write took the lock: every job of the list is
applied (`Apply`, in the order of the ids) and ended, whatever its status is by
then, as the `UPDATE`s do not ask (`stripe_events.py:112, 117`). `AbortStripe`
is a run that ends with an exception. `again` remembers that a run applied an
event another run had ended. `Outbox` is the promise for each event, as long
as that has not happened (`AppliedOnce`).

What a row is compared with is a status and a *period*: the end of the last
period that Stripe named. That is not "paid until": an invoice that failed
names a period as well, `stripe_events.py:87` stores it, and the model has it
on both sides. See "Behaviour worth knowing". Of the updates of a subscription
only its completion is there (`SubscriptionChanges`).

The daily reminders read the term, send, and note the key in a transaction
that ends with the run; runs overlap when the scheduler gave one up. The two
share the rows and nothing else, which is why they are one module: a reminder
goes by the newest row that the events made.

## What the runs check

| Run | Instance | What it shows | States |
| --- | --- | --- | --- |
| `sheet_payments` | 1 member, 3 payments, 1 provider id, 2 payment dates (15 January and 31 March), 1 imported balance (31 January), 2 corrections or deletions, 1 import | the inbox and the results agree; no provider payment is credited twice unless a correction wrote the id; the term is what the ledger says and what a replay computes; deletions do not extend and are final | 338 thousand |
| `membership` | 1 member, group, deny, 1 update under way, updates in any order, 2 restore jobs | a manual ban goes back to an update about an administrator; only a finished restore job lifts it, also when two jobs or a command and a job overtake each other; a deny is not undone by a restore under way | 1.6 million |
| `membership_channel` | 1 member, group and channel, 1 restart, failed and lost calls | removals are announced a day earlier, across the restart, and the two chats' warnings are kept apart inside one transaction | 2.9 million |
| `membership_progress` | 1 member, group, 1 restart, `FairSpec` | a member without access leaves | 36 thousand |
| `invites` | 1 member, 1 stranger, 1 job, 2 links, 2 requests, 1 restart, deny | only the owner of a link gets in, not after a deny, and not through a link whose use is on record; a finished job left its owner links the webhook knows | 1.6 million |
| `resources` | 1 member, all five commands, 3 pending jobs (1 of them a command's), 1 update under way, 1 failure, restart or restore ordered twice | licences follow the group and the row, but for bans lifted or put back without a job; nothing is opened for a barred member except by the operator's own site command and by a run that asked Telegram before it held the lock | 5.6 million |
| `resources_progress` | the same without commands, `FairSpec` | the account follows the group in the end | 655 thousand |
| `club_licences` | 2 members, 1 product, 2 licence ids, 1 request that outlives its caller | one licence per member and product through lost answers and late requests; what administrators stopped stays stopped; keys of the bot are managed grants; a revoked key is not issued again by asking; no key is shown that the server did not vouch for | 654 thousand |
| `sheet_script` | 2 payments, one with a reference, 1 command, 2 executions at a time, 3 in all, 5 lines | `SheetScript` implements `CreditOnce` | 2.0 million |
| `job_runs` | 3 jobs of 2 kinds, window of 1, 2 runs at a time, 1 restart or aborted run, `FairSpec` | a restore is carried out once and once more per fault; `JobRuns` implements `Outbox` for restores; every job ends | 102 thousand |
| `subscriptions` | 2 subscriptions, 3 events, terms of 2 and 3 days, a lead of 1, 2 runs of the hourly job and 2 of the reminders, 1 fault | events in order, however repeated, make the rows what Stripe says, with one invite per paid invoice, unless an overlapping run applied one again; reminders repeat once per overlap, abort or restart at most | 4.6 million |

One run ends in a counterexample, on a statement of the repository's
documentation:

| Run | The document says | The code does |
| --- | --- | --- |
| `second_command_lost` | set the action in the row of the user (`README.md:82`) | the tab is rewritten with the `command_id` of the last command, the script names only rows without one, and the bot takes the next action for a repetition of the last (`SheetsSync.gs:365-369`, `access.py:84-88`) |

### Why these bounds

Handlers act per member, and no table couples two members except by the lock,
which one member's own jobs compete for already. Three payments are needed for
a gap, a payment in advance and a deletion in the middle; the two dates and the
balance make the clamp at the end of February matter. Two links and two
requests give the owner and the stranger one each, or one link two requests.
Three pending jobs are one more than the two kinds one event queues, so that
jobs of different events overtake each other. One restart or failure is enough
for each non-atomic pair of steps; two failures in a row are two such pairs
(the proofs of `Membership` hold for any number). Restores and restarts are in
different runs of `Membership`, as the two together take TLC too long. Two
restore jobs are needed for one to be overtaken by another. Of the commands
`Membership` runs `deny`: `allow` and `whitelist` open the same access as
`Pay`, except that it does not end by itself, and that `allow` takes a deny
back; the proofs cover all of them, and `Resources` runs `allow` as well.
`Reordering` lets Telegram deliver in any order.

Of the newer runs: with two members and two licence ids a licence can go to
either, both or be missing, and one late request overtakes one under way. Two
overlapping executions are what every race of the sheet script needs; the
third makes the names of a finished one meet a stale tab. Five lines are more
than three executions can fill. A window of one makes one failing job hold up
the next, two slots make two runs of one job overlap. Three events let one
arrive late between two others, for one subscription or for two; a window of
two and two runs make a list of one event stale beside a list of two; two days
of clock bring the reminder of one term up and not that of the other. The
proofs cover any number of all these.

`MaxUpdates` and `MaxPending` are bounds on what is under way at one time, not
on the length of a run: people come and go for ever. `MaxCorrections`,
`MaxImports`, `MaxRestores`, `MaxLinks`, `MaxRequests`, `MaxEvents`,
`MaxCrashes`, `MaxFailures`, `MaxStarts`, `MaxFaults` and `LastDay` bound the
whole run; `MaxLate` and the slots of `Runs` are bounds on what is under way.
Where those are used up and nothing else can happen (`sheet_payments`,
`invites`, `sheet_script`, `subscriptions`), the system really stops, and the
configuration says `CHECK_DEADLOCK FALSE`.

### Properties and their exceptions

* `TermMatchesLedger`, `TermReplaysLedger` and `DeletionNeverExtends` leave
  members out whose term is *not* the ledger's by what the code does: an error
  row that was credited all the same (`sheets.py:168`; two documents say
  otherwise, see below), and for the replay a correction or an import past the
  starting balance.
* `OwnRemovalIsNoManualBan` says "as long as no restart happened". With one,
  it fails: the ban is in Telegram, the transaction with `source = system` is
  undone, and the update makes it a manual ban
  (`telegram_updates.py:425`). `LicenceFollowsGroup` leaves out members whose
  ban was lifted or written again while they were in the group (`silent`), until
  a job is queued for something else, at the latest by the next
  reconciliation: neither step queues one.
* `BarredStaysOut` excepts the operator's own site command (`ByCommand`) and a
  run that was overtaken while it asked Telegram without the lock
  (`Overtaken`). Without the second exception TLC finds a deny recorded in that
  gap and the licence given afterwards; the job queued with the deny takes it
  back, which is what `LicenceFollowsGroup` says.
* `UsedLinkIsSpent` begins where the use of a link is on record. A link may
  open the door again when the approval took effect and its record was undone
  (`AnswerFails`, `membership.py:214`); `PRD.ru.md:58` has the link revoked
  after the entry.
* `LockedJobMadeOnce` and `EndsOnce` speak of restores. Invites, site and
  licence jobs are written to after their calls, so two overlapping runs carry
  such a job out twice, and the later one writes its end over the earlier.
* `RowsFollowStripe` is about events first delivered in their order and not
  applied again by an overlapping run (`~again`): an older event that comes late
  writes its date and status over newer ones (`stripe_events.py:86`), and so
  does a run with an old list. Without either condition TLC finds it.
  `AppliedOnce` has the second condition, too: such a run may turn "failed"
  into "done".
* `RepeatsAreFaults` allows one repetition of a reminder per overlap, abort or
  restart, which is *less* than the documents promise: `README.md:68` calls the
  job idempotent, `PRD.ru.md:280` and `TASKS.ru.md:315` have a reminder sent at
  most once.

## Fairness

`app/scheduler.py` calls each job again and again, and one that failed with a
server error a minute later. Hence:

* `Membership`: weak fairness of `Reconcile` and `RestoreWorker` (a request
  that was started goes on) and of `Midnight` (days pass); strong fairness of
  `Deliver` (Telegram repeats an update, and the lock is free between
  requests), and of each outcome of a call *about one member and chat*: a call
  made again every day works once. Failures are unbounded there, so without
  the last point nothing could be promised.
* `Resources`: strong fairness of the hourly run, of `Deliver` and of the daily
  `Reconcile` of each member; weak fairness of `SiteGiven` (a request that was
  asked is answered) and `StartReconcile`. Failures are bounded by
  `MaxFailures`, so a job may be lost for good once, and the account is put
  right by a later reconciliation all the same.

* `JobRuns`: weak fairness of the scheduler's loop (`Skip` or `Call`), of the
  end of each period and of a thread's release of the lock; strong fairness of
  each run's steps (the event loop serves every task, but is stopped again and
  again while someone waits for the lock) and of the end of such a wait, which
  SQLite's timeout guarantees; and for the kinds in `Kept` a call that
  succeeds, again and again: a licence job that failed is tried for ever, so
  nothing ends if the server never recovers. `GiveUp`, `Abort` and `Restart`
  are not fair: they may never happen.

Nothing is assumed about people: nobody has to pay, to leave or to ask.

## What is proved

Every invariant and every action property that a passing run checks is a
theorem, with the refinements of `CreditOnce` and `Outbox`. They hold for any
values of the constants that satisfy the `ASSUME`s of the modules, which say no
more than that bounds are natural numbers, that dates are dates, that the chats
are different, that commands are commands, that "none" is not one of the
things, and that a member has finitely many Stripe subscriptions.

Where something is computed along a sequence (the replay of the payments, the
batch of a run, the largest row id), the proof is an induction over the natural
numbers by least counterexample: `CountingSet` gets it from the
well-foundedness of `<`, for a *set* of numbers, as the library's induction
rule is out of reach. A recursive function is first shown to exist
(`TermsExist`, `WorkExists`), then its `CHOOSE` follows its rule
(`TermsFollow`, `DoneWorks`).

* `SheetPaymentsProofs`, on dates: `AddedMonthIsLater` (adding a month gives a
  date, and a later one) and `AddedMonthsKeepOrder` (the clamp does not turn
  the order of two dates round). Both come down to `MonthLengths`, the parts of
  a date number and a case split on whether the month changes.
* `SheetPaymentsProofs`, on rows: `LedgerTyped`, `OneResultPerClaim`
  (`EveryClaimHasOneResult`), `NoDoubleCredit` (`ProcessingCreditsOnce`) and
  `DeletionIsFinal` (`DeletedForever`). `StepKinds` sorts every step into four
  kinds: nothing, one more *fresh* row, another date and provider id for the
  row of a panel's form, a processed row marked deleted. The invariant
  `LedgerInv` is the conjunction of the typing and the two state properties.
  Uniqueness needs the agreement of inbox and results, as freshness is decided
  by looking at both; a correction is harmless because it leaves payment id and
  status alone.
* `SheetPaymentsProofs`, on terms: `TypesHold` (`TypeOK`), `TermIsLatestShown`
  (`TermMatchesLedger`), `TermIsReplayed` (`TermReplaysLedger`) and
  `DeletionDoesNotExtend` (`DeletionNeverExtends`). `TermsOf` is the replay as a
  function of the rows: rows that are appended, or are not replayed, leave it
  alone (`TermsAgree`), it never falls (`TermsGrow`), and with fewer payments
  each term is no later (`FewerTerms`, which is where the order of added months
  is used: a payment taken away in the middle may change the clamp of all
  after it). The invariant `TermInv` adds to the two properties what they need
  to be inductive: a row that names a member has a date, a member with
  processed payments is paid and one who is not has no term, and an imported
  balance is in the balance the ledger starts from or was imported since
  (`LegacyOnRecord`).
* `MembershipProofs`: `MembershipTyped`, `MembershipTypeOK` and
  `RemovalIsAnnounced` (`RemovalFollowsAlert`). `TypeOK` alone is not
  inductive: that a step on `work` keeps it depends on what the holder may have
  written, and a ban is only sent under the lock; `Ledgers` says so. For the
  removal, `AlertInv` adds that a warning on record, committed or not, was sent
  on the day it carries (`WarningsWereSent`), that the run has not touched the
  warnings of members it has still to handle (`Untouched`, which is why rolling
  back or committing in the middle loses nothing), and that a run about to ban
  has seen an alert of an earlier day (`Announced`).
* `MembershipProofs`, on bans: `NoBanUnreported` (`BanWasReported`),
  `RemovalIsNoManualBan` (`OwnRemovalIsNoManualBan`), `KickIsRecorded`
  (`AdminKickRecorded`), `OnlyRestoreLiftsBan` (`BanLiftedByRestore`) and
  `DenyIsNotUndone` (`DeniedStaysOut`), from `BanInv`. A manual ban goes back
  to a delivered update, and so do the commands and jobs that might put it
  back (`BansReported`); the jobs the restore worker has still to end are
  pending in both views, the member it lifts the ban of is not denied, and a
  ban missing from its transaction belongs to the job it is at or to one that
  it has ended in that transaction (`Restoring`); a
  run about to ban has written `system` first (`OwnRemovals`, as long as
  nothing was restarted); a kick is on its way in an update, or in the row
  (`KicksRecorded`). That two workers cannot overtake each other comes out of
  the lock, not of the order of the calls.
* `ResourcesProofs`: `TypeCorrect` (`TypeOK`), `LicencesFollow`
  (`LicenceFollowsGroup`) and `BarredMembersStayOut` (`BarredStaysOut`). In
  `ResourcesInv`, `Locks` says what a transaction under way can differ in: jobs
  ended, an answer of Telegram or an account noted; never the rights of a
  member. Hence what was found under the lock still holds at the call; for the
  first job of a run, which asks without it, `late` records whether it does
  (`Granted`). For the licences the invariant is a debt: whatever changed a
  member's right is on its way as an update, as a queued job, or in the call
  being made (`Owed`), in the committed database *and* in the one the run sees,
  so that neither a commit nor a rollback loses it; and the answer in hand is
  right, or was overtaken and another job or update is on its way
  (`Answering`), from the moment the row is read. Job ids and
  once-only keys make this work; that a job can be queued at all is a
  pigeonhole over the ids.
* `SubscriptionsProofs`: `SubscriptionsTyped` (`TypeOK`, again with a
  pigeonhole: no event has two jobs), `RowsSayWhatStripeSays`
  (`RowsFollowStripe`), `RemindersBounded` (`RepeatsAreFaults`) and
  `EventsAppliedOnce` (`AppliedOnce`, the refinement of `Outbox`; no run checks
  it). `Says` states
  what the first events say of a subscription by their *last* event with a
  status or a date, so nothing has to be replayed; Stripe's own state is what
  all of them say (`StripeSays`). When the jobs stand in the order of the
  events, those done are a prefix and the rows are what that prefix says
  (`DonePrefix`), as long as no run has applied what another had ended
  (`RowsFollow`). A list is closed under earlier pending jobs when it is read
  (`BatchIsFirst`), and one all of whose jobs are still pending is what the run
  would list now, its first lookup included (`ListsCurrent`); no event of an
  invoice comes first (`EventsFollow`), so none fails. The
  reminders need a count: messages sent and about to be sent are at most the
  faults and one for a note made, or to be made by a run under way
  (`WithinAllowance`); and whatever is noted was sent (`SentFirst`).
* `InvitesProofs`: `InvitesTypeOK` and all four other properties of the run
  `invites`. `InvitesInv` says of both views of the database (`Good`) that rows
  exist only for links that were made and that a link with a recorded use is
  never pending again, which is what `UsedLinkIsSpent` rests on; of the invite
  worker that its jobs are pending until it commits and that the rows of the
  links it has made are in its own transaction (`WorkerSane`); of the webhook
  that it holds the lock from its check to the answer, and that what it
  checked still holds (`HookSane`), from which `OnlyOwnersEnter` and
  `DeniedIsNotAdmitted` follow in the steps where somebody enters.
* `ClubLicencesProofs`: `ClubTypeOK` and all five other properties of the run
  `club_licences`. `ClubInv` adds to them that a grant names a licence of its
  product that is in use and holds back only what it manages (`GrantsSane`),
  that a licence stopped by hand is stopped and not held (`HandsSane`), that
  keys and requests name licences in use, and that an answer under way stays
  true (`AnswerSane`): grants are only ever added, which `Keeps` says of each
  step of the server. The one assumption beyond the bounds is that there is a
  product.
* `SheetScriptProofs`: `ScriptTypeOK` and `ScriptCreditsOnce`
  (`CreditedOnce`, the refinement of `CreditOnce`). `ScriptInv` says that the
  ledger is finite and that whatever is on the tab, in an execution or in the
  ledger was entered; `StoredOnce` is the step that matters: a request adds
  nothing for a reference that has a result, and one result for one that has
  none, however often it is in the request.
* `JobRunsProofs`: `RunsTypeOK`, `RestoreMadeOnce` (`LockedJobMadeOnce`) and
  `RestoreEndsOnce` (`EndsOnce`, the refinement of `Outbox`). `RunsInv`: who
  has written holds the lock (`RunsSane`, `LockSane`); a run of restores has
  jobs only with the lock, or while it waits for it at the start
  (`StrictLocked`), and they are pending in the committed rows as long as
  nobody else holds the lock (`StrictPending`); a pending restore that no run
  has in flight was carried out at most once per fault (`Counted`). It needs
  the assumption that restores that fail are not tried again
  (`LockFirst \cap Kept = {}`), as in the code.

Only model-checked: liveness (`LapsedMemberLeaves`, `LeaverLosesSite`,
`MemberRegainsSite`, `EveryJobEnds`), as fairness and ENABLED are out of the
prover's reach; and the counterexample of `second_command_lost`.

## Behaviour worth knowing

Seen while modelling, in the code as it is.

The ledger and the membership:

* An error row that was stored is answered "duplicate" for ever, whatever the
  operator mends (`sheets.py:100-105`); `ERRORS.md:224-226` and the design
  document of 2026-09-14 (87-88) say it may be mended.
* A payment extends the term, but access reads the newest subscription row:
  an import after the payment makes a newer row and hides it (`access.py:24`;
  `START-HERE.ru.md:60-61` has a payment open access).
* The removal is decided on the manual decisions read at the start of the run
  and on the subscription read before `getChatMember` (`membership.py:279-332`):
  a member who pays or is allowed in between is removed all the same;
  `TASKS.ru.md:189,196` ask for a second check.
* A member the bot removed and who pays again stays banned in Telegram: only
  restore jobs unban, and those need a *manual* ban (`membership.py:375`,
  `access.py:129`); `TASKS.ru.md:197` and `PRD.ru.md:189` want a way back.
* The links a restore sends are in no row of `telegram_invites`, so the join
  request is declined (`membership.py:391`, `:193-204`).
* A row that was refused because of its date or its provider id still extends
  the term when the member is known (`sheets.py:168`);
  `docs/superpowers/specs/2026-09-14-sheet-payment-automation-design.md:56`
  and `START-HERE.ru.md:63-64` say it does not.
* A correction ignores imported balances (`sheets.py:266-275`), and one that
  was checked before a deletion still writes the deleted row (`:277`); two of
  them racing may write one provider id twice (`:258`).
* The mark `system` is never cleared by a later kick of an administrator, so
  that kick is not recorded as a ban; a restore job that fails after another
  one of the same member succeeded bans the row again (`membership.py:418`).
* An approval that took effect but whose record was undone leaves the link
  pending (`membership.py:214`): the member can leave and come back with it,
  while `PRD.ru.md:58` has it revoked after the entry.
* The request of a stranger spends the owner's link (`membership.py:199-202`);
  the revoking worker may write `expired` over `used` (`:259`).
* A site job that is refused is never repeated (`site_access.py:162-166`); the
  next day's reconciliation queues another one under a new key. An account
  that was created before the message with the password was refused is unknown
  to the row, so `LeaverLosesSite` promises nothing for it.
* The operator's `revoke_site_access` is undone by the next reconciliation
  while the member has the right to the account; `allow` queues no job for
  the site.

Licences:

* A licence the server reassigned to another member is refused for both
  ("existing license conflict", `club_licenses.py:60-62`, and
  `UNIQUE(license_id)` on the server): neither gets any key until an operator
  mends the rows.
* A suspension by hand of a licence the club holds back already is undone when
  the member returns (`Held` in `SuspendByHand`); a request to provision that
  is served after a suspension gives a leaver's licence back, until the next
  suspension.
* The first licence job of an hourly run holds no lock while it asks Telegram
  (`main.py:516`, `club_access.py:20-34`): a deny or a ban recorded meanwhile is
  overtaken by its call, until the job queued with the deny runs an hour later.
  A ban that a second restore job, or a command it overtook, writes again
  queues no such job (`membership.py:418`, `access.py:148`): a member who is
  back in the group keeps the licences until the next reconciliation.
* `LIKE '%tid%'` on order ids finds the orders of longer ids as well
  (`club_vip.py:71-75`). Writing a key a second time clears `revoked_at`
  (`keys.py:80`), so the row of an operator issues a revoked key again; a
  `revoke` typed while `LicensesSync.gs:89-98` runs is overwritten.

The sheet script:

* Without a provider reference nothing ties two names to one payment: two
  executions that read the row before either marked it (there is no
  `LockService`), or two clicks in the panel, credit it twice;
  `START-HERE.ru.md:60-62` says once. `CreditedOnce` is about referenced ones.
* What is typed while an execution runs may be erased by its rewriting of the
  tab: a payment row, a command, a whitelist column (319-334). A row that is
  typed cell by cell is sent half and stays an error. A name may land on
  another row than the one that was read.
* Two executions may read one command and carry it out under two names;
  `PRD.ru.md:134` says commands are idempotent.

Jobs and Stripe:

* A new run that needs the lock stops the event loop for 30 seconds while the
  holder needs that loop: it fails, its work is undone, and effects in
  Telegram are repeated by the next run. Transport errors are not turned into
  `TelegramError` and abort the whole run.
* Failing licence jobs, and jobs whose flag is off, stay the oldest of the
  window and hold up newer ones (`club_licenses.py:83`,
  `site_access.py:119-125`). `last_run.get(path, 0)` is compared with the
  monotonic clock: on a freshly booted host the daily jobs wait up to a day.
* An invoice event that arrives before the subscription is known fails for
  good, and Stripe's repetition is a "duplicate". An older event that comes
  late replaces what newer ones wrote (`stripe_events.py:86`). `PRD.ru.md:55`
  does not rely on the order of events; `TASKS.ru.md:97` says that a late event
  does not overwrite a newer state or shorten the term, `:424` that reordered
  events do not shorten the access.
* Two runs of process-stripe that overlap have read the same list, and the
  later applies its events again, whatever the earlier has done since
  (`stripe_events.py:104-117`): a cancelled subscription turns active again, and
  a job that failed may end as done.
* A failed invoice stores the end of the period that was not paid, and access
  looks at the date only (`access.py:19-27`); `PRD.ru.md:55` computes
  `provider_paid_until` from the period that was paid.
* A lead day of the reminders is skipped when the daily call drifts over
  midnight. Overlapping or aborted runs repeat a reminder, as the message is
  sent before it is noted and the notes of a run are committed at its end
  (`reminders.py:61-69`); `README.md:68`, `PRD.ru.md:280` and `TASKS.ru.md:315`
  promise that it is not repeated.

## Not modelled

The limits of 20 and 100 rows per run except in `JobRuns` and
`Subscriptions`; hours, minutes and time zones; dry-run modes; feature flags
other than removal and site deactivation (taken as on); the MCP transport of
WordPress; the commands `extend` and `resend_delivery`; the sheet scripts of
the keys and licences, the whitelist columns and the panel's corrections; the
import of the licence registry; updates of an active Stripe subscription other
than by invoices; prices, signatures, encryption, logging, texts and layout.
Components without a module are listed in `PROJECT.json` with the reason.

## Plan

Done, in this order: the ledger, the membership, invites, resources; then the
licences, the sheet script with its abstract credit, the jobs with their
abstract outbox, Stripe with the reminders; proofs of every safety property of
all eight.

Left, by what it would add:

1. Proofs: `Outbox` for the other kinds of jobs (the restores of `Membership`
   and the invites of `Invites`, whose runs do not overlap there), and
   `CreditOnce` for the ledger of `SheetPayments`.
2. `Resources` with the outbox replaced by `Outbox` as a component, so that the
   overlapping runs of `JobRuns` and the site jobs are checked together.
3. `KeysSync.gs` and `LicensesSync.gs` against `ClubLicences`, in the manner of
   `SheetScript`.
4. The whitelist columns and the panel's corrections in `SheetScript`.

## Running

```
tlc -workers 2 -config membership.cfg MCMembership
tlapm MembershipProofs.tla
```
