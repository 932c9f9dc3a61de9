------------------------------ MODULE Resources ------------------------------
(***************************************************************************)
(* The club's resources follow the group: the WordPress account and the    *)
(* licences of a member.  Events queue jobs; one hourly request works off  *)
(* the club.access jobs (the licence service) and then the site jobs       *)
(* (WordPress), all in one transaction.  Each job asks Telegram again      *)
(* before it acts.  What module Membership models in detail, the daily     *)
(* reconciliation and the restore worker, appears here as the steps by     *)
(* which it touches these tables.                                          *)
(***************************************************************************)
EXTENDS Sequences, FiniteSetsExt, Functions

CONSTANTS
  Users,       \* members with a row in the users table
  Accounts,    \* those of them who have an account for the site at the start
  Commands,    \* the commands of the sheet that are given
  MaxPending,  \* bound on pending jobs
  MaxManual,   \* bound on those that carry out a command for the site
  MaxUpdates,  \* bound on chat_member updates under way, per user
  MaxFailures  \* bound on failed calls, restarts and restores ordered twice

ASSUME AccountsAssumption == Accounts \subseteq Users
ASSUME CommandsAssumption ==
  Commands \subseteq {"deny", "allow", "revoke_site_access",
                      "restore_site_access", "issue_credentials"}
ASSUME BoundsAssumption == {MaxPending, MaxManual, MaxUpdates, MaxFailures} \subseteq Nat

VARIABLES
  db,       \* the committed database: rows of users, pending outbox_jobs
  work,     \* the database as the transaction of the lock's holder sees it
  holder,   \* the handler that holds SQLite's write lock
  run,      \* the run of process-site-access
  ask,      \* the webhook call that answers /site-access
  group,    \* Telegram: who is in the group
  updates,  \* Telegram: chat_member updates not yet delivered
  site,     \* WordPress: the account of each user, "blocked" when there is none
  replay,   \* WordPress: pending jobs whose key has a stored answer
  licence,  \* the licence service: the managed licences of each user
  seen,     \* the daily reconciliation: the rows it read when it began and
            \* has still to handle
  second,   \* whose ban was lifted while a second order to lift it, a restore
            \* job or a command for one, was under way
  silent,   \* whose ban was lifted or put back while they were in the group,
            \* which queues no job, and for whom none was queued since
  failures

outside == <<group, updates, site, replay, licence>>
bans == <<second, silent>>
vars == <<db, work, holder, run, ask, outside, seen, bans, failures>>

---------------------------------------------------------------------------
Membership == {"in", "left", "kicked"}
\* delivered: wordpress_user_id and site_credentials_delivered_at are set.
UserRow == [deny : BOOLEAN, banned : BOOLEAN, system : BOOLEAN,
            status : Membership \cup {"unknown"}, delivered : BOOLEAN]
Kind == {"club", "deactivate", "restore", "credentials"}
\* id stands for the key; manual: the payload has a command_id.
Job == [id : 1 .. MaxPending, kind : Kind, user : Users, manual : BOOLEAN]
Database == [user : [Users -> UserRow], jobs : Seq(Job)]

Ids(w) == {w.jobs[i].id : i \in DOMAIN w.jobs}
IdsOf(w, kinds) == {w.jobs[i].id : i \in {k \in DOMAIN w.jobs : w.jobs[k].kind \in kinds}}
\* The first row of those jobs: rows are taken in the order of their ids.
Place(w, ids) == Min({i \in DOMAIN w.jobs : w.jobs[i].id \in ids})
First(w, ids) == w.jobs[Place(w, ids)]

Room(w, n) == Len(w.jobs) + n <= MaxPending
\* Mutant of Queued: the key is made from the number of pending jobs.
QueuedByCount(w, kind, u, manual) ==
  [w EXCEPT !.jobs = Append(@, [id |-> Len(w.jobs) + 1, kind |-> kind, user |-> u,
                                manual |-> manual])]

Queued(w, kind, u, manual) ==
  [w EXCEPT !.jobs = Append(@, [id |-> Min((1 .. MaxPending) \ Ids(w)),
                                kind |-> kind, user |-> u, manual |-> manual])]
JobFor(w, kind, u) == Queued(w, kind, u, FALSE)

\* A job that is done or has failed is never looked at again.
Ended(w, n) ==
  LET i == Place(w, {n})
  IN [w EXCEPT !.jobs = SubSeq(@, 1, i - 1) \o SubSeq(@, i + 1, Len(@))]

Barred(row) == row.banned \/ row.deny
\* The right to the club's resources: in the group, no ban, no deny.
Allowed(w, u) == group[u] = "in" /\ ~Barred(w.user[u])

Visible(h) == IF holder = h THEN work ELSE db
MayWrite(h) == holder \in {"none", h}
Write(h, w) == MayWrite(h) /\ holder' = h /\ work' = w /\ UNCHANGED db
Commit(w) == db' = w /\ work' = w /\ holder' = "none"
Finish(h) == IF holder = h THEN Commit(work) ELSE UNCHANGED <<db, work, holder>>
Undo(h) == IF holder = h THEN Commit(db) ELSE UNCHANGED <<db, work, holder>>
OneStep(w) == holder = "none" /\ Commit(w)
ReadOnly == UNCHANGED <<db, work, holder>>

Fails == failures < MaxFailures /\ failures' = failures + 1

---------------------------------------------------------------------------
(* The hourly request, first the licences.                                 *)

Resting == [pc |-> "idle"]
Phase(pc, todo) == [pc |-> pc, todo |-> todo]
\* The jobs that are left, in todo; the next one, and those after it.
Taken == First(Visible("run"), run.todo)
Rest == run.todo \ {Taken.id}
Row == Visible("run").user[Taken.user]
\* A job in hand.  allowed, known: what the row says, then Telegram; late (not
\* in the code): a ban or deny was recorded while Telegram was being asked.
InHand(pc, allowed) ==
  [pc |-> pc, todo |-> Rest, job |-> Taken.id, allowed |-> allowed,
   known |-> Taken.kind # "club" /\ Row.delivered, late |-> FALSE]
This == First(Visible("run"), {run.job})

\* refresh_club_member after its await: Telegram's answer goes to the row as it
\* is by now, and the run holds the lock from then on.
Noted == [Visible("run") EXCEPT !.user[This.user].status = group[This.user]]
IsMember == group[This.user] = "in"
WithAnswer(pc) ==
  [run EXCEPT !.pc = pc, !.allowed = IsMember, !.late = Barred(Visible("run").user[This.user])]

StartRun ==
  /\ run.pc = "idle"
  /\ run' = Phase("club", IdsOf(db, {"club"}))
  /\ ReadOnly /\ UNCHANGED <<ask, outside, seen, bans, failures>>

\* The row is read.  A barred member has no right, and Telegram is not asked.
CheckClub ==
  /\ run.pc = "club" /\ run.todo # {}
  /\ run' = IF Barred(Row) THEN InHand("licences", FALSE) ELSE InHand("asking", TRUE)
  /\ ReadOnly /\ UNCHANGED <<ask, outside, seen, bans, failures>>

\* Mutant of ClubAnswer: the answer is used and not recorded.
ClubAnswerUnrecorded ==
  /\ run.pc = "asking"
  /\ run' = WithAnswer("licences")
  /\ ReadOnly /\ UNCHANGED <<ask, outside, seen, bans, failures>>

ClubAnswer ==
  /\ run.pc = "asking"
  /\ Write("run", Noted)
  /\ run' = WithAnswer("licences")
  /\ UNCHANGED <<ask, outside, seen, bans, failures>>

\* Telegram refuses: the job stays pending.
CheckClubFails ==
  /\ Fails
  /\ run.pc = "asking"
  /\ Write("run", Visible("run"))
  /\ run' = Phase("club", run.todo)
  /\ UNCHANGED <<ask, outside, seen, bans>>

Switched == [licence EXCEPT ![This.user] = IF run.allowed THEN "active" ELSE "suspended"]

CallLicences ==
  /\ run.pc = "licences"
  /\ licence' = Switched
  /\ Write("run", Ended(Visible("run"), run.job))
  /\ run' = Phase("club", run.todo)
  /\ UNCHANGED <<ask, group, updates, site, replay, seen, bans, failures>>

\* Mutant of LicencesFail: the job ends all the same, as site jobs do.
LicencesFailEnded ==
  /\ Fails
  /\ run.pc = "licences"
  /\ Write("run", Ended(Visible("run"), run.job))
  /\ run' = Phase("club", run.todo)
  /\ UNCHANGED <<ask, outside, seen, bans>>

\* The service refuses, or its answer is lost: the job stays pending.
LicencesFail ==
  /\ Fails
  /\ run.pc = "licences"
  /\ licence' \in {licence, Switched}
  /\ Write("run", Visible("run"))
  /\ run' = Phase("club", run.todo)
  /\ UNCHANGED <<ask, group, updates, site, replay, seen, bans>>

TurnToSite ==
  /\ run.pc = "club" /\ run.todo = {}
  /\ run' = Phase("site", IdsOf(Visible("run"), Kind \ {"club"}))
  /\ ReadOnly /\ UNCHANGED <<ask, outside, seen, bans, failures>>

---------------------------------------------------------------------------
(* The hourly request, then the site.                                      *)

Wanted(kind, allowed) == IF kind = "deactivate" THEN ~allowed ELSE allowed
SiteTurn == run.pc = "site" /\ run.todo # {}

\* A site command of the operator is carried out without asking Telegram.
TakeCommand ==
  /\ SiteTurn /\ Taken.manual /\ Taken.kind # "credentials"
  /\ run' = InHand("wordpress", TRUE)
  /\ ReadOnly /\ UNCHANGED <<ask, outside, seen, bans, failures>>

\* Any other job is checked, and dropped when it is out of date.
CheckSite ==
  /\ SiteTurn /\ ~(Taken.manual /\ Taken.kind # "credentials")
  /\ \/ ~Barred(Row) /\ run' = InHand("verifying", TRUE) /\ ReadOnly
     \/ /\ Barred(Row) /\ Wanted(Taken.kind, FALSE)
        /\ run' = InHand("wordpress", FALSE) /\ ReadOnly
     \/ /\ Barred(Row) /\ ~Wanted(Taken.kind, FALSE)
        /\ Write("run", Ended(Visible("run"), Taken.id))
        /\ run' = Phase("site", Rest)
  /\ UNCHANGED <<ask, outside, seen, bans, failures>>

SiteAnswer ==
  /\ run.pc = "verifying"
  /\ \/ Wanted(This.kind, IsMember) /\ Write("run", Noted) /\ run' = WithAnswer("wordpress")
     \/ /\ ~Wanted(This.kind, IsMember)
        /\ Write("run", Ended(Noted, run.job)) /\ run' = Phase("site", run.todo)
  /\ UNCHANGED <<ask, outside, seen, bans, failures>>

\* Telegram refuses: the job has failed for good.
CheckSiteFails ==
  /\ Fails
  /\ run.pc = "verifying"
  /\ Write("run", Ended(Visible("run"), run.job))
  /\ run' = Phase("site", run.todo)
  /\ UNCHANGED <<ask, outside, seen, bans>>

\* WordPress knows an account by the id of the row that was read; a request for
\* credentials makes a missing one, with a key of its own.
Creates == This.kind = "credentials" /\ ~run.known
Accepted == This.kind = "credentials" \/ run.known

\* What the plugin does: a key it has an answer for changes nothing.
Applied ==
  IF This.id \in replay /\ ~Creates THEN site
  ELSE [site EXCEPT ![This.user] = IF This.kind = "deactivate" THEN "blocked" ELSE "open"]
Answered == IF Creates THEN replay ELSE replay \cup {This.id}

CallWordPress ==
  /\ run.pc = "wordpress"
  /\ Accepted
  /\ site' = Applied /\ replay' = Answered
  /\ LET w == Ended(Visible("run"), run.job)
     IN Write("run", IF This.kind = "credentials"
                       THEN [w EXCEPT !.user[This.user].delivered = TRUE] ELSE w)
  /\ run' = Phase("site", run.todo)
  /\ UNCHANGED <<ask, group, updates, licence, seen, bans, failures>>

\* WordPress does not know the account or refuses, or Telegram refuses the
\* message with the credentials: the job has failed for good.
WordPressRefuses ==
  /\ run.pc = "wordpress"
  /\ IF Accepted THEN Fails ELSE UNCHANGED failures
  /\ site' \in {site} \cup (IF This.kind = "credentials" THEN {Applied} ELSE {})
  /\ Write("run", Ended(Visible("run"), run.job))
  /\ run' = Phase("site", run.todo)
  /\ UNCHANGED <<ask, group, updates, replay, licence, seen, bans>>

\* A timeout of Telegram or WordPress, or a lock that stays taken, ends the
\* request and undoes all of it; the call may have taken effect.
RunAborts ==
  /\ Fails
  /\ run.pc # "idle"
  /\ Undo("run")
  /\ \/ UNCHANGED <<site, replay, licence>>
     \/ run.pc = "wordpress" /\ Accepted /\ site' = Applied /\ replay' = Answered
        /\ UNCHANGED licence
     \/ run.pc = "licences" /\ licence' = Switched /\ UNCHANGED <<site, replay>>
  /\ run' = Resting
  /\ UNCHANGED <<ask, group, updates, seen, bans>>

\* The keys of ended jobs are never sent again.
FinishRun ==
  /\ run.pc = "site" /\ run.todo = {}
  /\ Finish("run")
  /\ replay' = replay \cap Ids(Visible("run"))
  /\ run' = Resting
  /\ UNCHANGED <<ask, group, updates, site, licence, seen, bans, failures>>

HourlyRun ==
  \/ StartRun \/ CheckClub \/ ClubAnswer \/ CheckClubFails \/ CallLicences
  \/ LicencesFail \/ TurnToSite \/ TakeCommand \/ CheckSite \/ SiteAnswer
  \/ CheckSiteFails \/ CallWordPress \/ WordPressRefuses \/ RunAborts \/ FinishRun

---------------------------------------------------------------------------
(* /site-access: a webhook call that holds the lock from its inbox row on. *)

AskSite(u) ==
  /\ ask.pc = "idle" /\ holder = "none"
  /\ IF Allowed(db, u)
       THEN /\ Write("ask", [db EXCEPT !.user[u].status = group[u]])
            /\ ask' = [pc |-> "calling", user |-> u]
       ELSE /\ OneStep(IF Barred(db.user[u]) THEN db
                       ELSE [db EXCEPT !.user[u].status = group[u]])
            /\ UNCHANGED ask
  /\ UNCHANGED <<run, outside, seen, bans, failures>>

\* A first delivery creates the account, a later one restores it; an update that
\* is repeated may find its answer stored.
SiteGiven ==
  /\ ask.pc = "calling"
  /\ \/ site' = [site EXCEPT ![ask.user] = "open"]
     \/ work.user[ask.user].delivered /\ UNCHANGED site
  /\ Commit([work EXCEPT !.user[ask.user].delivered = TRUE])
  /\ ask' = Resting
  /\ UNCHANGED <<run, group, updates, replay, licence, seen, bans, failures>>

\* WordPress or Telegram refuses: the handler catches it and commits; a
\* timeout undoes the call, and Telegram repeats it.
SiteNotGiven ==
  /\ Fails
  /\ ask.pc = "calling"
  /\ site' \in {site, [site EXCEPT ![ask.user] = "open"]}
  /\ Commit(work) \/ Undo("ask")
  /\ ask' = Resting
  /\ UNCHANGED <<run, group, updates, replay, licence, seen, bans>>

SiteAccess == SiteGiven \/ SiteNotGiven \/ \E u \in Users : AskSite(u)

---------------------------------------------------------------------------
(* What queues jobs: updates, commands, the reconciliation.                *)

Recorded(u, status) ==
  LET row == db.user[u]
      club == JobFor([db EXCEPT !.user[u].status = status], "club", u)
  IN CASE status = "kicked" /\ ~row.system ->
            JobFor([club EXCEPT !.user[u].banned = TRUE], "deactivate", u)
       [] status = "left" -> JobFor(club, "deactivate", u)
       [] status = "in" /\ row.status = "left" /\ ~Barred(row) -> JobFor(club, "restore", u)
       [] OTHER -> club

Deliver(u) ==
  /\ updates[u] # << >> /\ Room(db, 2)
  /\ OneStep(Recorded(u, Head(updates[u])))
  /\ updates' = [updates EXCEPT ![u] = Tail(@)]
  /\ silent' = silent \ {u}
  /\ UNCHANGED <<run, ask, group, site, replay, licence, seen, second, failures>>

Decide(u) ==
  /\ Room(db, 2)
  /\ \E command \in Commands \cap {"deny", "allow"} :
       LET club == JobFor([db EXCEPT !.user[u].deny = (command = "deny")], "club", u)
       IN OneStep(IF command = "deny" THEN JobFor(club, "deactivate", u) ELSE club)
  /\ silent' = silent \ {u}
  /\ UNCHANGED <<run, ask, outside, seen, second, failures>>

SiteKind == [revoke_site_access |-> "deactivate", restore_site_access |-> "restore",
             issue_credentials |-> "credentials"]

SiteCommand(u) ==
  /\ Room(db, 1)
  /\ Cardinality({i \in DOMAIN db.jobs : db.jobs[i].manual}) < MaxManual
  /\ \E command \in Commands \cap DOMAIN SiteKind :
       OneStep(Queued(db, SiteKind[command], u, TRUE))
  /\ UNCHANGED <<run, ask, outside, seen, bans, failures>>

SeenRow == [user : Users, barred : BOOLEAN, delivered : BOOLEAN]

StartReconcile ==
  /\ seen = {}
  /\ seen' = {[user |-> u, barred |-> Barred(db.user[u]),
               delivered |-> db.user[u].delivered] : u \in Users}
  /\ ReadOnly /\ UNCHANGED <<run, ask, outside, bans, failures>>

\* The daily check of one member: Telegram's answer is new, the row may not be.
Checked(row) ==
  LET u == row.user
      club == JobFor([db EXCEPT !.user[u].status = group[u]], "club", u)
      wanted == IF group[u] = "in" /\ ~row.barred THEN "restore" ELSE "deactivate"
  IN IF row.delivered THEN JobFor(club, wanted, u) ELSE club

Queues(row) ==
  \/ Room(db, 2) /\ OneStep(Checked(row))
     \* A member who paid and has left: one more job, under a key that never
     \* changes, so it is queued once.
  \/ /\ Room(db, 3) /\ group[row.user] = "left" /\ ~row.barred
     /\ OneStep(JobFor(Checked(row), "deactivate", row.user))

\* Mutant of Reconcile: the row is brought up to date and nothing is queued.
ReconcileRow(u) ==
  /\ \E row \in seen : row.user = u /\ seen' = seen \ {row}
  /\ OneStep([db EXCEPT !.user[u].status = group[u]])
  /\ UNCHANGED <<run, ask, outside, bans, failures>>

Reconcile(u) ==
  /\ \E row \in seen : row.user = u /\ Queues(row) /\ seen' = seen \ {row}
  /\ silent' = silent \ {u}
  /\ UNCHANGED <<run, ask, outside, second, failures>>

\* Telegram does not answer about this member, or the lock stays taken.
ReconcileFails(u) ==
  /\ Fails
  /\ \E row \in seen : row.user = u /\ seen' = seen \ {row}
  /\ ReadOnly /\ UNCHANGED <<run, ask, outside, bans>>

---------------------------------------------------------------------------
(* Telegram: memberships change, and an update is on its way.              *)

Moves(u, m) ==
  /\ group[u] # m /\ Len(updates[u]) < MaxUpdates
  /\ group' = [group EXCEPT ![u] = m]
  /\ updates' = [updates EXCEPT ![u] = Append(@, m)]
  /\ UNCHANGED <<site, replay, licence>>

\* People join, leave, are banned and unbanned.
Move(u) ==
  /\ \E m \in Membership : (group[u] = "kicked" => m # "in") /\ Moves(u, m)
  /\ ReadOnly /\ UNCHANGED <<run, ask, seen, bans, failures>>

\* The webhook approves a join request and notes it, ahead of the update.
Approved(u) ==
  /\ group[u] = "left" /\ Moves(u, "in")
  /\ OneStep([db EXCEPT !.user[u].status = "in"])
  /\ UNCHANGED <<run, ask, seen, bans, failures>>

\* The reconciliation removes a member and marks the row; the job that closes
\* the account has a key that never changes, so it is queued once.
BotRemoves(u) ==
  LET marked == [db EXCEPT !.user[u].system = TRUE] IN
  /\ group[u] = "in" /\ Moves(u, "kicked")
  /\ \/ OneStep(marked)
     \/ Room(db, 1) /\ marked.user[u].delivered /\ OneStep(JobFor(marked, "deactivate", u))
  /\ UNCHANGED <<run, ask, seen, bans, failures>>

\* The end of a restore job: the ban is lifted here and in Telegram.
BanLifted(u) ==
  /\ db.user[u].banned
  /\ OneStep([db EXCEPT !.user[u].banned = FALSE, !.user[u].system = FALSE,
                        !.user[u].status = "unknown"])
  /\ \/ second' = second \ {u} /\ UNCHANGED failures
     \/ second' = second \cup {u} /\ Fails
  /\ silent' = IF group[u] = "in" THEN silent \cup {u} ELSE silent
  /\ IF group[u] = "kicked" THEN Moves(u, "left") ELSE UNCHANGED outside
  /\ UNCHANGED <<run, ask, seen>>

\* The second restore job finds no ban and fails, or the command that was
\* overtaken writes: either bans the row again, now or much later.
BannedAgain(u) ==
  /\ u \in second /\ second' = second \ {u}
  /\ \E status \in {db.user[u].status, "unknown"} :
       OneStep([db EXCEPT !.user[u].banned = TRUE, !.user[u].status = status])
  /\ silent' = IF group[u] = "in" THEN silent \cup {u} ELSE silent
  /\ UNCHANGED <<run, ask, outside, seen, failures>>

Crash ==
  /\ Fails
  /\ Commit(db) /\ run' = Resting /\ ask' = Resting
  /\ seen' = {}
  /\ UNCHANGED <<outside, bans>>

World ==
  \/ \E u \in Users :
       \/ Deliver(u) \/ Decide(u) \/ SiteCommand(u)
       \/ Reconcile(u) \/ ReconcileFails(u)
       \/ Move(u) \/ Approved(u) \/ BotRemoves(u) \/ BanLifted(u) \/ BannedAgain(u)
  \/ StartReconcile \/ Crash

\* Members of the group, some with an account for the site.
Init ==
  /\ db = [user |-> [u \in Users |-> [deny |-> FALSE, banned |-> FALSE, system |-> FALSE,
                                      status |-> "in", delivered |-> u \in Accounts]],
           jobs |-> << >>]
  /\ site = [u \in Users |-> IF u \in Accounts THEN "open" ELSE "blocked"]
  /\ work = db /\ holder = "none" /\ run = Resting /\ ask = Resting
  /\ group = [u \in Users |-> "in"] /\ updates = [u \in Users |-> << >>]
  /\ replay = {} /\ licence = [u \in Users |-> "active"]
  /\ seen = {} /\ second = {} /\ silent = {} /\ failures = 0

Next == HourlyRun \/ SiteAccess \/ World

Spec == Init /\ [][Next]_vars

---------------------------------------------------------------------------
(* Properties. *)

KeysDiffer(w) == \A i, k \in DOMAIN w.jobs : w.jobs[i].id = w.jobs[k].id => i = k
Run == [pc : {"idle"}]
       \cup [pc : {"club", "site"}, todo : SUBSET (1 .. MaxPending)]
       \cup [pc : {"asking", "licences", "verifying", "wordpress"},
             todo : SUBSET (1 .. MaxPending), job : 1 .. MaxPending,
             allowed : BOOLEAN, known : BOOLEAN, late : BOOLEAN]
Ask == [pc : {"idle"}] \cup [pc : {"calling"}, user : Users]

\* Type invariant: the tables, the run and the two services.
TypeOK ==
  /\ db \in Database /\ work \in Database
  /\ KeysDiffer(db) /\ KeysDiffer(work) /\ Range(work.jobs) \subseteq Range(db.jobs)
  /\ holder \in {"none", "run", "ask"}
  /\ run \in Run /\ ask \in Ask
  /\ run.pc # "idle" => run.todo \subseteq Ids(Visible("run"))
  /\ run.pc \notin {"idle", "club", "site"} => run.job \in Ids(Visible("run")) \ run.todo
  /\ group \in [Users -> Membership] /\ updates \in [Users -> Seq(Membership)]
  /\ site \in [Users -> {"open", "blocked"}] /\ replay \subseteq 1 .. MaxPending
  /\ licence \in [Users -> {"active", "suspended"}]
  /\ seen \subseteq SeenRow /\ second \subseteq Users /\ silent \subseteq Users
  /\ failures \in 0 .. MaxFailures

Quiet(u) ==
  /\ run.pc = "idle" /\ ask.pc = "idle" /\ updates[u] = << >>
  /\ \A i \in DOMAIN db.jobs : db.jobs[i].user = u => db.jobs[i].kind # "club"

\* The licences agree with the right to them whenever nothing is under way:
\* no failure, no restart, no order of events, no job whose check was overtaken
\* loses a change of the group or of the row.  Two changes queue no job, a ban
\* that is lifted and a ban that is put back while the member is in the group:
\* after these the licences may be wrong until a job is queued for something
\* else, at the latest by the next reconciliation.
LicenceFollowsGroup ==
  \A u \in Users \ silent : Quiet(u) =>
    (licence[u] = "active" <=> Allowed(db, u))

Reopened(u) == \/ licence[u] = "suspended" /\ licence'[u] = "active"
               \/ site[u] = "blocked" /\ site'[u] = "open"
OfRun(u) == run.pc \in {"licences", "wordpress"} /\ run' # run /\ This.user = u
ByCommand(u) == OfRun(u) /\ This.manual
Overtaken(u) == OfRun(u) /\ run.late

\* A ban or deny that is recorded is not undone by a job or a request that was
\* checked before it: from Telegram's answer on, whoever found the member
\* allowed holds the lock until the service has answered.  Two exceptions: the
\* operator's own site command, and a decision that was recorded while Telegram
\* was being asked, when the run had not written yet and held no lock.
BarredStaysOut ==
  [][\A u \in Users : Reopened(u) =>
       ByCommand(u) \/ Overtaken(u) \/ ~Barred(db.user[u])]_vars

---------------------------------------------------------------------------
(* Fairness: the scheduler calls the hourly and the daily job again and     *)
(* again, and a request that finds the database locked comes again and      *)
(* finds it free; Telegram repeats an update until it is taken.  Failures   *)
(* are bounded, so a call made again and again succeeds in the end.         *)

Fairness ==
  /\ SF_vars(HourlyRun) /\ WF_vars(SiteGiven) /\ WF_vars(StartReconcile)
  /\ \A u \in Users : SF_vars(Deliver(u)) /\ SF_vars(Reconcile(u))

FairSpec == Spec /\ Fairness

\* Who stays out of the group loses the account in the end, although a refused
\* job is not repeated, a stored answer may swallow a request and a removal by
\* the bot queues a job for the site only the first time.
LeaverLosesSite ==
  \A u \in Users :
    db.user[u].delivered /\ group[u] # "in" ~> site[u] = "blocked" \/ group[u] = "in"

\* A member with the right to it gets the account back in the end, although an
\* answer of Telegram read early may keep an update from queueing the job.
MemberRegainsSite ==
  \A u \in Users :
    db.user[u].delivered /\ Allowed(db, u) ~> site[u] = "open" \/ ~Allowed(db, u)
=============================================================================
