----------------------------- MODULE Membership -----------------------------
(***************************************************************************)
(* Membership of the club's chats: the daily reconciliation that warns and *)
(* removes members without access, the chat_member updates Telegram sends, *)
(* the restore jobs that lift a ban, and the commands of the sheet.        *)
(*                                                                         *)
(* Each handler works on one SQLite connection.  A transaction opens at    *)
(* the handler's first write and holds the write lock until the handler    *)
(* returns, across every await; reads before it see what others commit.    *)
(* The handlers that await, the reconciliation and the restore worker, are *)
(* modelled await by await; every other handler is one step that has to    *)
(* find the lock free (it is retried by whoever called it).                *)
(***************************************************************************)
EXTENDS Access, Sequences, Functions

CONSTANTS
  Users,            \* rows of the users table with a telegram_id
  Admins,           \* those Telegram shows as administrators: no bot bans them
  Chats,            \* the chats reconciled in turn, the club's group first
  Removal,          \* the chats whose removal flag is on
  SiteDeactivation, \* the wordpress_deactivation flag
  Decisions,        \* the access commands the operator gives
  Reordering,       \* may Telegram deliver two updates out of order?
  MaxUpdates,       \* bound: people change a membership only while fewer wait
  MaxRestores,      \* bound on queued restore_telegram jobs
  MaxCrashes        \* bound on restarts of the backend

ASSUME AdminsAssumption == Admins \subseteq Users
ASSUME ChatsAssumption ==
  /\ Chats \in Seq(STRING) /\ Len(Chats) > 0 /\ IsInjective(Chats)
  /\ Removal \subseteq Range(Chats)
ASSUME DecisionsAssumption ==
  Decisions \subseteq {"allow", "deny", "whitelist", "unwhitelist"}
ASSUME FlagsAssumption == SiteDeactivation \in BOOLEAN /\ Reordering \in BOOLEAN
ASSUME BoundsAssumption ==
  MaxUpdates \in Nat /\ MaxRestores \in Nat /\ MaxCrashes \in Nat

VARIABLES
  db,       \* the committed database
  work,     \* the database as the transaction of the lock's holder sees it
  holder,   \* the handler that holds SQLite's write lock
  rec,      \* the run of reconcile_telegram
  res,      \* the run of process_telegram_restores
  chat,     \* Telegram: each user's membership of each chat
  updates,  \* Telegram: chat_member updates of the group not yet delivered
  alerted,  \* per chat and user, the day of the last alert to the
            \* administrators that no finished run has cancelled since
  asked,    \* restore commands that passed their check and did not write yet
  kicked,   \* was the user thrown out of the group by an administrator?
  crashes

telegram == <<chat, updates, kicked>>
vars == <<db, work, holder, rec, res, chat, updates, alerted, kicked, asked, crashes>>

---------------------------------------------------------------------------
(* The data. *)

Group == Chats[1]
Places == Range(Chats)
Membership == {"in", "left", "kicked"}
Day == {"none", "today", "earlier"}

\* jobs: the outbox rows about the user, which are never deleted: "kicked" is
\* one queued for a manual ban; "left" and "denied" are the reconciliation's,
\* whose keys never change, so there is at most one of each.
Job == {"kicked", "left", "denied", "deactivate", "restore", "club"}
Manual == [override : Overrides, whitelist : BOOLEAN, banned : BOOLEAN]
UserRow == [override : Overrides, whitelist : BOOLEAN, banned : BOOLEAN,
            source : {"none", "system", "admin"},
            status : Membership \cup {"unknown"}, jobs : SUBSET Job]
Restore == [user : Users, status : {"pending", "done", "failed"}]
Database == [user : [Users -> UserRow], paid : [Users -> BOOLEAN],
             warned : [Places -> [Users -> Day]], restore : Seq(Restore)]

Active(w, u) == EffectiveAccess(w.user[u], w.paid[u])
Queue(w, u, js) == [w EXCEPT !.user[u].jobs = @ \cup js]
Snapshot(w) ==
  [u \in Users |-> [override |-> w.user[u].override,
                    whitelist |-> w.user[u].whitelist,
                    banned |-> w.user[u].banned]]

---------------------------------------------------------------------------
(* Transactions. *)

Visible(h) == IF holder = h THEN work ELSE db
MayWrite(h) == holder \in {"none", h}
Write(h, w) == MayWrite(h) /\ holder' = h /\ work' = w /\ UNCHANGED db
Release == holder' = "none"
\* Mutant of Commit: the handler returns without committing.
CommitForgotten(h) == db' = db /\ work' = db /\ Release

Commit(h) == db' = Visible(h) /\ work' = db' /\ Release
Rollback == db' = db /\ work' = db /\ Release
OneStep(w) == holder = "none" /\ db' = w /\ work' = w /\ UNCHANGED holder
ReadOnly == UNCHANGED <<db, work, holder>>

---------------------------------------------------------------------------
(* The reconciliation: group and channel in turn, in one transaction. *)

NoRun == [pc |-> "idle", at |-> 1, todo |-> {}, rows |-> <<>>]
Idle == rec.pc = "idle"
Here == Chats[rec.at]
Primary == rec.at = 1
Judged == EffectiveAccess(rec.rows[rec.user], rec.paid)
NextUser == [pc |-> "next", at |-> rec.at, todo |-> rec.todo, rows |-> rec.rows]
Pass(i, w) == [pc |-> "next", at |-> i, todo |-> Users, rows |-> Snapshot(w)]

StartRun ==
  /\ Idle
  /\ rec' = Pass(1, db)
  /\ ReadOnly /\ UNCHANGED <<res, telegram, alerted, asked, crashes>>

\* The subscription is read before the await, the clock after it.
AskTelegram ==
  /\ rec.pc = "next"
  /\ \E u \in rec.todo :
       rec' = [pc |-> "asking", at |-> rec.at, todo |-> rec.todo \ {u},
               rows |-> rec.rows, user |-> u, paid |-> Visible("rec").paid[u]]
  /\ ReadOnly /\ UNCHANGED <<res, telegram, alerted, asked, crashes>>

TelegramAnswers ==
  /\ rec.pc = "asking"
  /\ rec' = [pc |-> "answered", at |-> rec.at, todo |-> rec.todo,
             rows |-> rec.rows, user |-> rec.user, paid |-> rec.paid,
             answer |-> chat[Here][rec.user]]
  /\ ReadOnly /\ UNCHANGED <<res, telegram, alerted, asked, crashes>>

\* An exception is counted as failed and the loop goes on.
SkipUser ==
  /\ rec' = NextUser
  /\ ReadOnly /\ UNCHANGED <<res, telegram, alerted, asked, crashes>>

AskingFails == rec.pc = "asking" /\ SkipUser

\* Mutant of Noted: whoever Telegram shows as kicked is banned by hand.
NotedAsBan(w) ==
  [w EXCEPT !.user[rec.user].status = rec.answer,
            !.user[rec.user].banned = @ \/ rec.answer = "kicked"]

\* What the primary group's answer does to the user's row and jobs.
Noted(w) ==
  LET u == rec.user
      row == rec.rows[u]
      resource == IF rec.answer = "in" /\ ~row.banned /\ row.override # "deny"
                    THEN "restore" ELSE "deactivate"
      jobs == {"club"} \cup (IF SiteDeactivation THEN {resource} ELSE {})
  IN IF Primary THEN Queue([w EXCEPT !.user[u].status = rec.answer], u, jobs)
                ELSE w

Member == rec.pc = "answered" /\ rec.answer = "in"
Doomed == Member /\ ~Judged /\ Here \in Removal
\* Mutant of Warned: the warnings of the group count for every chat.
WarnedInGroup == Visible("rec").warned[Group][rec.user]

Warned == Visible("rec").warned[Here][rec.user]

KeepUser ==
  /\ rec.pc = "answered"
  /\ Judged
  /\ LET u == rec.user
         w == [Noted(Visible("rec")) EXCEPT !.warned[Here][u] = "none"]
         left == Primary /\ rec.answer = "left" /\ SiteDeactivation
     IN Write("rec", Queue(w, u, IF left THEN {"left"} ELSE {}))
  /\ rec' = NextUser
  /\ UNCHANGED <<res, telegram, alerted, asked, crashes>>

\* A write only for the primary group: without it the lock is not needed.
JustNote == IF Primary THEN Write("rec", Noted(Visible("rec"))) ELSE ReadOnly

LetAlone ==
  /\ rec.pc = "answered" /\ ~Judged
  /\ ~Doomed \/ Warned = "today"
  /\ JustNote
  /\ rec' = NextUser
  /\ UNCHANGED <<res, telegram, alerted, asked, crashes>>

\* ADMIN_TELEGRAM_IDS names somebody, here and in LapsedMemberLeaves: if not,
\* nobody is warned and nobody is removed.
AskAdmins ==
  /\ Doomed /\ Warned = "none"
  /\ JustNote
  /\ rec' = [pc |-> "alerting", at |-> rec.at, todo |-> rec.todo,
             rows |-> rec.rows, user |-> rec.user, day |-> "today"]
  /\ UNCHANGED <<res, telegram, alerted, asked, crashes>>

DecideRemoval ==
  /\ Doomed /\ Warned = "earlier"
  /\ Write("rec", [Noted(Visible("rec")) EXCEPT !.user[rec.user].source = "system"])
  /\ rec' = [pc |-> "banning", at |-> rec.at, todo |-> rec.todo,
             rows |-> rec.rows, user |-> rec.user]
  /\ UNCHANGED <<res, telegram, alerted, asked, crashes>>

\* "database is locked": the reconciliation's first write waits in vain.
LockTimeout ==
  /\ rec.pc = "answered" /\ ~MayWrite("rec")
  /\ Primary \/ Judged \/ (Doomed /\ Warned = "earlier")
  /\ SkipUser

AlertSent ==
  /\ rec.pc = "alerting"
  /\ alerted' = [alerted EXCEPT ![Here][rec.user] = rec.day]
  /\ Write("rec", [Visible("rec") EXCEPT !.warned[Here][rec.user] = rec.day])
  /\ rec' = NextUser
  /\ UNCHANGED <<res, telegram, asked, crashes>>

\* Sending fails, or the row cannot be written: nothing is recorded.
AlertFails ==
  /\ rec.pc = "alerting"
  /\ SkipUser

Thrown(c, u) ==
  /\ chat' = [chat EXCEPT ![c][u] = "kicked"]
  /\ updates' = IF c = Group /\ chat[c][u] # "kicked"
                  THEN [updates EXCEPT ![u] = Append(@, "kicked")] ELSE updates

BanUser ==
  /\ rec.pc = "banning" /\ rec.user \notin Admins
  /\ Thrown(Here, rec.user)
  /\ LET denied == Primary /\ SiteDeactivation
     IN Write("rec", Queue(work, rec.user, IF denied THEN {"denied"} ELSE {}))
  /\ rec' = NextUser
  /\ UNCHANGED <<res, alerted, kicked, asked, crashes>>

\* banChatMember did its work but its answer was lost.
BanUnconfirmed ==
  /\ rec.pc = "banning" /\ rec.user \notin Admins
  /\ Thrown(Here, rec.user)
  /\ rec' = NextUser
  /\ ReadOnly /\ UNCHANGED <<res, alerted, kicked, asked, crashes>>

BanFails == rec.pc = "banning" /\ SkipUser

NextChat ==
  /\ rec.pc = "next" /\ rec.todo = {} /\ rec.at < Len(Chats)
  /\ rec' = Pass(rec.at + 1, Visible("rec"))
  /\ ReadOnly /\ UNCHANGED <<res, telegram, alerted, asked, crashes>>

FinishRun ==
  /\ rec.pc = "next" /\ rec.todo = {} /\ rec.at = Len(Chats)
  /\ IF holder = "rec" THEN Commit("rec") ELSE ReadOnly
  /\ alerted' = [c \in Places |-> [u \in Users |->
       IF Visible("rec").warned[c][u] = "none" THEN "none" ELSE alerted[c][u]]]
  /\ rec' = NoRun
  /\ UNCHANGED <<res, telegram, asked, crashes>>

HandleAnswer ==
  KeepUser \/ LetAlone \/ AskAdmins \/ DecideRemoval \/ LockTimeout
Reconcile ==
  \/ StartRun \/ AskTelegram \/ TelegramAnswers \/ AskingFails \/ HandleAnswer
  \/ AlertSent \/ AlertFails \/ BanUser \/ BanUnconfirmed \/ BanFails
  \/ NextChat \/ FinishRun

---------------------------------------------------------------------------
(* The restore worker: every pending job in one transaction. *)

NoBatch == [pc |-> "idle", todo |-> {}]

\* Mutant of Ends: a finished job gets the status finished invites have.
EndsSent(j, w, result) ==
  [w EXCEPT !.restore[j].status = IF result = "done" THEN "sent" ELSE result]

Ends(j, w, result) == [w EXCEPT !.restore[j].status = result]

\* Mutant of Failed: the ban lifted at the start of the job is not put back.
FailedLifted(j, w) == Ends(j, w, "failed")

Failed(j, w) == Ends(j, [w EXCEPT !.user[w.restore[j].user].banned = TRUE], "failed")
JobUser == work.restore[res.job].user

StartRestores ==
  LET pending == {j \in DOMAIN db.restore : db.restore[j].status = "pending"} IN
  /\ res.pc = "idle" /\ pending # {}
  /\ res' = [pc |-> "next", todo |-> pending]
  /\ ReadOnly /\ UNCHANGED <<rec, telegram, alerted, asked, crashes>>

\* The first job of the batch: the ban in the row is lifted before the
\* worker asks whether access is active.  The subscription is read just before
\* that write takes the lock; here both are one step.
TakeRestore ==
  /\ res.pc = "next"
  /\ \E j \in res.todo :
       LET w == Visible("res")
           u == w.restore[j].user
           lifted == [w EXCEPT !.user[u].banned = FALSE]
           rest == res.todo \ {j}
       IN
       /\ \A k \in rest : j < k
       /\ IF w.user[u].banned /\ Active(lifted, u)
            THEN /\ Write("res", lifted)
                 /\ res' = [pc |-> "unban", todo |-> rest, job |-> j, at |-> 1]
            ELSE /\ Write("res", Failed(j, w))
                 /\ res' = [pc |-> "next", todo |-> rest]
  /\ UNCHANGED <<rec, telegram, alerted, asked, crashes>>

Past(u) == IF kicked[u] = "now" THEN [kicked EXCEPT ![u] = "before"] ELSE kicked

\* unbanChatMember with only_if_banned, then a link to the chat.
Unban ==
  /\ res.pc = "unban" /\ res.at <= Len(Chats)
  /\ LET c == Chats[res.at]
         u == JobUser
         lifted == chat[c][u] = "kicked"
     IN /\ chat' = IF lifted THEN [chat EXCEPT ![c][u] = "left"] ELSE chat
        /\ updates' = IF lifted /\ c = Group
                        THEN [updates EXCEPT ![u] = Append(@, "left")] ELSE updates
        /\ kicked' = IF c = Group THEN Past(u) ELSE kicked
  /\ res' = [res EXCEPT !.at = @ + 1]
  /\ ReadOnly /\ UNCHANGED <<rec, alerted, asked, crashes>>

\* The message with the links arrives.
Restored ==
  /\ res.pc = "unban" /\ res.at > Len(Chats)
  /\ LET w == [work EXCEPT !.user[JobUser].banned = FALSE,
                           !.user[JobUser].source = "none",
                           !.user[JobUser].status = "unknown"]
     IN Write("res", Ends(res.job, w, "done"))
  /\ res' = [pc |-> "next", todo |-> res.todo]
  /\ UNCHANGED <<rec, telegram, alerted, asked, crashes>>

\* Telegram refuses one of the calls.
RestoreRefused ==
  /\ res.pc = "unban"
  /\ Write("res", Failed(res.job, work))
  /\ res' = [pc |-> "next", todo |-> res.todo]
  /\ UNCHANGED <<rec, telegram, alerted, asked, crashes>>

\* A timeout is not a TelegramError, nor is a lock that stays taken:
\* either ends the request and undoes the whole batch.
RestoresAbort ==
  /\ res.pc = "unban" \/ (res.pc = "next" /\ res.todo # {} /\ ~MayWrite("res"))
  /\ IF holder = "res" THEN Rollback ELSE ReadOnly
  /\ res' = NoBatch
  /\ UNCHANGED <<rec, telegram, alerted, asked, crashes>>

FinishRestores ==
  /\ res.pc = "next" /\ res.todo = {}
  /\ IF holder = "res" THEN Commit("res") ELSE ReadOnly
  /\ res' = NoBatch
  /\ UNCHANGED <<rec, telegram, alerted, asked, crashes>>

RestoreWorker ==
  \/ StartRestores \/ TakeRestore \/ Unban \/ Restored \/ RestoreRefused
  \/ RestoresAbort \/ FinishRestores

---------------------------------------------------------------------------
(* Handlers of one step: the webhook and the commands of the sheet. *)

\* _process_chat_member_update, for an update about the group.
Recorded(u, status) ==
  LET row == db.user[u]
      set == [db EXCEPT !.user[u].status = status]
      club == Queue(set, u, {"club"})
      rejoined == /\ row.status = "left" /\ ~row.banned
                  /\ row.override # "deny" \/ Active(db, u)
  IN CASE status = "kicked" /\ row.source # "system" ->
            Queue([club EXCEPT !.user[u].banned = TRUE, !.user[u].source = "admin"],
                  u, {"kicked"})
       [] status = "left" -> Queue(club, u, {"deactivate"})
       [] status = "in" /\ rejoined -> Queue(club, u, {"restore"})
       [] OTHER -> club

Deliver(u) ==
  /\ \E i \in DOMAIN updates[u] :
       /\ i = 1 \/ Reordering
       /\ OneStep(Recorded(u, updates[u][i]))
       /\ updates' = [updates EXCEPT
            ![u] = SubSeq(@, 1, i - 1) \o SubSeq(@, i + 1, Len(@))]
  /\ UNCHANGED <<rec, res, chat, alerted, kicked, asked, crashes>>

Decide(u) ==
  /\ \E d \in Decisions :
       LET jobs == IF d = "deny" THEN {"club", "deactivate"} ELSE {"club"}
       IN OneStep(IF d \in {"allow", "deny"}
                    THEN Queue([db EXCEPT !.user[u].override = d], u, jobs)
                    ELSE [db EXCEPT !.user[u].whitelist = (d = "whitelist")])
  /\ UNCHANGED <<rec, res, telegram, alerted, asked, crashes>>

\* The command reads in its thread and takes the lock at its first write,
\* where it waits for the restore worker and checks nothing again.
CheckRestore(u) ==
  /\ u \notin asked
  /\ db.user[u].banned /\ Len(db.restore) < MaxRestores
  /\ asked' = asked \cup {u}
  /\ ReadOnly /\ UNCHANGED <<rec, res, telegram, alerted, crashes>>

WriteRestore(u) ==
  /\ u \in asked
  /\ LET w == [db EXCEPT !.user[u].status = "unknown", !.user[u].banned = TRUE]
         queued == Active([db EXCEPT !.user[u].banned = FALSE], u)
     IN OneStep(IF queued
          THEN [w EXCEPT !.restore = Append(@, [user |-> u, status |-> "pending"])]
          ELSE w)
  /\ asked' = asked \ {u}
  /\ UNCHANGED <<rec, res, telegram, alerted, crashes>>

DropRestore(u) ==
  /\ u \in asked
  /\ asked' = asked \ {u}
  /\ ReadOnly /\ UNCHANGED <<rec, res, telegram, alerted, crashes>>

RestoreCommand(u) == CheckRestore(u) \/ WriteRestore(u) \/ DropRestore(u)

\* A payment is booked (module SheetPayments) and the term lies ahead.
Pay(u) ==
  /\ ~db.paid[u]
  /\ OneStep([db EXCEPT !.paid[u] = TRUE])
  /\ UNCHANGED <<rec, res, telegram, alerted, asked, crashes>>

---------------------------------------------------------------------------
(* The world: the clock, people in Telegram, restarts. *)

\* A term ends; every reader sees it, whichever row it holds.
Expire(u) ==
  /\ db.paid[u]
  /\ db' = [db EXCEPT !.paid[u] = FALSE]
  /\ work' = [work EXCEPT !.paid[u] = FALSE]
  /\ rec' = IF rec.pc \in {"asking", "answered"} /\ rec.user = u
              THEN [rec EXCEPT !.paid = FALSE] ELSE rec
  /\ UNCHANGED <<holder, res, telegram, alerted, asked, crashes>>

Older(days) ==
  [c \in Places |-> [u \in Users |->
    IF days[c][u] = "today" THEN "earlier" ELSE days[c][u]]]

Today(days) == \E c \in Places, u \in Users : days[c][u] = "today"

Midnight ==
  /\ Today(db.warned) \/ Today(work.warned) \/ Today(alerted) \/ rec.pc = "alerting"
  /\ db' = [db EXCEPT !.warned = Older(@)]
  /\ work' = [work EXCEPT !.warned = Older(@)]
  /\ alerted' = Older(alerted)
  /\ rec' = IF rec.pc = "alerting" THEN [rec EXCEPT !.day = "earlier"] ELSE rec
  /\ UNCHANGED <<holder, res, telegram, asked, crashes>>

Move(c, u, m) ==
  /\ chat[c][u] # m /\ Len(updates[u]) < MaxUpdates
  /\ chat' = [chat EXCEPT ![c][u] = m]
  /\ updates' = IF c = Group THEN [updates EXCEPT ![u] = Append(@, m)] ELSE updates
  /\ ReadOnly /\ UNCHANGED <<rec, res, alerted, asked, crashes>>

Join(c, u) == chat[c][u] = "left" /\ Move(c, u, "in") /\ UNCHANGED kicked
Leave(c, u) == chat[c][u] = "in" /\ Move(c, u, "left") /\ UNCHANGED kicked
AdminUnbans(c, u) ==
  /\ chat[c][u] = "kicked"
  /\ Move(c, u, "left")
  /\ kicked' = IF c = Group THEN Past(u) ELSE kicked
AdminKicks(c, u) ==
  /\ u \notin Admins
  /\ Move(c, u, "kicked")
  /\ kicked' = IF c = Group THEN [kicked EXCEPT ![u] = "now"] ELSE kicked

Crash ==
  /\ crashes < MaxCrashes
  /\ crashes' = crashes + 1
  /\ Rollback
  /\ rec' = NoRun /\ res' = NoBatch
  /\ asked' = {}
  /\ UNCHANGED <<telegram, alerted>>

People == \E c \in Places, u \in Users :
  Join(c, u) \/ Leave(c, u) \/ AdminUnbans(c, u) \/ AdminKicks(c, u)
Requests == \E u \in Users :
  Deliver(u) \/ Decide(u) \/ RestoreCommand(u) \/ Pay(u) \/ Expire(u)

---------------------------------------------------------------------------
Joined == [override |-> "none", whitelist |-> FALSE, banned |-> FALSE,
           source |-> "none", status |-> "in", jobs |-> {}]

Init ==
  /\ db = [user |-> [u \in Users |-> Joined], paid |-> [u \in Users |-> TRUE],
           warned |-> [c \in Places |-> [u \in Users |-> "none"]],
           restore |-> <<>>]
  /\ work = db /\ holder = "none" /\ rec = NoRun /\ res = NoBatch
  /\ chat = [c \in Places |-> [u \in Users |-> "in"]]
  /\ updates = [u \in Users |-> <<>>]
  /\ alerted = [c \in Places |-> [u \in Users |-> "none"]]
  /\ kicked = [u \in Users |-> "never"] /\ asked = {} /\ crashes = 0

Next == Reconcile \/ RestoreWorker \/ Requests \/ Midnight \/ People \/ Crash

Spec == Init /\ [][Next]_vars

---------------------------------------------------------------------------
(* Properties. *)

RunTypeOK ==
  /\ rec.pc \in {"idle", "next", "asking", "answered", "alerting", "banning"}
  /\ rec.at \in DOMAIN Chats /\ rec.todo \subseteq Users
  /\ rec.pc # "idle" => rec.rows \in [Users -> Manual]
  /\ rec.pc \in {"asking", "answered", "alerting", "banning"} => rec.user \in Users
  /\ rec.pc \in {"asking", "answered"} => rec.paid \in BOOLEAN
  /\ rec.pc = "answered" => rec.answer \in Membership
  /\ rec.pc = "alerting" => rec.day \in Day

BatchTypeOK ==
  /\ res.pc \in {"idle", "next", "unban"}
  /\ res.todo \subseteq DOMAIN db.restore
  /\ res.pc = "unban" => res.job \in DOMAIN db.restore /\ res.at \in 1 .. Len(Chats) + 1

TypeOK ==
  /\ db \in Database /\ work \in Database
  /\ holder \in {"none", "rec", "res"}
  /\ RunTypeOK /\ BatchTypeOK
  /\ chat \in [Places -> [Users -> Membership]]
  /\ updates \in [Users -> Seq(Membership)]
  /\ alerted \in [Places -> [Users -> Day]]
  /\ kicked \in [Users -> {"never", "before", "now"}]
  /\ asked \subseteq Users
  /\ crashes \in 0 .. MaxCrashes

BotBans(c, u) == rec.pc = "banning" /\ chat[c][u] # "kicked" /\ chat'[c][u] = "kicked"

\* A removal never comes unannounced: the administrators were alerted about
\* this member and this chat on an earlier day, and no finished check has found
\* the access active since.  Holds across restarts and failed calls.
RemovalFollowsAlert ==
  [][\A c \in Places, u \in Users :
       BotBans(c, u) /\ rec' # rec => alerted[c][u] = "earlier"]_vars

\* A manual ban in the database goes back to an update Telegram delivered
\* about this member: no restore job that fails, no restore command that was
\* overtaken by the worker bans a member whom nobody ever threw out.
BanWasReported ==
  \A u \in Users : db.user[u].banned => "kicked" \in db.user[u].jobs

\* The manual ban is lifted by nothing but a restore job that reached its end.
BanLiftedByRestore ==
  [][\A u \in Users : db.user[u].banned /\ ~db'.user[u].banned =>
       \E j \in DOMAIN db.restore :
         /\ db.restore[j] = [user |-> u, status |-> "pending"]
         /\ db'.restore[j].status = "done"]_vars

\* A deny that was recorded is never undone in Telegram: the restore worker
\* lifts no ban of a member whose override is deny.
DeniedStaysOut ==
  [][\A c \in Places, u \in Users :
       res' # res /\ chat[c][u] = "kicked" /\ chat'[c][u] # "kicked" =>
         db.user[u].override # "deny"]_vars

\* Only what an administrator did in the group becomes a manual ban; the
\* bot's own removals do not, ...
ManualBanNeedsAdmin == \A u \in Users : db.user[u].banned => kicked[u] # "never"

\* ... as long as the backend is not restarted between a removal and the
\* commit of the run, in whatever order Telegram delivers the updates.
OwnRemovalIsNoManualBan == crashes = 0 => ManualBanNeedsAdmin

\* A member an administrator threw out of the group is banned in the database
\* once every update about the member is delivered, unless the row carries the
\* mark of a removal by the bot.
AdminKickRecorded ==
  \A u \in Users :
    kicked[u] = "now" /\ updates[u] = <<>> /\ db.user[u].source # "system"
      => db.user[u].banned

---------------------------------------------------------------------------
(* Fairness: the scheduler keeps calling both jobs, days pass, Telegram     *)
(* repeats an update until it is taken, and a call to Telegram that is made *)
(* again and again succeeds in the end.                                     *)

About(c, u) == rec.user = u /\ Here = c
Handled == KeepUser \/ LetAlone \/ AskAdmins \/ DecideRemoval

Fairness ==
  /\ WF_vars(Reconcile) /\ WF_vars(RestoreWorker) /\ WF_vars(Midnight)
  /\ \A u \in Users : SF_vars(Deliver(u))
  /\ \A c \in Places, u \in Users :
       /\ SF_vars(TelegramAnswers /\ About(c, u)) /\ SF_vars(Handled /\ About(c, u))
       /\ SF_vars(AlertSent /\ About(c, u)) /\ SF_vars(BanUser /\ About(c, u))
  /\ SF_vars(Unban) /\ SF_vars(Restored)

FairSpec == Spec /\ Fairness

\* Who stays without access is put out of the group in the end.
LapsedMemberLeaves ==
  \A u \in Users \ Admins :
    chat[Group][u] = "in" /\ ~Active(db, u) ~>
      chat[Group][u] # "in" \/ Active(db, u)
=============================================================================
