------------------------------- MODULE Invites -------------------------------
(***************************************************************************)
(* Personal invite links: the worker that turns invite jobs into links,    *)
(* the webhook that answers join requests, the worker that revokes expired *)
(* links, and the administrator's endpoint.  All of them await Telegram;   *)
(* the webhook and, from its first write on, each worker hold SQLite's     *)
(* write lock meanwhile (see module Membership).                           *)
(***************************************************************************)
EXTENDS Access, Sequences, FiniteSetsExt

CONSTANTS
  Users,        \* members that invites are made for
  Strangers,    \* other people who get hold of a link
  Decisions,    \* the access commands the operator gives
  Chats,        \* the chats invites are made for, the group first
  MaxJobs,      \* bound on telegram.invite jobs
  MaxLinks,     \* bound on links made by Telegram
  MaxRequests,  \* bound on join requests
  MaxEvents,    \* bound on links and join requests together
  MaxCrashes    \* bound on restarts of the backend

ASSUME PeopleAssumption == Users \cap Strangers = {}
ASSUME DecisionsAssumption == Decisions \subseteq {"allow", "deny"}
ASSUME BoundsAssumption ==
  {MaxJobs, MaxLinks, MaxRequests, MaxEvents, MaxCrashes} \subseteq Nat
ASSUME ChatsAssumption == Chats \in Seq(STRING) /\ Len(Chats) > 0

VARIABLES
  db,        \* the committed database
  work,      \* the database as the transaction of the lock's holder sees it
  holder,    \* the handler that holds SQLite's write lock
  worker,    \* the run of process_telegram_invites
  hook,      \* the webhook call that answers a join request
  revoker,   \* the run of revoke_telegram_invites
  admin,     \* the call of the invite endpoint
  link,      \* Telegram: the links made so far
  member,    \* Telegram: who is in which chat
  waiting,   \* Telegram: whose join request is open in which chat
  requests,  \* every join request ever made; its index is the update id
  queue,     \* Telegram: the updates that were not acknowledged
  message,   \* the links of the last message sent for each job
  uses,      \* how often each link's use was committed
  crashes

telegram == <<link, member, waiting, requests, queue>>
runs == <<worker, hook, revoker, admin>>
ghosts == <<message, uses>>
vars == <<db, work, holder, runs, telegram, ghosts, crashes>>

---------------------------------------------------------------------------
Places == {Chats[i] : i \in DOMAIN Chats}
People == Users \cup Strangers
LinkIds == 1 .. MaxLinks
JobIds == 1 .. MaxJobs
UpdateIds == 1 .. MaxRequests

Manual == [override : Overrides, whitelist : BOOLEAN, banned : BOOLEAN]
Job == [user : Users, status : {"pending", "done", "failed"}]
InviteStatus == {"none", "pending", "used", "expired"}
Database == [user : [Users -> Manual], paid : [Users -> BOOLEAN], jobs : Seq(Job),
             invites : [LinkIds -> InviteStatus], inbox : SUBSET UpdateIds]
\* late: the 24 hours are over, for Telegram and for the row's expires_at.
Link == [owner : Users, chat : Places, by : {"job", "admin", "restore"},
         state : {"made", "sent", "revoked"}, late : BOOLEAN]

Active(w, u) == EffectiveAccess(w.user[u], w.paid[u])

Visible(h) == IF holder = h THEN work ELSE db
MayWrite(h) == holder \in {"none", h}
Write(h, w) == MayWrite(h) /\ holder' = h /\ work' = w /\ UNCHANGED db
Commit(w) == db' = w /\ work' = w /\ holder' = "none"
Finish(h) == IF holder = h THEN Commit(work) ELSE UNCHANGED <<db, work, holder>>
Undo(h) == IF holder = h THEN Commit(db) ELSE UNCHANGED <<db, work, holder>>
OneStep(w) == holder = "none" /\ Commit(w)
ReadOnly == UNCHANGED <<db, work, holder>>

\* createChatInviteLink: a link that asks for approval.
Fresh(u, c, by, state) ==
  [owner |-> u, chat |-> c, by |-> by, state |-> state, late |-> FALSE]
NewLink == Len(link) + 1
MoreEvents == Len(link) + Len(requests) < MaxEvents
MayMake == Len(link) < MaxLinks /\ MoreEvents

---------------------------------------------------------------------------
(* The invite worker: all pending jobs in one transaction.                 *)

Resting == [pc |-> "idle", todo |-> {}]
NextJob(todo) == [pc |-> "next", todo |-> todo]
JobUser == Visible("worker").jobs[worker.job].user
Ended(j, status) == [Visible("worker") EXCEPT !.jobs[j].status = status]

StartInvites ==
  LET pending == {j \in DOMAIN db.jobs : db.jobs[j].status = "pending"} IN
  /\ worker.pc = "idle" /\ pending # {}
  /\ worker' = NextJob(pending)
  /\ ReadOnly /\ UNCHANGED <<hook, revoker, admin, telegram, ghosts, crashes>>

\* Access is looked at once, before the first call to Telegram.
TakeJob ==
  /\ worker.pc = "next" /\ worker.todo # {}
  /\ LET j == Min(worker.todo)
         todo == worker.todo \ {j}
     IN \/ /\ Active(Visible("worker"), Visible("worker").jobs[j].user)
           /\ worker' = [pc |-> "asking", todo |-> todo, job |-> j, at |-> 1,
                         links |-> {}]
           /\ ReadOnly
        \/ /\ ~Active(Visible("worker"), Visible("worker").jobs[j].user)
           /\ Write("worker", Ended(j, "failed"))
           /\ worker' = NextJob(todo)
  /\ UNCHANGED <<hook, revoker, admin, telegram, ghosts, crashes>>

\* getChatMember: a chat the user is in needs no link.
AskMember ==
  /\ worker.pc = "asking" /\ worker.at <= Len(Chats)
  /\ worker' = IF JobUser \in member[Chats[worker.at]]
                 THEN [worker EXCEPT !.at = @ + 1]
                 ELSE [worker EXCEPT !.pc = "linking"]
  /\ ReadOnly /\ UNCHANGED <<hook, revoker, admin, telegram, ghosts, crashes>>

LinkMade ==
  /\ worker' = [worker EXCEPT !.pc = "asking", !.at = @ + 1,
                              !.links = @ \cup {NewLink}]
  /\ link' = Append(link, Fresh(JobUser, Chats[worker.at], "job", "made"))
  /\ UNCHANGED <<hook, revoker, admin, member, waiting, requests, queue, ghosts,
                 crashes>>

\* Mutant of CreateLink: the row is not inserted.
CreateLinkUnrecorded == worker.pc = "linking" /\ MayMake /\ LinkMade /\ ReadOnly

CreateLink ==
  /\ worker.pc = "linking" /\ MayMake
  /\ Write("worker", [Visible("worker") EXCEPT !.invites[NewLink] = "pending"])
  /\ LinkMade

Delivered(ls) ==
  [l \in DOMAIN link |->
     IF l \in ls THEN [link[l] EXCEPT !.state = "sent"] ELSE link[l]]

\* One message with the links of all chats, none when the user is in all.
SendLinks ==
  /\ worker.pc = "asking" /\ worker.at > Len(Chats)
  /\ Write("worker", Ended(worker.job, "done"))
  /\ link' = Delivered(worker.links)
  /\ message' = [message EXCEPT ![worker.job] = worker.links]
  /\ worker' = NextJob(worker.todo)
  /\ UNCHANGED <<hook, revoker, admin, member, waiting, requests, queue, uses, crashes>>

\* Telegram refuses a call: the job is over, the rows of its links stay.
InviteRefused ==
  /\ worker.pc = "asking" => worker.at <= Len(Chats) \/ worker.links # {}
  /\ worker.pc \in {"asking", "linking"}
  /\ Write("worker", Ended(worker.job, "failed"))
  /\ worker' = NextJob(worker.todo)
  /\ UNCHANGED <<hook, revoker, admin, telegram, ghosts, crashes>>

\* A timeout is not a TelegramError, nor is a lock that stays taken: either
\* ends the request and undoes the whole batch, though a message or a link may
\* have come through.
InvitesAbort ==
  /\ worker.pc \in {"asking", "linking"} \/ (worker.pc = "next" /\ ~MayWrite("worker"))
  /\ Undo("worker")
  /\ \/ UNCHANGED <<link, message>>
     \/ /\ worker.pc = "asking" /\ worker.at > Len(Chats)
        /\ link' = Delivered(worker.links)
        /\ message' = [message EXCEPT ![worker.job] = worker.links]
  /\ worker' = Resting
  /\ UNCHANGED <<hook, revoker, admin, member, waiting, requests, queue, uses, crashes>>

FinishInvites ==
  /\ worker.pc = "next" /\ worker.todo = {}
  /\ Finish("worker")
  /\ worker' = Resting
  /\ UNCHANGED <<hook, revoker, admin, telegram, ghosts, crashes>>

InviteWorker ==
  \/ StartInvites \/ TakeJob \/ AskMember \/ CreateLink \/ SendLinks
  \/ InviteRefused \/ InvitesAbort \/ FinishInvites

---------------------------------------------------------------------------
(* The webhook: a join request is claimed in the inbox, which takes the    *)
(* lock, checked, and answered.                                            *)

Silent == [pc |-> "idle"]

\* Mutants of Honoured: the applicant is not compared with the owner; the
\* status of the row is not looked at.
HonouredForAnyone(w, i) ==
  LET l == requests[i].link
  IN w.invites[l] = "pending" /\ ~link[l].late /\ Active(w, link[l].owner)

HonouredAgain(w, i) ==
  LET l == requests[i].link
  IN /\ w.invites[l] # "none" /\ requests[i].user = link[l].owner
     /\ ~link[l].late /\ Active(w, link[l].owner)

\* The row of the link is pending, its owner asks, in time and with access.
Honoured(w, i) ==
  LET l == requests[i].link
  IN /\ w.invites[l] = "pending" /\ requests[i].user = link[l].owner
     /\ ~link[l].late /\ Active(w, link[l].owner)

Claimed(i) == [db EXCEPT !.inbox = @ \cup {i}]

Checked(i) ==
  /\ hook.pc = "idle" /\ i \in queue \ db.inbox
  /\ hook' = [pc |-> IF Honoured(db, i) THEN "approving" ELSE "declining", update |-> i]
  /\ UNCHANGED <<worker, revoker, admin, telegram, ghosts, crashes>>

\* Mutant of TakeRequest: the claim is committed before Telegram is called.
TakeRequestUnlocked(i) == OneStep(Claimed(i)) /\ Checked(i)

TakeRequest(i) ==
  /\ holder = "none" /\ Write("hook", Claimed(i))
  /\ Checked(i)

Asker == requests[hook.update].user
Door == link[requests[hook.update].link].chat

\* Telegram acknowledges an update when the answer to the webhook arrives.
Acknowledged(i) == queue' \in {queue, queue \ {i}}

Enter ==
  /\ waiting' = [waiting EXCEPT ![Door] = @ \ {Asker}]
  /\ member' = [member EXCEPT ![Door] = @ \cup {Asker}]

TurnAway == waiting' = [waiting EXCEPT ![Door] = @ \ {Asker}] /\ UNCHANGED member

Approve ==
  LET l == requests[hook.update].link IN
  /\ hook.pc = "approving" /\ Asker \in waiting[Door]
  /\ Enter
  /\ MayWrite("hook") /\ Commit([Visible("hook") EXCEPT !.invites[l] = "used"])
  /\ uses' = [uses EXCEPT ![l] = @ + 1]
  /\ Acknowledged(hook.update) /\ hook' = Silent
  /\ UNCHANGED <<worker, revoker, admin, link, requests, message, crashes>>

\* Whatever is wrong with the request, a pending row is spent by it.
Decline ==
  LET l == requests[hook.update].link
      spent == IF Visible("hook").invites[l] = "pending"
                 THEN "expired" ELSE Visible("hook").invites[l]
  IN
  /\ hook.pc = "declining" /\ Asker \in waiting[Door]
  /\ TurnAway
  /\ MayWrite("hook") /\ Commit([Visible("hook") EXCEPT !.invites[l] = spent])
  /\ Acknowledged(hook.update) /\ hook' = Silent
  /\ UNCHANGED <<worker, revoker, admin, link, requests, ghosts, crashes>>

\* The call to Telegram fails, perhaps after it took effect: the claim is
\* undone and Telegram sends the update again.
AnswerFails ==
  /\ hook.pc \in {"approving", "declining"}
  /\ \/ UNCHANGED <<waiting, member>>
     \/ Asker \in waiting[Door] /\ hook.pc = "approving" /\ Enter
     \/ Asker \in waiting[Door] /\ hook.pc = "declining" /\ TurnAway
  /\ Undo("hook") /\ hook' = Silent
  /\ UNCHANGED <<worker, revoker, admin, link, requests, queue, ghosts, crashes>>

\* The update was processed before and its acknowledgement was lost.
Duplicate(i) ==
  /\ hook.pc = "idle" /\ holder = "none" /\ i \in queue \cap db.inbox
  /\ queue' = queue \ {i}
  /\ ReadOnly /\ UNCHANGED <<runs, link, member, waiting, requests, ghosts, crashes>>

Webhook ==
  \/ \E i \in UpdateIds : TakeRequest(i) \/ Duplicate(i)
  \/ Approve \/ Decline \/ AnswerFails

---------------------------------------------------------------------------
(* The revoking worker and the administrator's endpoint.                   *)

StartRevoking ==
  LET late == {l \in DOMAIN link : db.invites[l] = "pending" /\ link[l].late} IN
  /\ revoker.pc = "idle" /\ late # {}
  /\ revoker' = NextJob(late)
  /\ ReadOnly /\ UNCHANGED <<worker, hook, admin, telegram, ghosts, crashes>>

LinkRevoked(l) ==
  /\ link' = [link EXCEPT ![l].state = "revoked"]
  /\ revoker' = NextJob(revoker.todo \ {l})
  /\ UNCHANGED <<worker, hook, admin, member, waiting, requests, queue, ghosts, crashes>>

\* Mutant of RevokeLink: the status says what was done to the link.
RevokeLinkNamed ==
  LET l == Min(revoker.todo) IN
  /\ revoker.pc = "next" /\ revoker.todo # {}
  /\ Write("revoker", [Visible("revoker") EXCEPT !.invites[l] = "revoked"])
  /\ LinkRevoked(l)

\* The row's status is not looked at again after the await.
RevokeLink ==
  LET l == Min(revoker.todo) IN
  /\ revoker.pc = "next" /\ revoker.todo # {}
  /\ Write("revoker", [Visible("revoker") EXCEPT !.invites[l] = "expired"])
  /\ LinkRevoked(l)

RevokeRefused ==
  /\ revoker.pc = "next" /\ revoker.todo # {}
  /\ revoker' = NextJob(revoker.todo \ {Min(revoker.todo)})
  /\ ReadOnly /\ UNCHANGED <<worker, hook, admin, telegram, ghosts, crashes>>

\* A timeout or a lock that stays taken; the link may be revoked all the same.
RevokingAborts ==
  LET l == Min(revoker.todo) IN
  /\ revoker.pc = "next" /\ revoker.todo # {}
  /\ Undo("revoker")
  /\ link' \in {link, [link EXCEPT ![l].state = "revoked"]}
  /\ revoker' = Resting
  /\ UNCHANGED <<worker, hook, admin, member, waiting, requests, queue, ghosts, crashes>>

FinishRevoking ==
  /\ revoker.pc = "next" /\ revoker.todo = {}
  /\ Finish("revoker")
  /\ revoker' = Resting
  /\ UNCHANGED <<worker, hook, admin, telegram, ghosts, crashes>>

Revoker ==
  StartRevoking \/ RevokeLink \/ RevokeRefused \/ RevokingAborts \/ FinishRevoking

\* create_personal_invite: access is checked before the await, the row is
\* written after it and the link goes to the administrator.
AskInvite(u) ==
  /\ admin.pc = "idle" /\ Active(db, u)
  /\ admin' = [pc |-> "linking", user |-> u]
  /\ ReadOnly /\ UNCHANGED <<worker, hook, revoker, telegram, ghosts, crashes>>

InviteMade ==
  /\ admin.pc = "linking" /\ MayMake
  /\ OneStep([db EXCEPT !.invites[NewLink] = "pending"])
  /\ link' = Append(link, Fresh(admin.user, Chats[1], "admin", "sent"))
  /\ admin' = Silent
  /\ UNCHANGED <<worker, hook, revoker, member, waiting, requests, queue, ghosts, crashes>>

\* The call fails, or the row cannot be written: nobody gets the link.
InviteFails ==
  /\ admin.pc = "linking"
  /\ admin' = Silent
  /\ ReadOnly /\ UNCHANGED <<worker, hook, revoker, telegram, ghosts, crashes>>

Endpoint == InviteMade \/ InviteFails \/ \E u \in Users : AskInvite(u)

---------------------------------------------------------------------------
(* What else happens to the tables and the links.                          *)

\* A payment or the command issue_invite queues a job.
QueueInvite(u) ==
  /\ Len(db.jobs) < MaxJobs
  /\ OneStep([db EXCEPT !.jobs = Append(@, [user |-> u, status |-> "pending"])])
  /\ UNCHANGED <<runs, telegram, ghosts, crashes>>

\* The command deny or allow.
Decide(u) ==
  /\ \E d \in Decisions \ {db.user[u].override} :
       OneStep([db EXCEPT !.user[u].override = d])
  /\ UNCHANGED <<runs, telegram, ghosts, crashes>>

\* A term ends for every reader at once.
PaidEnds(u) ==
  /\ db.paid[u]
  /\ db' = [db EXCEPT !.paid[u] = FALSE] /\ work' = [work EXCEPT !.paid[u] = FALSE]
  /\ UNCHANGED <<holder, runs, telegram, ghosts, crashes>>

\* The links of a restore job (module Membership): sent, and no row is made.
RestoreLink(u) ==
  /\ MayMake
  /\ link' = Append(link, Fresh(u, Chats[1], "restore", "sent"))
  /\ ReadOnly
  /\ UNCHANGED <<runs, member, waiting, requests, queue, ghosts, crashes>>

Expire(l) ==
  /\ l \in DOMAIN link /\ ~link[l].late
  /\ link' = [link EXCEPT ![l].late = TRUE]
  /\ ReadOnly
  /\ UNCHANGED <<runs, member, waiting, requests, queue, ghosts, crashes>>

\* Whoever holds a link may use it: its owner, or anyone it was passed on to.
AskToJoin(p, l) ==
  /\ l \in DOMAIN link /\ link[l].state = "sent" /\ ~link[l].late
  /\ p \notin member[link[l].chat] \cup waiting[link[l].chat]
  /\ Len(requests) < MaxRequests /\ MoreEvents
  /\ requests' = Append(requests, [user |-> p, link |-> l])
  /\ queue' = queue \cup {Len(requests) + 1}
  /\ waiting' = [waiting EXCEPT ![link[l].chat] = @ \cup {p}]
  /\ ReadOnly /\ UNCHANGED <<runs, link, member, ghosts, crashes>>

Leave(c, p) ==
  /\ p \in member[c]
  /\ member' = [member EXCEPT ![c] = @ \ {p}]
  /\ ReadOnly
  /\ UNCHANGED <<runs, link, waiting, requests, queue, ghosts, crashes>>

\* Telegram gives an update up that is refused for long.
Forget(i) ==
  /\ i \in queue /\ (hook.pc # "idle" => hook.update # i)
  /\ queue' = queue \ {i}
  /\ ReadOnly /\ UNCHANGED <<runs, link, member, waiting, requests, ghosts, crashes>>

Crash ==
  /\ crashes < MaxCrashes /\ crashes' = crashes + 1
  /\ Commit(db)
  /\ worker' = Resting /\ hook' = Silent /\ revoker' = Resting /\ admin' = Silent
  /\ UNCHANGED <<telegram, ghosts>>

World ==
  \/ \E u \in Users : QueueInvite(u) \/ Decide(u) \/ PaidEnds(u) \/ RestoreLink(u)
  \/ \E l \in LinkIds : Expire(l) \/ \E p \in People : AskToJoin(p, l)
  \/ \E c \in Places, p \in People : Leave(c, p)
  \/ \E i \in UpdateIds : Forget(i)
  \/ Crash

Init ==
  /\ db = [user |-> [u \in Users |-> [override |-> "none", whitelist |-> FALSE,
                                      banned |-> FALSE]],
           paid |-> [u \in Users |-> TRUE], jobs |-> << >>,
           invites |-> [l \in LinkIds |-> "none"], inbox |-> {}]
  /\ work = db /\ holder = "none"
  /\ worker = Resting /\ hook = Silent /\ revoker = Resting /\ admin = Silent
  /\ link = << >> /\ requests = << >> /\ queue = {}
  /\ member = [c \in Places |-> {}] /\ waiting = [c \in Places |-> {}]
  /\ message = [j \in JobIds |-> {}] /\ uses = [l \in LinkIds |-> 0]
  /\ crashes = 0

Next == InviteWorker \/ Webhook \/ Revoker \/ Endpoint \/ World

Spec == Init /\ [][Next]_vars

---------------------------------------------------------------------------
(* Properties. *)

RunsTypeOK ==
  /\ worker.pc \in {"idle", "next", "asking", "linking"}
  /\ worker.todo \subseteq JobIds
  /\ worker.pc \in {"asking", "linking"} =>
       /\ worker.job \in DOMAIN db.jobs /\ worker.at \in 1 .. Len(Chats) + 1
       /\ worker.links \subseteq DOMAIN link
  /\ hook.pc \in {"idle", "approving", "declining"}
  /\ hook.pc # "idle" => hook.update \in DOMAIN requests
  /\ revoker.pc \in {"idle", "next"} /\ revoker.todo \subseteq DOMAIN link
  /\ admin.pc = "idle" \/ (admin.pc = "linking" /\ admin.user \in Users)

\* Type invariant: the tables, the runs and Telegram's side.
TypeOK ==
  /\ db \in Database /\ work \in Database
  /\ holder \in {"none", "worker", "hook", "revoker"}
  /\ RunsTypeOK
  /\ link \in Seq(Link) /\ Len(link) <= MaxLinks
  /\ member \in [Places -> SUBSET People] /\ waiting \in [Places -> SUBSET People]
  /\ requests \in Seq([user : People, link : LinkIds])
  /\ queue \subseteq DOMAIN requests
  /\ message \in [JobIds -> SUBSET LinkIds] /\ uses \in [LinkIds -> Nat]
  /\ crashes \in 0 .. MaxCrashes

Enters(c, p) == p \in member'[c] \ member[c]

\* A link that was passed on lets nobody in: the bot admits a person to a chat
\* only upon a request made with a link to that chat made for this person,
\* whatever restarts, lost answers and repeated updates come between.
OnlyOwnersEnter ==
  [][\A c \in Places, p \in People : Enters(c, p) =>
       \E i \in queue : /\ requests[i].user = p
                        /\ link[requests[i].link].owner = p
                        /\ link[requests[i].link].chat = c]_vars

\* Once the use of a link is on record, nobody enters through it again: not
\* with an update that is repeated, not with a later request, not after the
\* revoking worker has written over the row.  Until then a link may let its
\* owner in more than once: an approval whose record was undone (AnswerFails)
\* leaves the row pending, and a member who leaves can ask again with it.
UsedLinkIsSpent ==
  [][\A c \in Places, p \in People : Enters(c, p) =>
       hook.pc = "approving" /\ uses[requests[hook.update].link] = 0]_vars

\* Nobody is let in after a deny was recorded: the webhook holds the lock from
\* its check until Telegram has answered.
DeniedIsNotAdmitted ==
  [][\A c \in Places, u \in Users : Enters(c, u) => db.user[u].override # "deny"]_vars

\* A job that is recorded as done left its owner with links the webhook knows:
\* those of the last message sent for it, earlier attempts that were undone
\* aside.
DoneJobLinksKnown ==
  \A j \in DOMAIN db.jobs : db.jobs[j].status = "done" =>
    \A l \in message[j] : db.invites[l] # "none"
=============================================================================
