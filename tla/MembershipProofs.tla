-------------------------- MODULE MembershipProofs --------------------------
(***************************************************************************)
(* Proofs about Membership, for any set of members, any chats and flags,   *)
(* any number of updates, restores and restarts.                           *)
(***************************************************************************)
EXTENDS Membership, SequenceTheorems, TLAPS

Working == {"asking", "answered", "alerting", "banning"}

\* TypeOK is not inductive by itself: the two views of the database agree but
\* for what the holder of the lock may write, and a step that relies on the
\* lock is only taken by its holder.
Ledgers ==
  /\ holder = "none" => work = db
  /\ holder = "rec" => work.restore = db.restore /\ rec.pc # "idle"
  /\ holder = "res" => /\ DOMAIN work.restore = DOMAIN db.restore
                       /\ work.warned = db.warned
                       /\ res.pc # "idle"
  /\ rec.pc = "banning" => holder = "rec"
  /\ res.pc = "unban" => holder = "res"

Typed == TypeOK /\ Ledgers

\* Users the run has still to handle in the i-th chat.
Ahead(i, u) ==
  \/ i > rec.at
  \/ i = rec.at /\ (u \in rec.todo \/ (rec.pc \in Working /\ rec.user = u))

Untouched ==
  rec.pc # "idle" =>
    \A i \in DOMAIN Chats, u \in Users :
      Ahead(i, u) => work.warned[Chats[i]][u] = db.warned[Chats[i]][u]

\* Every warning on record, committed or not, was sent on the day it carries.
WarningsWereSent ==
  \A c \in Places, u \in Users :
    /\ db.warned[c][u] # "none" => alerted[c][u] = db.warned[c][u]
    /\ work.warned[c][u] # "none" => alerted[c][u] = work.warned[c][u]

Announced ==
  /\ rec.pc \in Working => rec.user \notin rec.todo
  /\ rec.pc = "alerting" => /\ db.warned[Here][rec.user] = "none"
                            /\ work.warned[Here][rec.user] = "none"
                            /\ rec.day \in {"today", "earlier"}
  /\ rec.pc = "banning" => alerted[Here][rec.user] = "earlier"

AlertInv == Typed /\ Untouched /\ WarningsWereSent /\ Announced

---------------------------------------------------------------------------
(* How the helpers change a database. *)

\* Same warnings and same restore jobs, though not the same rows.
Alike(w, v) == w.warned = v.warned /\ w.restore = v.restore

\* A database with another row for one user is a database.
LEMMA RowReplaced ==
  ASSUME NEW w \in Database, NEW u \in Users, NEW r \in UserRow
  PROVE  LET v == [w EXCEPT !.user = [w.user EXCEPT ![u] = r]]
         IN v \in Database /\ Alike(v, w)
<1>1. w.user \in [Users -> UserRow]
  BY DEF Database
<1> DEFINE rows == [w.user EXCEPT ![u] = r]
<1>2. rows \in [Users -> UserRow]
  BY <1>1
<1> HIDE DEF rows
<1> QED
  BY <1>2 DEF Database, Alike

\* The spec's assignments to a field of a row are replacements of the row.
LEMMA FieldTyped ==
  ASSUME NEW r \in UserRow
  PROVE  /\ \A s \in Membership \cup {"unknown"} : [r EXCEPT !.status = s] \in UserRow
         /\ \A s \in {"none", "system", "admin"} : [r EXCEPT !.source = s] \in UserRow
         /\ \A b \in BOOLEAN : [r EXCEPT !.banned = b] \in UserRow
         /\ \A b \in BOOLEAN : [r EXCEPT !.whitelist = b] \in UserRow
         /\ \A o \in Overrides : [r EXCEPT !.override = o] \in UserRow
         /\ \A js \in SUBSET Job : [r EXCEPT !.jobs = r.jobs \cup js] \in UserRow
  BY DEF UserRow

LEMMA RowKeeps ==
  ASSUME NEW w \in Database, NEW u \in Users
  PROVE  /\ \A s \in Membership \cup {"unknown"} :
              LET v == [w EXCEPT !.user[u].status = s]
              IN v \in Database /\ Alike(v, w)
         /\ \A s \in {"none", "system", "admin"} :
              LET v == [w EXCEPT !.user[u].source = s]
              IN v \in Database /\ Alike(v, w)
         /\ \A b \in BOOLEAN :
              LET v == [w EXCEPT !.user[u].banned = b]
              IN v \in Database /\ Alike(v, w)
<1>1. w.user[u] \in UserRow
  BY DEF Database
<1> QED
  BY <1>1, RowReplaced, FieldTyped

LEMMA QueueKeeps ==
  ASSUME NEW w \in Database, NEW u \in Users, NEW js \in SUBSET Job
  PROVE  Queue(w, u, js) \in Database /\ Alike(Queue(w, u, js), w)
<1>1. w.user[u] \in UserRow
  BY DEF Database
<1> QED
  BY <1>1, RowReplaced, FieldTyped DEF Queue

\* What the primary group's answer writes.
LEMMA NotedKeeps ==
  ASSUME Typed, rec.pc = "answered", NEW w \in Database
  PROVE  Noted(w) \in Database /\ Alike(Noted(w), w)
<1> DEFINE set == [w EXCEPT !.user[rec.user].status = rec.answer]
<1>1. rec.user \in Users /\ rec.answer \in Membership
  BY DEF Typed, TypeOK, RunTypeOK
<1>2. set \in Database /\ Alike(set, w)
  BY <1>1, RowKeeps
<1>3. \A js \in SUBSET Job : /\ Queue(set, rec.user, js) \in Database
                             /\ Alike(Queue(set, rec.user, js), set)
  <2> HIDE DEF set
  <2> QED BY <1>1, <1>2, QueueKeeps
<1>4. Alike(w, w)
  BY DEF Alike
<1> QED
  BY <1>2, <1>3, <1>4 DEF Noted, Job, Alike

---------------------------------------------------------------------------
(* Type correctness. *)

\* What an action of the reconciliation may do to the databases.
RecStep ==
  \/ ReadOnly
  \/ \E w \in Database : Write("rec", w) /\ w.restore = Visible("rec").restore

\* What an action of the restore worker may do to them.
ResStep ==
  \/ ReadOnly
  \/ \E w \in Database : /\ Write("res", w)
                         /\ w.warned = Visible("res").warned
                         /\ DOMAIN w.restore = DOMAIN Visible("res").restore

\* A view of the database is a database.
LEMMA VisibleTyped ==
  ASSUME Typed, NEW h \in {"rec", "res"}
  PROVE  Visible(h) \in Database
  BY DEF Typed, TypeOK, Visible

\* A step of the reconciliation leaves the databases well typed and its own
\* view of the restore jobs the committed one.
LEMMA RecStepTyped ==
  ASSUME Typed, RecStep, res' = res, rec'.pc # "idle",
         rec'.pc = "banning" => holder' = "rec"
  PROVE  /\ db' \in Database /\ work' \in Database
         /\ holder' \in {"none", "rec", "res"}
         /\ db'.restore = db.restore
         /\ Ledgers'
<1>1. CASE ReadOnly
  BY <1>1 DEF Typed, TypeOK, Ledgers, ReadOnly
<1>2. CASE \E w \in Database : Write("rec", w) /\ w.restore = Visible("rec").restore
  BY <1>2 DEF Typed, TypeOK, Ledgers, Write, MayWrite, Visible
<1> QED
  BY <1>1, <1>2 DEF RecStep

LEMMA ResStepTyped ==
  ASSUME Typed, ResStep, rec' = rec, res'.pc # "idle",
         res'.pc = "unban" => holder' = "res"
  PROVE  /\ db' \in Database /\ work' \in Database
         /\ holder' \in {"none", "rec", "res"}
         /\ DOMAIN db'.restore = DOMAIN db.restore
         /\ Ledgers'
<1>1. CASE ReadOnly
  BY <1>1 DEF Typed, TypeOK, Ledgers, ReadOnly
<1>2. CASE \E w \in Database : /\ Write("res", w)
                               /\ w.warned = Visible("res").warned
                               /\ DOMAIN w.restore = DOMAIN Visible("res").restore
  BY <1>2 DEF Typed, TypeOK, Ledgers, Write, MayWrite, Visible
<1> QED
  BY <1>1, <1>2 DEF ResStep

LEMMA ChatFacts ==
  ASSUME RunTypeOK
  PROVE  /\ Len(Chats) \in Nat /\ DOMAIN Chats = 1 .. Len(Chats)
         /\ Here \in Places /\ Group \in Places
         /\ \A i \in DOMAIN Chats : Chats[i] \in Places
         /\ \A i, j \in DOMAIN Chats : Chats[i] = Chats[j] => i = j
  BY ChatsAssumption DEF RunTypeOK, Here, Group, Places, Range, IsInjective

LEMMA SnapshotTyped ==
  ASSUME NEW w \in Database
  PROVE  Snapshot(w) \in [Users -> Manual]
  BY DEF Snapshot, Database, UserRow, Manual

\* The databases after each action of the reconciliation, the end of a run
\* apart.
LEMMA RecData ==
  ASSUME Typed, Reconcile, ~FinishRun
  PROVE  RecStep
<1>0. Visible("rec") \in Database /\ db \in Database /\ work \in Database
  BY VisibleTyped DEF Typed, TypeOK
<1>1. CASE KeepUser
  <2> DEFINE u == rec.user
             n == Noted(Visible("rec"))
             w == [n EXCEPT !.warned[Here][u] = "none"]
             js == IF Primary /\ rec.answer = "left" /\ SiteDeactivation
                     THEN {"left"} ELSE {}
  <2>1. u \in Users /\ Here \in Places /\ js \in SUBSET Job
    BY <1>1, ChatFacts DEF KeepUser, Typed, TypeOK, RunTypeOK, Job
  <2>2. n \in Database /\ n.restore = Visible("rec").restore
    BY <1>0, <1>1, NotedKeeps DEF KeepUser, Alike
  <2>3. w \in Database /\ w.restore = n.restore
    <3> HIDE DEF n
    <3> QED BY <2>1, <2>2 DEF Database, Day
  <2>4. Queue(w, u, js) \in Database /\ Queue(w, u, js).restore = w.restore
    <3> HIDE DEF w, js
    <3> QED BY <2>1, <2>3, QueueKeeps DEF Alike
  <2>5. Write("rec", Queue(w, u, js))
    BY <1>1 DEF KeepUser
  <2> QED BY <2>2, <2>3, <2>4, <2>5 DEF RecStep
<1>2. CASE LetAlone \/ AskAdmins
  <2>1. rec.pc = "answered" /\ JustNote
    BY <1>2 DEF LetAlone, AskAdmins, Doomed, Member
  <2> QED
    BY <1>0, <2>1, NotedKeeps DEF JustNote, RecStep, Alike
<1>3. CASE DecideRemoval
  <2> DEFINE n == Noted(Visible("rec"))
             w == [n EXCEPT !.user[rec.user].source = "system"]
  <2>1. rec.pc = "answered" /\ rec.user \in Users /\ Write("rec", w)
    BY <1>3 DEF DecideRemoval, Doomed, Member, Typed, TypeOK, RunTypeOK
  <2>2. n \in Database /\ n.restore = Visible("rec").restore
    BY <1>0, <2>1, NotedKeeps DEF Alike
  <2>3. w \in Database /\ w.restore = n.restore
    <3> HIDE DEF n
    <3> QED BY <2>1, <2>2, RowKeeps DEF Alike
  <2> QED BY <2>1, <2>2, <2>3 DEF RecStep
<1>4. CASE AlertSent
  <2> DEFINE v == Visible("rec")
             w == [v EXCEPT !.warned[Here][rec.user] = rec.day]
  <2>1. rec.user \in Users /\ Here \in Places /\ rec.day \in Day /\ Write("rec", w)
    BY <1>4, ChatFacts DEF AlertSent, Typed, TypeOK, RunTypeOK
  <2>2. w \in Database /\ w.restore = v.restore
    <3> HIDE DEF v
    <3> QED BY <1>0, <2>1 DEF Database, v
  <2> QED BY <2>1, <2>2 DEF RecStep
<1>5. CASE BanUser
  <2> DEFINE js == IF Primary /\ SiteDeactivation THEN {"denied"} ELSE {}
             w == Queue(work, rec.user, js)
  <2>1. rec.user \in Users /\ js \in SUBSET Job /\ Write("rec", w) /\ Visible("rec") = work
    BY <1>5 DEF BanUser, Typed, TypeOK, RunTypeOK, Ledgers, Visible, Job
  <2>2. w \in Database /\ w.restore = work.restore
    <3> HIDE DEF js
    <3> QED BY <1>0, <2>1, QueueKeeps DEF Alike
  <2> QED BY <2>1, <2>2 DEF RecStep
<1> QED
  BY <1>1, <1>2, <1>3, <1>4, <1>5 DEF Reconcile, HandleAnswer, StartRun,
     AskTelegram, TelegramAnswers, AskingFails, LockTimeout, SkipUser, AlertFails,
     BanUnconfirmed, BanFails, NextChat, RecStep

\* The record of the run after each action of the reconciliation.
LEMMA RecRun ==
  ASSUME Typed, Reconcile
  PROVE  /\ RunTypeOK'
         /\ ~FinishRun => rec'.pc # "idle"
         /\ rec'.pc = "banning" => DecideRemoval
         /\ res' = res /\ kicked' = kicked /\ UNCHANGED <<asked, crashes>>
<1>0. RunTypeOK /\ Visible("rec") \in Database /\ db \in Database
      /\ alerted \in [Places -> [Users -> Day]]
  BY VisibleTyped DEF Typed, TypeOK
<1>1. CASE StartRun
  BY <1>0, <1>1, SnapshotTyped, ChatFacts
     DEF StartRun, Pass, RunTypeOK, telegram
<1>2. CASE AskTelegram
  BY <1>0, <1>2 DEF AskTelegram, RunTypeOK, Database, telegram
<1>3. CASE TelegramAnswers
  <2>1. chat[Here][rec.user] \in Membership
    BY <1>3, ChatFacts DEF TelegramAnswers, Typed, TypeOK, RunTypeOK
  <2> QED BY <1>0, <1>3, <2>1 DEF TelegramAnswers, RunTypeOK, telegram
<1>4. CASE \/ AskingFails \/ AlertFails \/ BanFails \/ LockTimeout
  <2>1. rec' = NextUser /\ rec.pc # "idle" /\ UNCHANGED <<res, telegram, asked, crashes>>
    BY <1>4 DEF AskingFails, AlertFails, BanFails, LockTimeout, SkipUser
  <2> QED BY <1>0, <2>1 DEF NextUser, RunTypeOK, telegram
<1>5. CASE KeepUser \/ LetAlone \/ AlertSent \/ BanUser \/ BanUnconfirmed
  <2>1. /\ rec' = NextUser /\ rec.pc # "idle"
        /\ res' = res /\ kicked' = kicked /\ UNCHANGED <<asked, crashes>>
    BY <1>5 DEF KeepUser, LetAlone, AlertSent, BanUser, BanUnconfirmed, telegram
  <2> QED BY <1>0, <2>1 DEF NextUser, RunTypeOK
<1>6. CASE AskAdmins
  BY <1>0, <1>6 DEF AskAdmins, Doomed, Member, RunTypeOK, Day, telegram
<1>7. CASE DecideRemoval
  BY <1>0, <1>7 DEF DecideRemoval, Doomed, Member, RunTypeOK, telegram
<1>8. CASE NextChat
  BY <1>0, <1>8, SnapshotTyped, ChatFacts DEF NextChat, Pass, RunTypeOK, telegram
<1>9. CASE FinishRun
  BY <1>0, <1>9, ChatFacts DEF FinishRun, NoRun, RunTypeOK, telegram
<1> QED
  BY <1>1, <1>2, <1>3, <1>4, <1>5, <1>6, <1>7, <1>8, <1>9
     DEF Reconcile, HandleAnswer

\* ... and what Telegram and the administrators' inbox look like.
LEMMA RecWorld ==
  ASSUME Typed, Reconcile
  PROVE  /\ chat' \in [Places -> [Users -> Membership]]
         /\ updates' \in [Users -> Seq(Membership)]
         /\ alerted' \in [Places -> [Users -> Day]]
<1>0. /\ RunTypeOK
      /\ chat \in [Places -> [Users -> Membership]]
      /\ updates \in [Users -> Seq(Membership)]
      /\ alerted \in [Places -> [Users -> Day]]
  BY DEF Typed, TypeOK
<1>1. CASE BanUser \/ BanUnconfirmed
  <2>1. /\ rec.user \in Users /\ Here \in Places
        /\ Thrown(Here, rec.user) /\ alerted' = alerted
    BY <1>0, <1>1, ChatFacts DEF BanUser, BanUnconfirmed, RunTypeOK
  <2>2. chat' \in [Places -> [Users -> Membership]]
    BY <1>0, <2>1 DEF Thrown, Membership
  <2>3. updates' \in [Users -> Seq(Membership)]
    <3>1. Append(updates[rec.user], "kicked") \in Seq(Membership)
      BY <1>0, <2>1 DEF Membership
    <3> QED BY <1>0, <2>1, <3>1 DEF Thrown
  <2> QED BY <1>0, <2>1, <2>2, <2>3
<1>2. CASE AlertSent
  BY <1>0, <1>2, ChatFacts DEF AlertSent, RunTypeOK, telegram
<1>3. CASE FinishRun
  BY <1>0, <1>3 DEF FinishRun, telegram, Day
<1> QED
  BY <1>0, <1>1, <1>2, <1>3 DEF Reconcile, HandleAnswer, StartRun, AskTelegram,
     TelegramAnswers, AskingFails, KeepUser, LetAlone, AskAdmins, DecideRemoval,
     LockTimeout, SkipUser, AlertFails, BanFails, NextChat, telegram

LEMMA RecTyped ==
  ASSUME Typed, Reconcile
  PROVE  Typed'
<1>1. CASE FinishRun
  <2>1. /\ db' \in Database /\ work' \in Database
        /\ holder' \in {"none", "rec", "res"}
        /\ Ledgers' /\ db'.restore = db.restore
    BY <1>1 DEF FinishRun, Typed, TypeOK, Ledgers, Commit, Release, ReadOnly,
       Visible, NoRun
  <2> QED
    BY <2>1, <1>1, RecRun, RecWorld DEF Typed, TypeOK, BatchTypeOK
<1>2. CASE ~FinishRun
  <2>1. rec'.pc = "banning" => holder' = "rec"
    BY <1>2, RecRun DEF DecideRemoval, Write
  <2>2. /\ db' \in Database /\ work' \in Database
        /\ holder' \in {"none", "rec", "res"}
        /\ db'.restore = db.restore
        /\ Ledgers'
    BY <1>2, <2>1, RecData, RecRun, RecStepTyped
  <2> QED
    BY <2>2, RecRun, RecWorld DEF Typed, TypeOK, BatchTypeOK
<1> QED
  BY <1>1, <1>2

LEMMA RestoreFacts ==
  ASSUME NEW w \in Database, NEW j \in DOMAIN w.restore
  PROVE  w.restore[j] \in Restore /\ w.restore[j].user \in Users
<1>1. w.restore \in Seq(Restore)
  BY DEF Database
<1>2. w.restore[j] \in Restore
  BY <1>1, ElementOfSeq
<1> QED
  BY <1>2 DEF Restore

\* Ending a job changes its status and, if it failed, sets the ban again.
LEMMA EndsKeeps ==
  ASSUME NEW w \in Database, NEW j \in DOMAIN w.restore
  PROVE  /\ \A result \in {"done", "failed"} :
              /\ Ends(j, w, result) \in Database
              /\ Ends(j, w, result).warned = w.warned
              /\ DOMAIN Ends(j, w, result).restore = DOMAIN w.restore
         /\ Failed(j, w) \in Database
         /\ Failed(j, w).warned = w.warned
         /\ DOMAIN Failed(j, w).restore = DOMAIN w.restore
<1>1. \A v \in Database : j \in DOMAIN v.restore =>
        \A result \in {"done", "failed"} :
          /\ Ends(j, v, result) \in Database
          /\ Ends(j, v, result).warned = v.warned
          /\ DOMAIN Ends(j, v, result).restore = DOMAIN v.restore
  <2> SUFFICES ASSUME NEW v \in Database, j \in DOMAIN v.restore,
                      NEW result \in {"done", "failed"}
               PROVE  /\ Ends(j, v, result) \in Database
                      /\ Ends(j, v, result).warned = v.warned
                      /\ DOMAIN Ends(j, v, result).restore = DOMAIN v.restore
    OBVIOUS
  <2> DEFINE jobs == [v.restore EXCEPT ![j].status = result]
  <2>1. v.restore \in Seq(Restore)
    BY DEF Database
  <2>2. jobs \in Seq(Restore) /\ DOMAIN jobs = DOMAIN v.restore
    <3>1. v.restore[j] \in Restore
      BY <2>1, ElementOfSeq
    <3>2. [v.restore[j] EXCEPT !.status = result] \in Restore
      BY <3>1 DEF Restore
    <3> QED BY <2>1, <3>2, ExceptSeq
  <2>3. Ends(j, v, result) = [v EXCEPT !.restore = jobs]
    BY DEF Ends
  <2> HIDE DEF jobs
  <2> QED BY <2>2, <2>3 DEF Database
<1>2. w.restore[j].user \in Users
  BY RestoreFacts
<1>3. LET v == [w EXCEPT !.user[w.restore[j].user].banned = TRUE]
      IN v \in Database /\ Alike(v, w)
  BY <1>2, RowKeeps
<1> QED
  BY <1>1, <1>3 DEF Failed, Alike

\* A job of the batch is a job of the worker's view, and so is its user.
LEMMA BatchFacts ==
  ASSUME Typed
  PROVE  /\ Visible("res") \in Database
         /\ DOMAIN Visible("res").restore = DOMAIN db.restore
         /\ \A j \in DOMAIN db.restore : Visible("res").restore[j].user \in Users
         /\ res.pc = "unban" => /\ holder = "res" /\ Visible("res") = work
                                /\ JobUser \in Users
<1>1. Visible("res") \in Database /\ DOMAIN Visible("res").restore = DOMAIN db.restore
  BY DEF Typed, TypeOK, Ledgers, Visible
<1>2. \A j \in DOMAIN db.restore : Visible("res").restore[j].user \in Users
  BY <1>1, RestoreFacts
<1> QED
  BY <1>1, <1>2 DEF Typed, TypeOK, Ledgers, Visible, BatchTypeOK, JobUser

LEMMA ResData ==
  ASSUME Typed, RestoreWorker, ~RestoresAbort, ~FinishRestores
  PROVE  /\ ResStep
         /\ BatchTypeOK'
         /\ rec' = rec /\ res'.pc # "idle"
         /\ res'.pc = "unban" => holder' = "res"
         /\ alerted' = alerted /\ UNCHANGED <<asked, crashes>>
<1>0. /\ Visible("res") \in Database /\ BatchTypeOK
      /\ DOMAIN Visible("res").restore = DOMAIN db.restore
      /\ Len(Chats) \in Nat /\ Len(Chats) > 0
  BY BatchFacts, ChatsAssumption DEF Typed, TypeOK
<1>1. CASE StartRestores
  BY <1>0, <1>1 DEF StartRestores, ResStep, ReadOnly, BatchTypeOK, telegram
<1>2. CASE TakeRestore
  <2> DEFINE w == Visible("res")
  <2>1. PICK j \in res.todo :
          LET u == w.restore[j].user
              lifted == [w EXCEPT !.user[u].banned = FALSE]
          IN \/ /\ Write("res", lifted)
                /\ res' = [pc |-> "unban", todo |-> res.todo \ {j}, job |-> j, at |-> 1]
             \/ /\ Write("res", Failed(j, w))
                /\ res' = [pc |-> "next", todo |-> res.todo \ {j}]
    BY <1>2 DEF TakeRestore
  <2>2. j \in DOMAIN w.restore /\ w.restore[j].user \in Users
    BY <1>0, BatchFacts DEF BatchTypeOK
  <2>3. LET lifted == [w EXCEPT !.user[w.restore[j].user].banned = FALSE]
        IN lifted \in Database /\ Alike(lifted, w)
    <3> HIDE DEF w
    <3> QED BY <1>0, <2>2, RowKeeps DEF w
  <2>4. /\ Failed(j, w) \in Database /\ Failed(j, w).warned = w.warned
        /\ DOMAIN Failed(j, w).restore = DOMAIN w.restore
    BY <1>0, <2>2, EndsKeeps
  <2>5. ResStep /\ holder' = "res" /\ db' = db
    BY <2>1, <2>3, <2>4 DEF ResStep, Write, Alike
  <2>6. BatchTypeOK' /\ res'.pc # "idle"
    BY <1>0, <2>1, <2>5 DEF BatchTypeOK
  <2> QED
    BY <1>2, <2>5, <2>6 DEF TakeRestore
<1>3. CASE Unban
  BY <1>0, <1>3, BatchFacts DEF Unban, ResStep, ReadOnly, BatchTypeOK
<1>4. CASE Restored
  <2> DEFINE w == [work EXCEPT !.user[JobUser].banned = FALSE,
                               !.user[JobUser].source = "none",
                               !.user[JobUser].status = "unknown"]
  <2>1. /\ holder = "res" /\ work \in Database /\ JobUser \in Users
        /\ res.job \in DOMAIN work.restore /\ Visible("res") = work
    BY <1>0, <1>4, BatchFacts DEF Restored, BatchTypeOK
  <2>2. w \in Database /\ Alike(w, work)
    <3> DEFINE w1 == [work EXCEPT !.user[JobUser].banned = FALSE]
               w2 == [w1 EXCEPT !.user[JobUser].source = "none"]
               w3 == [w2 EXCEPT !.user[JobUser].status = "unknown"]
    <3>1. w1 \in Database /\ Alike(w1, work)
      BY <2>1, RowKeeps
    <3> HIDE DEF w1
    <3>2. w2 \in Database /\ Alike(w2, w1)
      BY <2>1, <3>1, RowKeeps
    <3> HIDE DEF w2
    <3>3. w3 \in Database /\ Alike(w3, w2)
      BY <2>1, <3>2, RowKeeps
    <3>4. w = w3
      BY DEF w1, w2
    <3> HIDE DEF w, w3
    <3> QED BY <3>1, <3>2, <3>3, <3>4 DEF Alike
  <2>3. /\ Ends(res.job, w, "done") \in Database
        /\ Ends(res.job, w, "done").warned = work.warned
        /\ DOMAIN Ends(res.job, w, "done").restore = DOMAIN work.restore
    <3> HIDE DEF w
    <3> QED BY <2>1, <2>2, EndsKeeps DEF Alike
  <2>4. Write("res", Ends(res.job, w, "done"))
    BY <1>4 DEF Restored
  <2>5. ResStep
    BY <2>1, <2>3, <2>4 DEF ResStep
  <2> QED
    BY <1>0, <1>4, <2>4, <2>5 DEF Restored, BatchTypeOK, Write
<1>5. CASE RestoreRefused
  <2>1. /\ holder = "res" /\ work \in Database
        /\ res.job \in DOMAIN work.restore /\ Visible("res") = work
    BY <1>0, <1>5, BatchFacts DEF RestoreRefused, BatchTypeOK
  <2>2. /\ Failed(res.job, work) \in Database
        /\ Failed(res.job, work).warned = work.warned
        /\ DOMAIN Failed(res.job, work).restore = DOMAIN work.restore
    BY <2>1, EndsKeeps
  <2>3. Write("res", Failed(res.job, work))
    BY <1>5 DEF RestoreRefused
  <2>4. ResStep
    BY <2>1, <2>2, <2>3 DEF ResStep
  <2> QED
    BY <1>0, <1>5, <2>4 DEF RestoreRefused, BatchTypeOK, Write
<1> QED
  BY <1>1, <1>2, <1>3, <1>4, <1>5 DEF RestoreWorker

\* Telegram after a step of the restore worker.
LEMMA ResWorld ==
  ASSUME Typed, RestoreWorker
  PROVE  /\ chat' \in [Places -> [Users -> Membership]]
         /\ updates' \in [Users -> Seq(Membership)]
         /\ kicked' \in [Users -> {"never", "before", "now"}]
<1>0. /\ chat \in [Places -> [Users -> Membership]]
      /\ updates \in [Users -> Seq(Membership)]
      /\ kicked \in [Users -> {"never", "before", "now"}]
  BY DEF Typed, TypeOK
<1>1. CASE Unban
  <2>1. JobUser \in Users /\ Chats[res.at] \in Places
    <3>1. res.at \in DOMAIN Chats
      BY <1>1, ChatsAssumption DEF Unban, Typed, TypeOK, BatchTypeOK
    <3> QED BY <1>1, <3>1, BatchFacts DEF Unban, Places, Range
  <2>2. chat' \in [Places -> [Users -> Membership]]
    BY <1>0, <1>1, <2>1 DEF Unban, Membership
  <2>3. Append(updates[JobUser], "left") \in Seq(Membership)
    BY <1>0, <2>1 DEF Membership
  <2>4. updates' \in [Users -> Seq(Membership)]
    BY <1>0, <1>1, <2>1, <2>3 DEF Unban
  <2>5. kicked' \in [Users -> {"never", "before", "now"}]
    BY <1>0, <1>1, <2>1 DEF Unban, Past
  <2> QED BY <2>2, <2>4, <2>5
<1> QED
  BY <1>0, <1>1, Zenon DEF RestoreWorker, StartRestores, TakeRestore, Restored,
     RestoreRefused, RestoresAbort, FinishRestores, telegram

LEMMA ResTyped ==
  ASSUME Typed, RestoreWorker
  PROVE  Typed'
<1>1. CASE RestoresAbort \/ FinishRestores
  <2>1. /\ res' = NoBatch /\ rec' = rec
        /\ alerted' = alerted /\ UNCHANGED <<asked, crashes>>
        /\ \/ holder = "res" /\ (Commit("res") \/ Rollback)
           \/ holder # "res" /\ ReadOnly
    BY <1>1 DEF RestoresAbort, FinishRestores
  <2>2. /\ db' \in Database /\ work' \in Database
        /\ holder' \in {"none", "rec", "res"} /\ Ledgers'
    BY <2>1 DEF Commit, Rollback, Release, ReadOnly, Visible, Typed, TypeOK,
       Ledgers, NoBatch
  <2> QED
    BY <2>1, <2>2, ResWorld DEF Typed, TypeOK, RunTypeOK, BatchTypeOK, NoBatch, Here
<1>2. CASE ~RestoresAbort /\ ~FinishRestores
  BY <1>2, ResData, ResStepTyped, ResWorld DEF Typed, TypeOK, RunTypeOK
<1> QED
  BY <1>1, <1>2

\* A handler of one step that keeps the restore jobs' numbers.
LEMMA OneStepTyped ==
  ASSUME Typed, NEW w \in Database, OneStep(w),
         DOMAIN db.restore \subseteq DOMAIN w.restore,
         rec' = rec, res' = res, alerted' = alerted, asked' \subseteq Users, crashes' = crashes,
         chat' \in [Places -> [Users -> Membership]],
         updates' \in [Users -> Seq(Membership)],
         kicked' \in [Users -> {"never", "before", "now"}]
  PROVE  Typed'
  BY DEF OneStep, Typed, TypeOK, Ledgers, RunTypeOK, BatchTypeOK

LEMMA RecordedTyped ==
  ASSUME Typed, NEW u \in Users, NEW s \in Membership
  PROVE  Recorded(u, s) \in Database /\ Alike(Recorded(u, s), db)
<1> DEFINE set == [db EXCEPT !.user[u].status = s]
           club == Queue(set, u, {"club"})
           ban == [club EXCEPT !.user[u].banned = TRUE, !.user[u].source = "admin"]
<1>0. /\ \A j \in Job : {j} \in SUBSET Job
      /\ {"club", "kicked", "deactivate", "restore"} \subseteq Job
  BY DEF Job
<1>1. set \in Database /\ Alike(set, db)
  BY RowKeeps DEF Typed, TypeOK
<1>2. club \in Database /\ Alike(club, db)
  <2> HIDE DEF set
  <2> QED BY <1>0, <1>1, QueueKeeps DEF Alike
<1>3. ban \in Database /\ Alike(ban, db)
  <2> DEFINE r == [club.user[u] EXCEPT !.banned = TRUE, !.source = "admin"]
  <2> HIDE DEF club
  <2>1. club.user[u] \in UserRow
    BY <1>2 DEF Database
  <2>2. r \in UserRow
    BY <2>1 DEF UserRow
  <2>3. ban = [club EXCEPT !.user = [club.user EXCEPT ![u] = r]]
    BY <1>2, <2>1 DEF Database, UserRow
  <2> HIDE DEF r, ban
  <2> QED BY <1>2, <2>2, <2>3, RowReplaced DEF Alike
<1>4. \A w \in {ban, club}, j \in {"kicked", "deactivate", "restore"} :
        Queue(w, u, {j}) \in Database /\ Alike(Queue(w, u, {j}), db)
  <2> HIDE DEF ban, club
  <2> QED BY <1>0, <1>2, <1>3, QueueKeeps DEF Alike
<1>5. \/ Recorded(u, s) = Queue(ban, u, {"kicked"})
      \/ Recorded(u, s) = Queue(club, u, {"deactivate"})
      \/ Recorded(u, s) = Queue(club, u, {"restore"})
      \/ Recorded(u, s) = club
  BY DEF Recorded
<1> HIDE DEF ban, club
<1> QED
  BY <1>2, <1>4, <1>5

LEMMA RequestsTyped ==
  ASSUME Typed, NEW u \in Users,
         Deliver(u) \/ Decide(u) \/ RestoreCommand(u) \/ Pay(u)
  PROVE  /\ Typed' /\ db'.warned = db.warned /\ rec' = rec
         /\ OneStep(db') \/ ReadOnly
<1>0. /\ db \in Database /\ db.user[u] \in UserRow
      /\ chat \in [Places -> [Users -> Membership]]
      /\ updates \in [Users -> Seq(Membership)]
      /\ kicked \in [Users -> {"never", "before", "now"}]
      /\ asked \subseteq Users
  BY DEF Typed, TypeOK, Database
<1>1. CASE Deliver(u)
  <2>1. PICK i \in DOMAIN updates[u] :
          /\ OneStep(Recorded(u, updates[u][i]))
          /\ updates' = [updates EXCEPT
               ![u] = SubSeq(@, 1, i - 1) \o SubSeq(@, i + 1, Len(@))]
    BY <1>1 DEF Deliver
  <2>2. updates[u] \in Seq(Membership) /\ updates[u][i] \in Membership
    BY <1>0, ElementOfSeq
  <2>3. SubSeq(updates[u], 1, i - 1) \in Seq(Membership)
    <3>1. \A k \in 1 .. (i - 1) : updates[u][k] \in Membership
      BY <2>2, ElementOfSeq
    <3> QED BY <2>2, <3>1, SubSeqProperties
  <2>4. SubSeq(updates[u], i + 1, Len(updates[u])) \in Seq(Membership)
    <3>1. \A k \in (i + 1) .. Len(updates[u]) : updates[u][k] \in Membership
      BY <2>2, ElementOfSeq
    <3> QED BY <2>2, <3>1, SubSeqProperties
  <2>5. updates' \in [Users -> Seq(Membership)]
    BY <1>0, <2>1, <2>3, <2>4, ConcatProperties
  <2>6. /\ Recorded(u, updates[u][i]) \in Database
        /\ Alike(Recorded(u, updates[u][i]), db)
    BY <2>2, RecordedTyped
  <2> QED
    BY <1>0, <1>1, <2>1, <2>5, <2>6, OneStepTyped DEF Deliver, Alike, OneStep
<1>2. CASE Decide(u)
  <2>1. PICK d \in Decisions :
          LET jobs == IF d = "deny" THEN {"club", "deactivate"} ELSE {"club"}
          IN OneStep(IF d \in {"allow", "deny"}
               THEN Queue([db EXCEPT !.user[u].override = d], u, jobs)
               ELSE [db EXCEPT !.user[u].whitelist = (d = "whitelist")])
    BY <1>2 DEF Decide
  <2> DEFINE set == [db EXCEPT !.user[u].override = d]
  <2>2. [db EXCEPT !.user[u].whitelist = (d = "whitelist")] \in Database
        /\ Alike([db EXCEPT !.user[u].whitelist = (d = "whitelist")], db)
    BY <1>0, FieldTyped, RowReplaced
  <2>3. d \in {"allow", "deny"} => set \in Database /\ Alike(set, db)
    BY <1>0, FieldTyped, RowReplaced DEF Overrides
  <2>4. d \in {"allow", "deny"} => \A jobs \in SUBSET Job :
          Queue(set, u, jobs) \in Database /\ Alike(Queue(set, u, jobs), db)
    <3> HIDE DEF set
    <3> QED BY <2>3, QueueKeeps DEF Alike
  <2>5. PICK w \in Database : Alike(w, db) /\ OneStep(w)
    <3>1. {"club"} \in SUBSET Job /\ {"club", "deactivate"} \in SUBSET Job
      BY DEF Job
    <3> HIDE DEF set
    <3>2. CASE d \in {"allow", "deny"}
      BY <2>1, <2>4, <3>1, <3>2 DEF set
    <3>3. CASE d \notin {"allow", "deny"}
      BY <2>1, <2>2, <3>3
    <3> QED BY <3>2, <3>3
  <2> QED
    BY <1>0, <1>2, <2>5, OneStepTyped DEF Decide, Alike, OneStep, telegram
<1>3. CASE WriteRestore(u)
  <2> DEFINE set == [db EXCEPT !.user[u].status = "unknown", !.user[u].banned = TRUE]
             new == [user |-> u, status |-> "pending"]
             queued == [set EXCEPT !.restore = Append(@, new)]
  <2>1. set \in Database /\ Alike(set, db)
    <3> DEFINE r == [db.user[u] EXCEPT !.status = "unknown", !.banned = TRUE]
    <3>1. r \in UserRow
      BY <1>0 DEF UserRow
    <3>2. set = [db EXCEPT !.user = [db.user EXCEPT ![u] = r]]
      BY <1>0 DEF Database, UserRow
    <3> HIDE DEF r, set
    <3> QED BY <1>0, <3>1, <3>2, RowReplaced DEF Alike
  <2>2. /\ queued \in Database /\ queued.warned = db.warned
        /\ DOMAIN db.restore \subseteq DOMAIN queued.restore
    <3>1. new \in Restore
      BY DEF Restore
    <3>2. set.restore \in Seq(Restore)
      BY <2>1 DEF Database
    <3>3. /\ Append(set.restore, new) \in Seq(Restore)
          /\ DOMAIN set.restore \subseteq DOMAIN Append(set.restore, new)
      BY <3>1, <3>2
    <3> HIDE DEF set, new
    <3> QED BY <2>1, <3>3 DEF Database, Alike
  <2>3. OneStep(queued) \/ OneStep(set)
    BY <1>3 DEF WriteRestore
  <2>4. /\ UNCHANGED <<rec, res, telegram, alerted, crashes>>
        /\ asked' \subseteq Users
    BY <1>0, <1>3 DEF WriteRestore
  <2> HIDE DEF queued, set
  <2> QED
    BY <1>0, <2>1, <2>2, <2>3, <2>4, OneStepTyped DEF Alike, OneStep, telegram
<1>5. CASE CheckRestore(u) \/ DropRestore(u)
  <2>1. /\ ReadOnly /\ UNCHANGED <<rec, res, telegram, alerted, crashes>>
        /\ asked' \subseteq Users
    BY <1>0, <1>5 DEF CheckRestore, DropRestore
  <2> QED
    BY <2>1 DEF ReadOnly, telegram, Typed, TypeOK, Ledgers, RunTypeOK, BatchTypeOK
<1>4. CASE Pay(u)
  <2> DEFINE w == [db EXCEPT !.paid[u] = TRUE]
  <2>1. w \in Database /\ Alike(w, db)
    BY <1>0 DEF Database, Alike
  <2>2. OneStep(w)
    BY <1>4 DEF Pay
  <2> HIDE DEF w
  <2> QED
    BY <1>0, <1>4, <2>1, <2>2, OneStepTyped DEF Pay, Alike, OneStep, telegram
<1> QED
  BY <1>1, <1>2, <1>3, <1>4, <1>5 DEF RestoreCommand

LEMMA ClockTyped ==
  ASSUME Typed, Midnight \/ \E u \in Users : Expire(u)
  PROVE  /\ Typed'
         /\ rec' = rec \/ rec.pc \in {"asking", "answered", "alerting"}
         /\ rec'.pc = rec.pc /\ rec'.todo = rec.todo /\ rec'.at = rec.at
         /\ rec.pc \in Working => rec'.user = rec.user
<1>0. /\ db \in Database /\ work \in Database /\ RunTypeOK
      /\ alerted \in [Places -> [Users -> Day]]
  BY DEF Typed, TypeOK
<1>1. CASE Midnight
  <2>1. \A days \in [Places -> [Users -> Day]] :
          Older(days) \in [Places -> [Users -> Day]]
    BY DEF Older, Day
  <2>2. /\ db' \in Database /\ db'.restore = db.restore /\ db'.warned = Older(db.warned)
        /\ work' \in Database /\ work'.restore = work.restore
        /\ work'.warned = Older(work.warned)
    BY <1>0, <1>1, <2>1 DEF Midnight, Database
  <2>3. alerted' \in [Places -> [Users -> Day]]
    BY <1>0, <1>1, <2>1 DEF Midnight
  <2>4. /\ RunTypeOK' /\ rec'.pc = rec.pc /\ rec'.todo = rec.todo /\ rec'.at = rec.at
        /\ rec' = rec \/ rec.pc \in {"asking", "answered", "alerting"}
        /\ rec.pc \in Working => rec'.user = rec.user
    <3>1. CASE rec.pc = "alerting" /\ rec' = [rec EXCEPT !.day = "earlier"]
      <4>1. rec'.pc = "alerting" /\ rec'.todo = rec.todo /\ rec'.at = rec.at
            /\ rec'.rows = rec.rows /\ rec'.user = rec.user
            /\ rec'.day \in {rec.day, "earlier"}
        BY <3>1
      <4> QED BY <1>0, <3>1, <4>1 DEF RunTypeOK, Day
    <3>2. CASE rec' = rec
      BY <1>0, <3>2 DEF RunTypeOK
    <3> QED BY <1>1, <3>1, <3>2 DEF Midnight
  <2>5. work = db => work' = db'
    BY <1>1 DEF Midnight
  <2>6. /\ UNCHANGED <<holder, res, telegram, asked, crashes>>
    BY <1>1 DEF Midnight
  <2> QED
    BY <2>2, <2>3, <2>4, <2>5, <2>6
       DEF Typed, TypeOK, Ledgers, BatchTypeOK, telegram
<1>2. ASSUME NEW u \in Users, Expire(u)
      PROVE  /\ Typed'
             /\ rec' = rec \/ rec.pc \in {"asking", "answered", "alerting"}
             /\ rec'.pc = rec.pc /\ rec'.todo = rec.todo /\ rec'.at = rec.at
             /\ rec.pc \in Working => rec'.user = rec.user
  <2>1. /\ db' \in Database /\ db'.restore = db.restore /\ db'.warned = db.warned
        /\ work' \in Database /\ work'.restore = work.restore
        /\ work'.warned = work.warned
    BY <1>0, <1>2 DEF Expire, Database
  <2>2. /\ RunTypeOK' /\ rec'.pc = rec.pc /\ rec'.todo = rec.todo /\ rec'.at = rec.at
        /\ rec' = rec \/ rec.pc \in {"asking", "answered", "alerting"}
        /\ rec.pc \in Working => rec'.user = rec.user
    <3>1. CASE rec.pc \in {"asking", "answered"} /\ rec' = [rec EXCEPT !.paid = FALSE]
      <4>1. /\ rec'.pc = rec.pc /\ rec'.todo = rec.todo /\ rec'.at = rec.at
            /\ rec'.rows = rec.rows /\ rec'.user = rec.user
            /\ rec'.answer = rec.answer /\ rec'.paid \in {rec.paid, FALSE}
        BY <3>1
      <4> QED BY <1>0, <3>1, <4>1 DEF RunTypeOK
    <3>2. CASE rec' = rec
      BY <1>0, <3>2 DEF RunTypeOK
    <3> QED BY <1>2, <3>1, <3>2 DEF Expire
  <2>3. work = db => work' = db'
    BY <1>2 DEF Expire
  <2> QED
    BY <1>2, <2>1, <2>2, <2>3 DEF Expire, Typed, TypeOK, Ledgers, BatchTypeOK, telegram
<1> QED
  BY <1>1, <1>2

LEMMA PeopleTyped ==
  ASSUME Typed, People
  PROVE  Typed' /\ UNCHANGED <<db, work, rec, alerted>>
<1>0. /\ chat \in [Places -> [Users -> Membership]]
      /\ updates \in [Users -> Seq(Membership)]
      /\ kicked \in [Users -> {"never", "before", "now"}]
  BY DEF Typed, TypeOK
<1>1. PICK c \in Places, u \in Users :
        Join(c, u) \/ Leave(c, u) \/ AdminUnbans(c, u) \/ AdminKicks(c, u)
  BY DEF People
<1>2. PICK m \in Membership : Move(c, u, m)
  BY <1>1 DEF Join, Leave, AdminUnbans, AdminKicks, Membership
<1>3. chat' \in [Places -> [Users -> Membership]]
  BY <1>0, <1>2 DEF Move
<1>4. updates' \in [Users -> Seq(Membership)]
  <2>1. Append(updates[u], m) \in Seq(Membership)
    BY <1>0
  <2> QED BY <1>0, <1>2, <2>1 DEF Move
<1>5. kicked' \in [Users -> {"never", "before", "now"}]
  BY <1>0, <1>1 DEF Join, Leave, AdminUnbans, AdminKicks, Past
<1> QED
  BY <1>2, <1>3, <1>4, <1>5 DEF Move, ReadOnly, Typed, TypeOK, Ledgers,
     RunTypeOK, BatchTypeOK

LEMMA CrashTyped ==
  ASSUME Typed, Crash
  PROVE  Typed'
<1>1. /\ db' = db /\ work' = db /\ holder' = "none" /\ rec' = NoRun /\ res' = NoBatch
      /\ UNCHANGED <<chat, updates, kicked, alerted>> /\ asked' = {}
  BY DEF Crash, Rollback, Release, telegram
<1>2. crashes' \in 0 .. MaxCrashes
  BY BoundsAssumption DEF Crash, Typed, TypeOK
<1>3. RunTypeOK' /\ BatchTypeOK' /\ Ledgers'
  BY <1>1, ChatFacts DEF Typed, TypeOK, Ledgers, NoRun, NoBatch, RunTypeOK, BatchTypeOK
<1> QED
  BY <1>1, <1>2, <1>3 DEF Typed, TypeOK

LEMMA InitTyped == Init => Typed
<1> SUFFICES ASSUME Init PROVE Typed
  OBVIOUS
<1>1. Joined \in UserRow
  BY DEF Joined, UserRow, Overrides, Membership
<1>2. db \in Database /\ work \in Database
  <2>1. <<>> \in Seq(Restore)
    OBVIOUS
  <2> QED BY <1>1, <2>1 DEF Init, Database, Day
<1>3. RunTypeOK /\ BatchTypeOK /\ Ledgers
  BY ChatsAssumption DEF Init, NoRun, NoBatch, RunTypeOK, BatchTypeOK, Ledgers
<1>4. \A s \in Users : <<>> \in Seq(Membership)
  OBVIOUS
<1> QED
  BY <1>2, <1>3, <1>4, BoundsAssumption DEF Init, Typed, TypeOK, Day, Membership

LEMMA NextTyped == Typed /\ [Next]_vars => Typed'
<1> SUFFICES ASSUME Typed, [Next]_vars PROVE Typed'
  OBVIOUS
<1>1. CASE Requests
  <2>1. PICK u \in Users :
          Deliver(u) \/ Decide(u) \/ RestoreCommand(u) \/ Pay(u) \/ Expire(u)
    BY <1>1 DEF Requests
  <2> QED BY <2>1, RequestsTyped, ClockTyped
<1>2. CASE UNCHANGED vars
  BY <1>2 DEF vars, Typed, TypeOK, Ledgers, RunTypeOK, BatchTypeOK
<1> QED
  BY <1>1, <1>2, RecTyped, ResTyped, ClockTyped, PeopleTyped, CrashTyped DEF Next

\* THEOREM: every variable keeps its type, and the two views of the database
\* differ only in what the holder of SQLite's write lock may write: without a
\* holder they are the same, a reconciliation never touches the restore jobs
\* and the restore worker never touches the removal warnings.
THEOREM MembershipTyped == Spec => []Typed
  BY InitTyped, NextTyped, PTL DEF Spec

\* THEOREM: in particular every reachable state is well-formed.
THEOREM MembershipTypeOK == Spec => []TypeOK
<1>1. Typed => TypeOK
  BY DEF Typed
<1> QED BY <1>1, MembershipTyped, PTL

---------------------------------------------------------------------------
(* No removal without an earlier alert. *)

SameWarnings ==
  /\ db'.warned = db.warned /\ work'.warned = work.warned /\ alerted' = alerted

\* Every view of the warnings is well typed.
LEMMA WarnedTyped ==
  ASSUME Typed
  PROVE  /\ db.warned \in [Places -> [Users -> Day]]
         /\ work.warned \in [Places -> [Users -> Day]]
         /\ alerted \in [Places -> [Users -> Day]]
         /\ MayWrite("rec") => Visible("rec").warned = work.warned
         /\ MayWrite("res") => Visible("res").warned = work.warned
         /\ holder # "rec" => work.warned = db.warned
  BY DEF Typed, TypeOK, Database, Ledgers, MayWrite, Visible

\* Only three actions of the reconciliation change what is on record.
LEMMA RecKeepsWarnings ==
  ASSUME Typed, Reconcile, ~KeepUser, ~AlertSent, ~FinishRun
  PROVE  SameWarnings
<1>0. /\ Visible("rec") \in Database /\ work \in Database
      /\ MayWrite("rec") => Visible("rec").warned = work.warned
  BY VisibleTyped, WarnedTyped DEF Typed, TypeOK
<1>1. CASE LetAlone \/ AskAdmins
  <2>1. rec.pc = "answered" /\ JustNote /\ alerted' = alerted
    BY <1>1 DEF LetAlone, AskAdmins, Doomed, Member
  <2> QED
    BY <1>0, <2>1, NotedKeeps DEF JustNote, Write, ReadOnly, Alike, SameWarnings
<1>2. CASE DecideRemoval
  <2> DEFINE n == Noted(Visible("rec"))
             w == [n EXCEPT !.user[rec.user].source = "system"]
  <2>1. rec.pc = "answered" /\ rec.user \in Users /\ Write("rec", w) /\ alerted' = alerted
    BY <1>2 DEF DecideRemoval, Doomed, Member, Typed, TypeOK, RunTypeOK
  <2>2. n \in Database /\ n.warned = Visible("rec").warned
    BY <1>0, <2>1, NotedKeeps DEF Alike
  <2>3. w.warned = n.warned
    <3> HIDE DEF n
    <3> QED BY <2>1, <2>2, RowKeeps DEF Alike
  <2> HIDE DEF n, w
  <2> QED BY <1>0, <2>1, <2>2, <2>3 DEF Write, SameWarnings
<1>3. CASE BanUser
  <2> DEFINE js == IF Primary /\ SiteDeactivation THEN {"denied"} ELSE {}
             w == Queue(work, rec.user, js)
  <2>1. rec.user \in Users /\ js \in SUBSET Job /\ Write("rec", w) /\ alerted' = alerted
    BY <1>3 DEF BanUser, Typed, TypeOK, RunTypeOK, Job
  <2>2. w.warned = work.warned
    <3> HIDE DEF js
    <3> QED BY <1>0, <2>1, QueueKeeps DEF Alike
  <2> HIDE DEF w
  <2> QED BY <2>1, <2>2 DEF Write, SameWarnings
<1>4. CASE \/ StartRun \/ AskTelegram \/ TelegramAnswers \/ AskingFails \/ LockTimeout
           \/ AlertFails \/ BanUnconfirmed \/ BanFails \/ NextChat
  BY <1>4 DEF StartRun, AskTelegram, TelegramAnswers, AskingFails, LockTimeout,
     SkipUser, AlertFails, BanUnconfirmed, BanFails, NextChat, ReadOnly, SameWarnings
<1> QED
  BY <1>1, <1>2, <1>3, <1>4 DEF Reconcile, HandleAnswer

\* The restore worker and the handlers of one step change none of it.
LEMMA OthersKeepWarnings ==
  ASSUME Typed,
         \/ RestoreWorker \/ People \/ UNCHANGED vars
         \/ \E u \in Users : \/ Deliver(u) \/ Decide(u) \/ RestoreCommand(u)
                             \/ Pay(u)
  PROVE  SameWarnings /\ rec' = rec
<1>1. CASE RestoresAbort \/ FinishRestores
  BY <1>1, WarnedTyped DEF RestoresAbort, FinishRestores, Commit, Rollback, ReadOnly,
     Visible, SameWarnings
<1>2. CASE RestoreWorker /\ ~RestoresAbort /\ ~FinishRestores
  BY <1>2, ResData, WarnedTyped DEF ResStep, Write, ReadOnly, SameWarnings
<1>3. CASE People
  BY <1>3, PeopleTyped, Zenon DEF SameWarnings
<1>4. ASSUME NEW u \in Users, Deliver(u) \/ Decide(u) \/ RestoreCommand(u) \/ Pay(u)
      PROVE  SameWarnings /\ rec' = rec
  <2>1. alerted' = alerted
    BY <1>4, Zenon DEF Deliver, Decide, RestoreCommand, CheckRestore, WriteRestore,
       DropRestore, Pay
  <2>2. /\ db'.warned = db.warned /\ rec' = rec
        /\ OneStep(db') \/ ReadOnly
    BY <1>4, RequestsTyped
  <2>3. CASE OneStep(db')
    BY <2>1, <2>2, <2>3, WarnedTyped DEF OneStep, SameWarnings
  <2>4. CASE ReadOnly
    BY <2>1, <2>2, <2>4 DEF ReadOnly, SameWarnings
  <2> QED
    BY <2>2, <2>3, <2>4
<1> QED
  BY <1>1, <1>2, <1>3, <1>4 DEF vars, SameWarnings

\* Where neither the record nor the run moves, the invariant stays.
LEMMA QuietStep ==
  ASSUME AlertInv, SameWarnings, rec' = rec
  PROVE  Untouched' /\ WarningsWereSent' /\ Announced'
  BY DEF AlertInv, SameWarnings, Untouched, Ahead, WarningsWereSent, Announced, Here

\* A step that ends the work on one user, and may rewrite the record of this
\* user and chat in the run's own view, leaves the users ahead untouched.
LEMMA PassedOn ==
  ASSUME AlertInv, rec.pc \in Working, rec' = NextUser, db' = db,
         NEW d \in Day,
         \/ work'.warned = work.warned
         \/ work'.warned = [work.warned EXCEPT ![Here][rec.user] = d]
  PROVE  Untouched'
<1>0. Typed /\ RunTypeOK /\ rec.user \in Users /\ rec.user \notin rec.todo
  BY DEF AlertInv, Typed, TypeOK, RunTypeOK, Working, Announced
<1> SUFFICES ASSUME NEW i \in DOMAIN Chats, NEW v \in Users, Ahead(i, v)'
             PROVE  work'.warned[Chats[i]][v] = db'.warned[Chats[i]][v]
  BY DEF Untouched
<1>1. i > rec.at \/ (i = rec.at /\ v \in rec.todo)
  BY DEF Ahead, NextUser, Working
<1>2. work.warned[Chats[i]][v] = db.warned[Chats[i]][v]
  BY <1>1 DEF AlertInv, Untouched, Ahead, Working
<1>3. Chats[i] # Here \/ v # rec.user
  <2>1. i > rec.at => i # rec.at
    BY <1>0, ChatFacts DEF RunTypeOK
  <2> QED
    BY <1>0, <1>1, <2>1, ChatFacts DEF RunTypeOK, Here
<1>4. Chats[i] \in Places /\ Here \in Places
  BY <1>0, ChatFacts
<1> QED
  BY <1>0, <1>2, <1>3, <1>4, WarnedTyped

\* What the three actions that do change the record do to it.
LEMMA KeepUserWarnings ==
  ASSUME Typed, KeepUser
  PROVE  /\ rec.pc \in Working /\ rec' = NextUser /\ db' = db /\ alerted' = alerted
         /\ work'.warned = [work.warned EXCEPT ![Here][rec.user] = "none"]
<1> DEFINE u == rec.user
           n == Noted(Visible("rec"))
           w == [n EXCEPT !.warned[Here][u] = "none"]
           js == IF Primary /\ rec.answer = "left" /\ SiteDeactivation
                   THEN {"left"} ELSE {}
<1>1. rec.pc = "answered" /\ u \in Users /\ Here \in Places /\ js \in SUBSET Job
  BY ChatFacts DEF KeepUser, Typed, TypeOK, RunTypeOK, Job
<1>2. /\ Write("rec", Queue(w, u, js)) /\ rec' = NextUser /\ alerted' = alerted
      /\ MayWrite("rec")
  BY DEF KeepUser, Write
<1>3. n \in Database /\ n.warned = work.warned
  BY <1>1, <1>2, NotedKeeps, VisibleTyped, WarnedTyped DEF Alike
<1>4. w \in Database /\ w.warned = [work.warned EXCEPT ![Here][u] = "none"]
  <2> HIDE DEF n
  <2> QED BY <1>1, <1>3 DEF Database, Day
<1>5. Queue(w, u, js).warned = w.warned
  <2> HIDE DEF w, js
  <2> QED BY <1>1, <1>4, QueueKeeps DEF Alike
<1> HIDE DEF n, w, js
<1> QED
  BY <1>1, <1>2, <1>4, <1>5 DEF Write, Working

LEMMA AlertSentWarnings ==
  ASSUME Typed, AlertSent
  PROVE  /\ rec.pc \in Working /\ rec' = NextUser /\ db' = db
         /\ work'.warned = [work.warned EXCEPT ![Here][rec.user] = rec.day]
         /\ alerted' = [alerted EXCEPT ![Here][rec.user] = rec.day]
<1>1. /\ rec.pc = "alerting" /\ rec' = NextUser /\ MayWrite("rec")
      /\ Write("rec", [Visible("rec") EXCEPT !.warned[Here][rec.user] = rec.day])
      /\ alerted' = [alerted EXCEPT ![Here][rec.user] = rec.day]
  BY DEF AlertSent, Write
<1>2. Visible("rec") = work
  BY <1>1 DEF MayWrite, Visible, Typed, Ledgers
<1>3. work \in Database
  BY DEF Typed, TypeOK
<1> QED
  BY <1>1, <1>2, <1>3 DEF Write, Working, Database

LEMMA FinishRunWarnings ==
  ASSUME Typed, FinishRun
  PROVE  /\ rec'.pc = "idle" /\ work'.warned = db'.warned
         /\ alerted' = [c \in Places |-> [u \in Users |->
              IF db'.warned[c][u] = "none" THEN "none" ELSE alerted[c][u]]]
         /\ db'.warned \in {db.warned, work.warned}
  BY WarnedTyped DEF FinishRun, Commit, ReadOnly, Visible, NoRun

LEMMA RecKeepsAlertInv ==
  ASSUME AlertInv, Reconcile
  PROVE  Untouched' /\ WarningsWereSent' /\ Announced'
<1>0. /\ Typed /\ RunTypeOK /\ Here \in Places
      /\ rec.pc \in Working => rec.user \in Users
      /\ db.warned \in [Places -> [Users -> Day]]
      /\ work.warned \in [Places -> [Users -> Day]]
      /\ alerted \in [Places -> [Users -> Day]]
      /\ Untouched /\ WarningsWereSent /\ Announced
  BY WarnedTyped, ChatFacts DEF AlertInv, Typed, TypeOK, RunTypeOK, Working
<1>1. CASE StartRun
  <2>1. SameWarnings /\ work.warned = db.warned
    <3>1. holder # "rec"
      BY <1>0, <1>1 DEF StartRun, Idle, Typed, Ledgers
    <3>2. SameWarnings
      BY <1>0, <1>1, RecKeepsWarnings
         DEF StartRun, Idle, KeepUser, AlertSent, FinishRun
    <3> QED BY <1>0, <3>1, <3>2, WarnedTyped
  <2> QED
    BY <1>0, <1>1, <2>1 DEF StartRun, Pass, SameWarnings, Untouched,
       WarningsWereSent, Announced, Working
<1>2. CASE KeepUser
  <2>1. Untouched'
    BY <1>0, <1>2, KeepUserWarnings, PassedOn DEF Day
  <2>2. WarningsWereSent'
    <3>1. work'.warned = [work.warned EXCEPT ![Here][rec.user] = "none"]
          /\ db' = db /\ alerted' = alerted
      BY <1>0, <1>2, KeepUserWarnings
    <3>2. \A c \in Places, u \in Users :
            work'.warned[c][u] \in {"none", work.warned[c][u]}
      BY <1>0, <3>1
    <3> QED BY <1>0, <3>1, <3>2 DEF WarningsWereSent
  <2>3. Announced'
    BY <1>0, <1>2, KeepUserWarnings DEF Announced, NextUser, Working
  <2> QED BY <2>1, <2>2, <2>3
<1>3. CASE AlertSent
  <2>0. rec.pc = "alerting" /\ rec.day \in {"today", "earlier"}
    BY <1>0, <1>3 DEF AlertSent, Announced
  <2>1. Untouched'
    BY <1>0, <1>3, <2>0, AlertSentWarnings, PassedOn DEF Day
  <2>2. WarningsWereSent'
    <3>1. db.warned[Here][rec.user] = "none"
      BY <1>0, <2>0 DEF Announced
    <3>2. /\ work.warned \in [Places -> [Users -> Day]]
          /\ alerted \in [Places -> [Users -> Day]]
      BY <1>0, WarnedTyped
    <3>3. ASSUME NEW c \in Places, NEW u \in Users
          PROVE  /\ db'.warned[c][u] # "none" => alerted'[c][u] = db'.warned[c][u]
                 /\ work'.warned[c][u] # "none" => alerted'[c][u] = work'.warned[c][u]
      BY <1>0, <1>3, <3>1, <3>2, AlertSentWarnings DEF WarningsWereSent
    <3> QED
      BY <3>3 DEF WarningsWereSent
  <2>3. Announced'
    BY <1>0, <1>3, AlertSentWarnings DEF Announced, NextUser, Working
  <2> QED BY <2>1, <2>2, <2>3
<1>4. CASE FinishRun
  BY <1>0, <1>4, FinishRunWarnings DEF Untouched, WarningsWereSent, Announced, Working
<1>5. CASE AskTelegram
  <2>1. SameWarnings
    BY <1>0, <1>5, RecKeepsWarnings DEF AskTelegram, KeepUser, AlertSent, FinishRun
  <2>2. PICK u \in rec.todo :
          rec' = [pc |-> "asking", at |-> rec.at, todo |-> rec.todo \ {u},
                  rows |-> rec.rows, user |-> u, paid |-> Visible("rec").paid[u]]
    BY <1>5 DEF AskTelegram
  <2> QED
    BY <1>0, <1>5, <2>1, <2>2 DEF AskTelegram, SameWarnings, Untouched, Ahead,
       WarningsWereSent, Announced, Working
<1>6. CASE TelegramAnswers
  <2>1. SameWarnings
    BY <1>0, <1>6, RecKeepsWarnings DEF TelegramAnswers, KeepUser, AlertSent, FinishRun
  <2> QED
    BY <1>0, <1>6, <2>1 DEF TelegramAnswers, SameWarnings, Untouched, Ahead,
       WarningsWereSent, Announced, Working
<1>7. CASE \/ AskingFails \/ AlertFails \/ BanFails \/ LockTimeout \/ LetAlone
           \/ BanUser \/ BanUnconfirmed
  <2>1. rec.pc \in Working /\ rec.pc # "next" /\ rec' = NextUser /\ db' = db
    BY <1>7 DEF AskingFails, AlertFails, BanFails, LockTimeout, LetAlone, BanUser,
       BanUnconfirmed, SkipUser, ReadOnly, JustNote, Write, Working
  <2>2. SameWarnings
    BY <1>0, <1>7, RecKeepsWarnings DEF Reconcile, HandleAnswer, AskingFails,
       AlertFails, BanFails, LockTimeout, SkipUser, LetAlone, BanUser,
       BanUnconfirmed, KeepUser, AlertSent, FinishRun, ReadOnly, SameWarnings
  <2>3. Untouched'
    BY <2>1, <2>2, PassedOn DEF SameWarnings, Day
  <2> QED
    BY <1>0, <2>1, <2>2, <2>3 DEF SameWarnings, WarningsWereSent, Announced,
       NextUser, Working
<1>8. CASE AskAdmins \/ DecideRemoval
  <2>1. /\ rec.pc = "answered" /\ rec.user \in Users
        /\ rec'.pc \in {"alerting", "banning"} /\ rec'.at = rec.at
        /\ rec'.todo = rec.todo /\ rec'.user = rec.user
        /\ rec'.pc = "alerting" => rec'.day = "today" /\ Warned = "none"
        /\ rec'.pc = "banning" => MayWrite("rec") /\ Warned = "earlier"
    BY <1>0, <1>8 DEF AskAdmins, DecideRemoval, Doomed, Member, Working, Write
  <2>2. SameWarnings
    BY <1>0, <1>8, <2>1, RecKeepsWarnings DEF AskAdmins, DecideRemoval, KeepUser,
       LetAlone, AlertSent, FinishRun, NextUser
  <2>3. work.warned[Here][rec.user] = db.warned[Here][rec.user]
    BY <1>0, <2>1 DEF Untouched, Ahead, Working, Here, RunTypeOK
  <2>4. Visible("rec").warned[Here][rec.user] = db.warned[Here][rec.user]
    BY <2>3 DEF Visible
  <2>5. Untouched'
    BY <1>0, <2>1, <2>2 DEF SameWarnings, Untouched, Ahead, Working
  <2>6. WarningsWereSent'
    BY <1>0, <2>2 DEF SameWarnings, WarningsWereSent
  <2>7. Announced'
    BY <1>0, <2>1, <2>2, <2>3, <2>4 DEF SameWarnings, Announced, WarningsWereSent,
       Warned, Here, Working
  <2> QED BY <2>5, <2>6, <2>7
<1>9. CASE NextChat
  <2>1. SameWarnings
    BY <1>0, <1>9, RecKeepsWarnings DEF NextChat, KeepUser, AlertSent, FinishRun
  <2>2. \A i \in DOMAIN Chats, u \in Users : Ahead(i, u)' => Ahead(i, u)
    BY <1>0, <1>9, ChatFacts DEF NextChat, Pass, Ahead, RunTypeOK, Working
  <2> QED
    BY <1>0, <1>9, <2>1, <2>2 DEF NextChat, Pass, SameWarnings, Untouched,
       WarningsWereSent, Announced, Working
<1> QED
  BY <1>1, <1>2, <1>3, <1>4, <1>5, <1>6, <1>7, <1>8, <1>9 DEF Reconcile, HandleAnswer

LEMMA MidnightKeepsAlertInv ==
  ASSUME AlertInv, Midnight
  PROVE  Untouched' /\ WarningsWereSent' /\ Announced'
<1>0. /\ RunTypeOK /\ Here \in Places
      /\ rec.pc \in Working => rec.user \in Users
      /\ \A i \in DOMAIN Chats : Chats[i] \in Places
      /\ db.warned \in [Places -> [Users -> Day]]
      /\ work.warned \in [Places -> [Users -> Day]]
      /\ alerted \in [Places -> [Users -> Day]]
      /\ db \in Database /\ work \in Database
      /\ Untouched /\ WarningsWereSent /\ Announced
  BY WarnedTyped, ChatFacts DEF AlertInv, Typed, TypeOK, RunTypeOK, Working
<1>1. /\ db'.warned = Older(db.warned) /\ work'.warned = Older(work.warned)
      /\ alerted' = Older(alerted)
  BY <1>0 DEF Midnight, Database
<1> DEFINE aged(d) == IF d = "today" THEN "earlier" ELSE d
<1>2. \A c \in Places, u \in Users :
        /\ db'.warned[c][u] = aged(db.warned[c][u])
        /\ work'.warned[c][u] = aged(work.warned[c][u])
        /\ alerted'[c][u] = aged(alerted[c][u])
  <2>1. \A days : \A c \in Places, u \in Users : Older(days)[c][u] = aged(days[c][u])
    BY DEF Older
  <2> QED BY <1>1, <2>1
<1>3. /\ rec'.pc = rec.pc /\ rec'.todo = rec.todo /\ rec'.at = rec.at
      /\ rec.pc \in Working => rec'.user = rec.user
  BY <1>0, ClockTyped DEF AlertInv
<1>4. rec.pc = "alerting" => rec'.day \in {"today", "earlier"}
  BY <1>0 DEF Midnight, Announced
<1>5. Untouched'
  <2> SUFFICES ASSUME rec'.pc # "idle", NEW i \in DOMAIN Chats, NEW u \in Users,
                      Ahead(i, u)'
               PROVE  work'.warned[Chats[i]][u] = db'.warned[Chats[i]][u]
    BY DEF Untouched
  <2>1. Ahead(i, u)
    BY <1>3 DEF Ahead, Working
  <2>2. work.warned[Chats[i]][u] = db.warned[Chats[i]][u]
    BY <1>0, <1>3, <2>1 DEF Untouched
  <2> QED BY <1>0, <1>2, <2>2
<1>6. WarningsWereSent'
  <2> SUFFICES ASSUME NEW c \in Places, NEW u \in Users
               PROVE  /\ db'.warned[c][u] # "none" => alerted'[c][u] = db'.warned[c][u]
                      /\ work'.warned[c][u] # "none" => alerted'[c][u] = work'.warned[c][u]
    BY DEF WarningsWereSent
  <2>1. /\ db.warned[c][u] # "none" => alerted[c][u] = db.warned[c][u]
        /\ work.warned[c][u] # "none" => alerted[c][u] = work.warned[c][u]
    BY <1>0 DEF WarningsWereSent
  <2> QED BY <1>2, <2>1
<1>7. Announced'
  BY <1>0, <1>2, <1>3, <1>4 DEF Announced, Here, Working
<1> QED
  BY <1>5, <1>6, <1>7

LEMMA ExpireKeepsAlertInv ==
  ASSUME AlertInv, NEW u \in Users, Expire(u)
  PROVE  Untouched' /\ WarningsWereSent' /\ Announced'
<1>1. SameWarnings
  BY DEF AlertInv, Typed, TypeOK, Database, Expire, SameWarnings
<1>2. /\ rec'.pc = rec.pc /\ rec'.todo = rec.todo /\ rec'.at = rec.at
      /\ rec.pc \in Working => rec'.user = rec.user
      /\ rec' = rec \/ rec.pc \in {"asking", "answered"}
  BY ClockTyped DEF AlertInv, Expire
<1> QED
  BY <1>1, <1>2 DEF AlertInv, SameWarnings, Untouched, Ahead, WarningsWereSent,
     Announced, Here, Working

LEMMA InitAlertInv == Init => AlertInv
<1> SUFFICES ASSUME Init PROVE AlertInv
  OBVIOUS
<1>1. Typed
  BY InitTyped
<1>2. Untouched /\ WarningsWereSent /\ Announced
  BY DEF Init, NoRun, Untouched, WarningsWereSent, Announced, Working
<1> QED BY <1>1, <1>2 DEF AlertInv

LEMMA NextAlertInv == AlertInv /\ [Next]_vars => AlertInv'
<1> SUFFICES ASSUME AlertInv, [Next]_vars PROVE AlertInv'
  OBVIOUS
<1>0. Typed /\ Typed'
  BY NextTyped DEF AlertInv
<1>1. CASE Reconcile
  BY <1>0, <1>1, RecKeepsAlertInv DEF AlertInv
<1>2. CASE RestoreWorker \/ People \/ UNCHANGED vars
  BY <1>0, <1>2, OthersKeepWarnings, QuietStep DEF AlertInv
<1>3. CASE Requests
  <2>1. PICK u \in Users :
          Deliver(u) \/ Decide(u) \/ RestoreCommand(u) \/ Pay(u) \/ Expire(u)
    BY <1>3 DEF Requests
  <2>2. CASE Expire(u)
    BY <1>0, <2>2, ExpireKeepsAlertInv DEF AlertInv
  <2>3. CASE Deliver(u) \/ Decide(u) \/ RestoreCommand(u) \/ Pay(u)
    BY <1>0, <2>3, OthersKeepWarnings, QuietStep DEF AlertInv
  <2> QED BY <2>1, <2>2, <2>3
<1>4. CASE Midnight
  BY <1>0, <1>4, MidnightKeepsAlertInv DEF AlertInv
<1>5. CASE Crash
  <2>1. /\ db' = db /\ work' = db /\ alerted' = alerted /\ rec' = NoRun
    BY <1>5 DEF Crash, Rollback
  <2> QED
    BY <1>0, <2>1 DEF AlertInv, NoRun, Untouched, WarningsWereSent, Announced, Working
<1> QED
  BY <1>1, <1>2, <1>3, <1>4, <1>5 DEF Next

\* THEOREM: however the reconciliation is interrupted, restarted or mixed with
\* other handlers, it removes a member from a chat only after an alert of an
\* earlier day that no finished run has cancelled.
THEOREM RemovalIsAnnounced == Spec => RemovalFollowsAlert
<1> DEFINE Announces == \A c \in Places, u \in Users :
             BotBans(c, u) /\ rec' # rec => alerted[c][u] = "earlier"
<1>1. AlertInv /\ [Next]_vars => Announces
  <2> SUFFICES ASSUME AlertInv, [Next]_vars, NEW c \in Places, NEW u \in Users,
                      BotBans(c, u), rec' # rec
               PROVE  alerted[c][u] = "earlier"
    OBVIOUS
  <2>1. /\ rec.pc = "banning" /\ chat[c][u] # "kicked" /\ chat'[c][u] = "kicked"
        /\ chat \in [Places -> [Users -> Membership]]
        /\ alerted[Here][rec.user] = "earlier"
    BY DEF BotBans, AlertInv, Typed, TypeOK, Announced
  <2>2. BanUser \/ BanUnconfirmed
    <3>1. rec' # rec /\ chat' # chat
      BY <2>1
    <3>2. ~RestoreWorker /\ ~People
      BY <2>1, OthersKeepWarnings DEF AlertInv
    <3>3. ~Midnight /\ ~Crash
      BY <3>1 DEF Midnight, Crash, telegram
    <3>4. ~Requests
      BY <3>1 DEF Requests, Deliver, Decide, RestoreCommand, CheckRestore, WriteRestore,
         DropRestore, Pay, Expire, telegram
    <3> QED
      BY <2>1, <3>1, <3>2, <3>3, <3>4 DEF Next, vars, Reconcile, HandleAnswer, StartRun,
         AskTelegram, TelegramAnswers, AskingFails, KeepUser, LetAlone, AskAdmins,
         DecideRemoval, LockTimeout, SkipUser, AlertSent, AlertFails, BanFails,
         NextChat, FinishRun, telegram
  <2>3. Thrown(Here, rec.user)
    BY <2>2 DEF BanUser, BanUnconfirmed
  <2>4. c = Here /\ u = rec.user
    BY <2>1, <2>3 DEF Thrown
  <2> QED
    BY <2>1, <2>4
<1>2. AlertInv /\ [Next]_vars => [Announces]_vars
  BY <1>1
<1> QED
  BY <1>2, InitAlertInv, NextAlertInv, PTL DEF Spec, RemovalFollowsAlert

---------------------------------------------------------------------------
(* Manual bans and the restore jobs that lift them. *)

\* A manual ban goes back to a delivered update, and so does everything a
\* ban can come from: the restore jobs and the commands that queue them.
WasReported(w) ==
  /\ \A u \in Users : w.user[u].banned => "kicked" \in w.user[u].jobs
  /\ \A j \in DOMAIN w.restore : "kicked" \in w.user[w.restore[j].user].jobs

BansReported ==
  /\ WasReported(db) /\ WasReported(work)
  /\ \A u \in Users : "kicked" \in db.user[u].jobs => "kicked" \in work.user[u].jobs
  /\ \A u \in asked : "kicked" \in db.user[u].jobs

\* What no open transaction changes.
SameJobs ==
  /\ \A u \in Users : work.user[u].override = db.user[u].override
  /\ \A j \in DOMAIN db.restore : work.restore[j].user = db.restore[j].user

\* The jobs the worker still has to end are pending in both views.
InHand == res.todo \cup (IF res.pc = "unban" THEN {res.job} ELSE {})

BatchPending ==
  \A j \in InHand : db.restore[j].status = "pending" /\ work.restore[j] = db.restore[j]

Unbanning ==
  res.pc = "unban" => res.job \notin res.todo /\ db.user[JobUser].override # "deny"

\* Only the worker lifts a ban, in the job it is at or in one it has ended.
EndedInWork(u) ==
  \E j \in DOMAIN db.restore : /\ db.restore[j] = [user |-> u, status |-> "pending"]
                               /\ work.restore[j].status = "done"
LiftsEnded ==
  \A u \in Users : db.user[u].banned /\ ~work.user[u].banned =>
    /\ holder = "res"
    /\ (res.pc = "unban" /\ JobUser = u) \/ EndedInWork(u)

Restoring == SameJobs /\ BatchPending /\ Unbanning /\ LiftsEnded

\* A removal of the bot leaves its mark in the row before Telegram can tell
\* of it, so a member no administrator has thrown out has no ban, no restore
\* job, and the mark whenever a "kicked" is on its way.
KickWaits(u) == \E i \in DOMAIN updates[u] : updates[u][i] = "kicked"

NeverKicked(u) ==
  /\ ~db.user[u].banned /\ ~work.user[u].banned
  /\ u \notin asked
  /\ \A j \in DOMAIN db.restore : db.restore[j].user # u
  /\ KickWaits(u) => /\ work.user[u].source = "system"
                     /\ holder # "rec" => db.user[u].source = "system"
OwnRemovals ==
  crashes = 0 =>
    /\ rec.pc = "banning" => work.user[rec.user].source = "system"
    /\ \A u \in Users : kicked[u] = "never" => NeverKicked(u)

\* Whom an administrator threw out has the update on its way, a ban or the
\* bot's mark; the restore worker takes them away only once it has unbanned
\* the member in the group, the first of the chats.
Marked(w, u) == w.user[u].banned \/ w.user[u].source = "system"

KickTraced(u) ==
  \/ KickWaits(u)
  \/ /\ Marked(db, u)
     /\ Marked(work, u) \/ (res.pc = "unban" /\ JobUser = u /\ res.at = 1)
     /\ res.pc = "unban" /\ JobUser = u => res.at = 1

KicksRecorded == \A u \in Users : kicked[u] = "now" => KickTraced(u)

BanInv == /\ Typed /\ BansReported /\ Restoring /\ OwnRemovals /\ KicksRecorded

---------------------------------------------------------------------------
(* What a step does to the rows. *)

\* The rows and the restore jobs rest.
RowsRest ==
  /\ db'.user = db.user /\ db'.restore = db.restore
  /\ work'.user = work.user /\ work'.restore = work.restore
  /\ holder' = holder

\* What the reconciliation may do to them.
Calm(v, w) ==
  /\ w.restore = v.restore
  /\ \A u \in Users : /\ w.user[u].banned = v.user[u].banned
                      /\ w.user[u].override = v.user[u].override
                      /\ v.user[u].jobs \subseteq w.user[u].jobs
                      /\ w.user[u].source \in {v.user[u].source, "system"}

RecWrites ==
  holder \in {"none", "rec"} /\ holder' = "rec" /\ db' = db /\ Calm(work, work')

\* A transaction ends, with or without its changes.
Closes == holder' = "none" /\ work' = db' /\ (db' = db \/ db' = work)

\* The row of one user gets another ban and source.
RowSet(v, w, u, ban, source) ==
  /\ \A x \in Users \ {u} : w.user[x] = v.user[x]
  /\ w.user[u].banned = ban /\ w.user[u].source = source
  /\ w.user[u].override = v.user[u].override
  /\ w.user[u].jobs = v.user[u].jobs

JobEnded(v, w, j, result) ==
  /\ DOMAIN w.restore = DOMAIN v.restore
  /\ \A k \in DOMAIN v.restore : k # j => w.restore[k] = v.restore[k]
  /\ w.restore[j].user = v.restore[j].user /\ w.restore[j].status = result

WorkerWrites == holder \in {"none", "res"} /\ holder' = "res" /\ db' = db

\* The worker begins a job, or ends the job j one way or the other.
Lifts(j) ==
  LET u == work.restore[j].user IN
  /\ WorkerWrites /\ res.pc = "next" /\ j \in res.todo
  /\ RowSet(work, work', u, FALSE, work.user[u].source)
  /\ work'.restore = work.restore
  /\ work.user[u].override # "deny"
  /\ res' = [pc |-> "unban", todo |-> res.todo \ {j}, job |-> j, at |-> 1]

Fails(j) ==
  LET u == work.restore[j].user IN
  /\ WorkerWrites /\ j \in InHand
  /\ RowSet(work, work', u, TRUE, work.user[u].source)
  /\ JobEnded(work, work', j, "failed")
  /\ res'.pc = "next" /\ res'.todo = res.todo \ {j}
  /\ res.pc = "unban" => j = res.job

Succeeds(j) ==
  LET u == work.restore[j].user IN
  /\ WorkerWrites /\ res.pc = "unban" /\ j = res.job /\ res.at > 1
  /\ RowSet(work, work', u, FALSE, "none")
  /\ JobEnded(work, work', j, "done")
  /\ res'.pc = "next" /\ res'.todo = res.todo

\* A handler of one step writes the row of one user.
RowHandled(u) ==
  /\ holder = "none" /\ holder' = "none" /\ work' = db'
  /\ \A x \in Users \ {u} : db'.user[x] = db.user[x]
  /\ db.user[u].jobs \subseteq db'.user[u].jobs

LEMMA CalmItself == \A w : Calm(w, w)
  BY DEF Calm

LEMMA CalmChain ==
  ASSUME NEW a, NEW b, NEW c, Calm(a, b), Calm(b, c)
  PROVE  Calm(a, c)
  BY DEF Calm

LEMMA CalmChanges ==
  ASSUME NEW w \in Database, NEW u \in Users
  PROVE  /\ \A s : Calm(w, [w EXCEPT !.user[u].status = s])
         /\ Calm(w, [w EXCEPT !.user[u].source = "system"])
         /\ \A js \in SUBSET Job : Calm(w, Queue(w, u, js))
         /\ \A d : \A c \in Places : Calm(w, [w EXCEPT !.warned[c][u] = d])
<1>1. w.user \in [Users -> UserRow] /\ w.user[u] \in UserRow
  BY DEF Database
<1>2. \A s : Calm(w, [w EXCEPT !.user[u].status = s])
  BY <1>1 DEF Database, UserRow, Calm
<1>3. Calm(w, [w EXCEPT !.user[u].source = "system"])
  BY <1>1 DEF Database, UserRow, Calm
<1>4. \A js \in SUBSET Job : Calm(w, Queue(w, u, js))
  BY <1>1 DEF Database, UserRow, Calm, Queue
<1>5. \A d : \A c \in Places : Calm(w, [w EXCEPT !.warned[c][u] = d])
  BY DEF Database, Calm
<1> QED BY <1>2, <1>3, <1>4, <1>5

LEMMA NotedCalm ==
  ASSUME Typed, rec.pc = "answered", NEW w \in Database
  PROVE  Calm(w, Noted(w))
<1> DEFINE set == [w EXCEPT !.user[rec.user].status = rec.answer]
<1>1. rec.user \in Users /\ rec.answer \in Membership
  BY DEF Typed, TypeOK, RunTypeOK
<1>2. set \in Database /\ Calm(w, set)
  BY <1>1, RowKeeps, CalmChanges
<1>3. \A js \in SUBSET Job : Calm(w, Queue(set, rec.user, js))
  <2> HIDE DEF set
  <2> QED BY <1>1, <1>2, CalmChanges, CalmChain
<1>4. Noted(w) = w \/ \E js \in SUBSET Job : Noted(w) = Queue(set, rec.user, js)
  BY DEF Noted, Job
<1> HIDE DEF set
<1> QED
  BY <1>3, <1>4, CalmItself

\* A view the reconciliation may write to is the working view.
LEMMA RecView ==
  ASSUME Typed, MayWrite("rec")
  PROVE  Visible("rec") = work /\ holder \in {"none", "rec"} /\ work \in Database
  BY DEF Typed, TypeOK, Ledgers, MayWrite, Visible

LEMMA RecRows ==
  ASSUME Typed, Reconcile, ~FinishRun
  PROVE  RowsRest \/ RecWrites
<1>1. CASE KeepUser
  <2> DEFINE u == rec.user
             n == Noted(Visible("rec"))
             w == [n EXCEPT !.warned[Here][u] = "none"]
             js == IF Primary /\ rec.answer = "left" /\ SiteDeactivation
                     THEN {"left"} ELSE {}
  <2>1. /\ u \in Users /\ Here \in Places /\ js \in SUBSET Job /\ rec.pc = "answered"
        /\ Write("rec", Queue(w, u, js)) /\ MayWrite("rec")
    BY <1>1, ChatFacts DEF KeepUser, Typed, TypeOK, RunTypeOK, Job, Write
  <2>2. Calm(work, n) /\ n \in Database
    BY <2>1, RecView, NotedCalm, NotedKeeps
  <2>3. Calm(n, w) /\ w \in Database
    <3> HIDE DEF n
    <3>1. w \in Database
      BY <2>1, <2>2 DEF Database, Day
    <3> QED BY <2>1, <2>2, <3>1, CalmChanges
  <2>4. Calm(w, Queue(w, u, js))
    <3> HIDE DEF w, js
    <3> QED BY <2>1, <2>3, CalmChanges
  <2> HIDE DEF w, n, js
  <2> QED BY <2>1, <2>2, <2>3, <2>4, RecView, CalmChain DEF Write, RecWrites
<1>2. CASE LetAlone \/ AskAdmins
  <2>1. rec.pc = "answered" /\ JustNote
    BY <1>2 DEF LetAlone, AskAdmins, Doomed, Member
  <2> QED
    BY <2>1, RecView, NotedCalm DEF JustNote, Write, ReadOnly, RowsRest, RecWrites
<1>3. CASE DecideRemoval
  <2> DEFINE n == Noted(Visible("rec"))
             w == [n EXCEPT !.user[rec.user].source = "system"]
  <2>1. /\ rec.pc = "answered" /\ rec.user \in Users
        /\ Write("rec", w) /\ MayWrite("rec")
    BY <1>3 DEF DecideRemoval, Doomed, Member, Typed, TypeOK, RunTypeOK, Write
  <2>2. Calm(work, n) /\ n \in Database
    BY <2>1, RecView, NotedCalm, NotedKeeps
  <2>3. Calm(n, w)
    <3> HIDE DEF n
    <3> QED BY <2>1, <2>2, CalmChanges
  <2> HIDE DEF n, w
  <2> QED BY <2>1, <2>2, <2>3, RecView, CalmChain DEF Write, RecWrites
<1>4. CASE AlertSent
  <2> DEFINE w == [work EXCEPT !.warned[Here][rec.user] = rec.day]
  <2>1. /\ rec.user \in Users /\ Here \in Places /\ MayWrite("rec")
    BY <1>4, ChatFacts DEF AlertSent, Typed, TypeOK, RunTypeOK, Write
  <2>2. Write("rec", w)
    BY <1>4, <2>1, RecView DEF AlertSent
  <2> QED BY <2>1, <2>2, RecView, CalmChanges DEF Write, RecWrites
<1>5. CASE BanUser
  <2> DEFINE js == IF Primary /\ SiteDeactivation THEN {"denied"} ELSE {}
  <2>1. /\ rec.user \in Users /\ js \in SUBSET Job /\ MayWrite("rec")
        /\ Write("rec", Queue(work, rec.user, js))
    BY <1>5 DEF BanUser, Typed, TypeOK, RunTypeOK, Job, Write
  <2> HIDE DEF js
  <2> QED BY <2>1, RecView, CalmChanges DEF Write, RecWrites
<1>6. CASE \/ StartRun \/ AskTelegram \/ TelegramAnswers \/ AskingFails \/ LockTimeout
           \/ AlertFails \/ BanUnconfirmed \/ BanFails \/ NextChat
  BY <1>6 DEF StartRun, AskTelegram, TelegramAnswers, AskingFails, LockTimeout,
     SkipUser, AlertFails, BanUnconfirmed, BanFails, NextChat, ReadOnly, RowsRest
<1> QED
  BY <1>1, <1>2, <1>3, <1>4, <1>5, <1>6 DEF Reconcile, HandleAnswer

\* The decision to remove is in the row before the bot calls Telegram.
LEMMA DecisionMarks ==
  ASSUME Typed, DecideRemoval
  PROVE  rec'.user = rec.user /\ work'.user[rec.user].source = "system"
<1> DEFINE n == Noted(Visible("rec"))
           w == [n EXCEPT !.user[rec.user].source = "system"]
<1>1. /\ rec.pc = "answered" /\ rec.user \in Users
      /\ Write("rec", w) /\ MayWrite("rec") /\ rec'.user = rec.user
  BY DEF DecideRemoval, Doomed, Member, Typed, TypeOK, RunTypeOK, Write
<1>2. n \in Database
  BY <1>1, RecView, NotedKeeps
<1>3. w.user[rec.user].source = "system"
  <2> HIDE DEF n
  <2> QED BY <1>1, <1>2 DEF Database, UserRow
<1> HIDE DEF w
<1> QED BY <1>1, <1>3 DEF Write

\* The end of a run commits what it wrote, or has written nothing.
LEMMA FinishRunRows ==
  ASSUME Typed, FinishRun
  PROVE  /\ \/ holder = "rec" /\ holder' = "none" /\ db' = work /\ work' = db'
            \/ holder # "rec" /\ RowsRest
         /\ rec'.pc = "idle"
  BY DEF FinishRun, Commit, Release, ReadOnly, RowsRest, Visible, NoRun

\* A field of a row, and the status of a job, are all that changes.
LEMMA RowSetTo ==
  ASSUME NEW w \in Database, NEW u \in Users, NEW b
  PROVE  /\ RowSet(w, [w EXCEPT !.user[u].banned = b], u, b, w.user[u].source)
         /\ RowSet(w, [w EXCEPT !.user[u].banned = b, !.user[u].source = "none",
                                !.user[u].status = "unknown"], u, b, "none")
<1>1. w.user \in [Users -> UserRow] /\ w.user[u] \in UserRow
  BY DEF Database
<1> QED BY <1>1 DEF Database, UserRow, RowSet

LEMMA JobEnds ==
  ASSUME NEW w, NEW v \in Database, NEW j \in DOMAIN v.restore, NEW result
  PROVE  /\ JobEnded(v, Ends(j, v, result), j, result)
         /\ Ends(j, v, result).user = v.user
<1>1. v.restore \in Seq(Restore)
  BY DEF Database
<1>2. v.restore[j] \in Restore
  BY <1>1, ElementOfSeq
<1>3. [v.restore[j] EXCEPT !.status = result].user = v.restore[j].user
      /\ [v.restore[j] EXCEPT !.status = result].status = result
  BY <1>2 DEF Restore
<1>4. Ends(j, v, result).restore
        = [v.restore EXCEPT ![j] = [v.restore[j] EXCEPT !.status = result]]
  BY DEF Ends, Database
<1>5. Ends(j, v, result).user = v.user
  BY DEF Ends, Database
<1> QED BY <1>3, <1>4, <1>5 DEF JobEnded

LEMMA FailedRow ==
  ASSUME NEW w \in Database, NEW j \in DOMAIN w.restore
  PROVE  /\ RowSet(w, Failed(j, w), w.restore[j].user, TRUE,
                   w.user[w.restore[j].user].source)
         /\ JobEnded(w, Failed(j, w), j, "failed")
<1> DEFINE u == w.restore[j].user
           banned == [w EXCEPT !.user[u].banned = TRUE]
<1>1. u \in Users
  BY RestoreFacts
<1>2. banned \in Database /\ Alike(banned, w)
  BY <1>1, RowKeeps, Zenon
<1>3. RowSet(w, banned, u, TRUE, w.user[u].source)
  BY <1>1, RowSetTo, Zenon
<1>4. Failed(j, w) = Ends(j, banned, "failed")
  BY DEF Failed
<1> HIDE DEF u, banned
<1>5. JobEnded(banned, Ends(j, banned, "failed"), j, "failed")
      /\ Ends(j, banned, "failed").user = banned.user
  BY <1>2, JobEnds DEF Alike
<1> QED
  BY <1>2, <1>3, <1>4, <1>5 DEF RowSet, JobEnded, Alike, u

LEMMA WorkerView ==
  ASSUME Typed, MayWrite("res")
  PROVE  /\ Visible("res") = work /\ holder \in {"none", "res"} /\ work \in Database
         /\ DOMAIN work.restore = DOMAIN db.restore
         /\ res.todo \subseteq DOMAIN work.restore
         /\ res.pc = "unban" => res.job \in DOMAIN work.restore
  BY DEF Typed, TypeOK, BatchTypeOK, Ledgers, MayWrite, Visible

\* The worker's first step with a job.
LEMMA TakeRestoreRows ==
  ASSUME Typed, TakeRestore
  PROVE  \E j \in res.todo : Lifts(j) \/ Fails(j)
<1>1. PICK j \in res.todo :
        LET w == Visible("res")
            u == w.restore[j].user
            lifted == [w EXCEPT !.user[u].banned = FALSE]
            rest == res.todo \ {j}
        IN \/ /\ Active(lifted, u) /\ Write("res", lifted)
              /\ res' = [pc |-> "unban", todo |-> rest, job |-> j, at |-> 1]
           \/ /\ Write("res", Failed(j, w))
              /\ res' = [pc |-> "next", todo |-> rest]
  BY DEF TakeRestore
<1> DEFINE u == work.restore[j].user
           lifted == [work EXCEPT !.user[u].banned = FALSE]
<1>2. MayWrite("res") /\ res.pc = "next"
  BY <1>1 DEF Write, TakeRestore
<1>3. /\ Visible("res") = work /\ holder \in {"none", "res"} /\ work \in Database
      /\ j \in DOMAIN work.restore /\ u \in Users /\ j \in InHand
  <2>1. /\ Visible("res") = work /\ holder \in {"none", "res"} /\ work \in Database
        /\ j \in DOMAIN work.restore
    BY <1>2, WorkerView
  <2>2. u \in Users
    BY <2>1, RestoreFacts
  <2> QED BY <2>1, <2>2 DEF InHand
<1>4. CASE /\ Active(lifted, u) /\ Write("res", lifted)
           /\ res' = [pc |-> "unban", todo |-> res.todo \ {j}, job |-> j, at |-> 1]
  <2>1. RowSet(work, lifted, u, FALSE, work.user[u].source)
    BY <1>3, RowSetTo, Zenon
  <2>2. lifted.restore = work.restore
    BY <1>3, RowKeeps DEF Alike
  <2>3. lifted.user[u].override # "deny"
    BY <1>4 DEF Active, EffectiveAccess
  <2> HIDE DEF lifted
  <2>4. WorkerWrites /\ work' = lifted
    BY <1>3, <1>4 DEF WorkerWrites, Write
  <2>5. work.user[u].override # "deny"
    BY <2>1, <2>3 DEF RowSet
  <2> QED BY <1>2, <1>4, <2>1, <2>2, <2>4, <2>5 DEF Lifts
<1>5. CASE /\ Write("res", Failed(j, work))
           /\ res' = [pc |-> "next", todo |-> res.todo \ {j}]
  BY <1>2, <1>3, <1>5, FailedRow DEF Fails, WorkerWrites, Write
<1> QED BY <1>1, <1>3, <1>4, <1>5

\* The end of the job it is at.
LEMMA EndRestoreRows ==
  ASSUME Typed, Restoring, Restored \/ RestoreRefused
  PROVE  res.pc = "unban" /\ (Fails(res.job) \/ Succeeds(res.job))
<1>1. res.pc = "unban" /\ MayWrite("res") /\ res.job \in InHand
      /\ res.todo = res.todo \ {res.job}
  BY DEF Restored, RestoreRefused, Write, Restoring, Unbanning, InHand
<1>2. /\ holder \in {"none", "res"} /\ work \in Database
      /\ res.job \in DOMAIN work.restore /\ JobUser \in Users
      /\ JobUser = work.restore[res.job].user
  BY <1>1, WorkerView, RestoreFacts DEF JobUser
<1>3. CASE RestoreRefused
  BY <1>1, <1>2, <1>3, FailedRow DEF RestoreRefused, Fails, WorkerWrites, Write, JobUser
<1>4. CASE Restored
  <2> DEFINE w == [work EXCEPT !.user[JobUser].banned = FALSE,
                               !.user[JobUser].source = "none",
                               !.user[JobUser].status = "unknown"]
  <2>1. RowSet(work, w, JobUser, FALSE, "none")
    BY <1>2, RowSetTo, Zenon
  <2>2. w \in Database /\ Alike(w, work)
    <3> DEFINE w1 == [work EXCEPT !.user[JobUser].banned = FALSE]
               w2 == [w1 EXCEPT !.user[JobUser].source = "none"]
               w3 == [w2 EXCEPT !.user[JobUser].status = "unknown"]
    <3>1. w1 \in Database /\ Alike(w1, work)
      BY <1>2, RowKeeps
    <3> HIDE DEF w1
    <3>2. w2 \in Database /\ Alike(w2, w1)
      BY <1>2, <3>1, RowKeeps
    <3> HIDE DEF w2
    <3>3. w3 \in Database /\ Alike(w3, w2)
      BY <1>2, <3>2, RowKeeps
    <3>4. w = w3
      BY DEF w1, w2
    <3> HIDE DEF w, w3
    <3> QED BY <3>1, <3>2, <3>3, <3>4 DEF Alike
  <2>3. Write("res", Ends(res.job, w, "done"))
    BY <1>4 DEF Restored
  <2>4. res.at > 1
    BY <1>1, <1>4, ChatsAssumption DEF Restored, Typed, TypeOK, BatchTypeOK
  <2>5. res'.pc = "next" /\ res'.todo = res.todo
    BY <1>4 DEF Restored
  <2> HIDE DEF w
  <2>6. JobEnded(w, Ends(res.job, w, "done"), res.job, "done")
        /\ Ends(res.job, w, "done").user = w.user
    BY <1>2, <2>2, JobEnds DEF Alike
  <2>7. JobEnded(work, work', res.job, "done") /\ work'.user = w.user
    BY <2>2, <2>3, <2>6 DEF JobEnded, Alike, Write
  <2>8. RowSet(work, work', JobUser, FALSE, "none")
    BY <2>1, <2>7 DEF RowSet
  <2>9. WorkerWrites
    BY <1>2, <2>3 DEF WorkerWrites, Write
  <2> QED
    BY <1>1, <1>2, <2>4, <2>5, <2>7, <2>8, <2>9 DEF Succeeds
<1> QED BY <1>1, <1>3, <1>4

\* The end of a batch.
LEMMA BatchEndRows ==
  ASSUME Typed, RestoresAbort \/ FinishRestores
  PROVE  /\ res'.pc = "idle" /\ res'.todo = {}
         /\ \/ holder = "res" /\ Closes
            \/ holder # "res" /\ RowsRest
         /\ db' # db => FinishRestores /\ db' = work
  BY DEF RestoresAbort, FinishRestores, Commit, Rollback, Release, ReadOnly, Closes,
     RowsRest, Visible, NoBatch

\* The requests.  What an update does to the member's ban:
BanRecorded(u) == /\ db'.user[u].banned /\ db'.user[u].source = "admin"
                  /\ "kicked" \in db'.user[u].jobs
BanKept(u) == /\ db'.user[u].banned = db.user[u].banned
              /\ db'.user[u].source = db.user[u].source

LEMMA RowsTyped ==
  ASSUME NEW w \in Database
  PROVE  w.user \in [Users -> UserRow]
  BY DEF Database

RecordsIn(w, u, s) ==
  /\ \A x \in Users \ {u} : w.user[x] = db.user[x]
  /\ w.restore = db.restore
  /\ db.user[u].jobs \subseteq w.user[u].jobs
  /\ w.user[u].override = db.user[u].override
  /\ IF s = "kicked" /\ db.user[u].source # "system"
       THEN /\ w.user[u].banned = TRUE /\ w.user[u].source = "admin"
            /\ "kicked" \in w.user[u].jobs
       ELSE /\ w.user[u].banned = db.user[u].banned
            /\ w.user[u].source = db.user[u].source

LEMMA RecordedRow ==
  ASSUME Typed, NEW u \in Users, NEW s \in Membership, NEW w, w = Recorded(u, s)
  PROVE  RecordsIn(w, u, s)
<1> DEFINE set == [db EXCEPT !.user[u].status = s]
           club == Queue(set, u, {"club"})
           ban == [club EXCEPT !.user[u].banned = TRUE, !.user[u].source = "admin"]
<1>1. db \in Database /\ db.user \in [Users -> UserRow] /\ db.user[u] \in UserRow
  <2>1. db \in Database
    BY DEF Typed, TypeOK
  <2>2. db.user \in [Users -> UserRow]
    BY <2>1, RowsTyped
  <2> QED BY <2>1, <2>2
<1>2. /\ club.restore = db.restore /\ club.user \in [Users -> UserRow]
      /\ \A x \in Users \ {u} : club.user[x] = db.user[x]
      /\ club.user[u].banned = db.user[u].banned
      /\ club.user[u].override = db.user[u].override
      /\ club.user[u].source = db.user[u].source
      /\ club.user[u].jobs = db.user[u].jobs \cup {"club"}
      /\ club \in Database
  <2>1. set \in Database
    BY <1>1, RowKeeps
  <2>2. {"club"} \in SUBSET Job
    BY DEF Job
  <2>3. club \in Database /\ Alike(club, set)
    <3> HIDE DEF set
    <3> QED BY <2>1, <2>2, QueueKeeps
  <2>4. club.user \in [Users -> UserRow]
    <3> HIDE DEF club
    <3> QED BY <2>3 DEF Database
  <2> DEFINE r == [db.user[u] EXCEPT !.status = s]
             q == [set.user[u] EXCEPT !.jobs = @ \cup {"club"}]
  <2>5. set.restore = db.restore /\ set.user = [db.user EXCEPT ![u] = r]
    BY <1>1 DEF Database
  <2>6. /\ r.banned = db.user[u].banned /\ r.source = db.user[u].source
        /\ r.override = db.user[u].override /\ r.jobs = db.user[u].jobs /\ r \in UserRow
    BY <1>1 DEF UserRow
  <2>7. set.user[u] = r /\ \A x \in Users \ {u} : set.user[x] = db.user[x]
    <3> HIDE DEF set, r
    <3> QED BY <1>1, <2>5
  <2>8. club.restore = set.restore /\ club.user = [set.user EXCEPT ![u] = q]
    <3>1. set.user \in [Users -> UserRow]
      BY <2>1 DEF Database
    <3> HIDE DEF set
    <3> QED BY <2>1, <3>1 DEF Database, Queue
  <2>9. /\ q.banned = r.banned /\ q.source = r.source /\ q.override = r.override
        /\ q.jobs = r.jobs \cup {"club"}
    <3> HIDE DEF set, r
    <3> QED BY <2>6, <2>7 DEF UserRow
  <2>10. club.user[u] = q /\ \A x \in Users \ {u} : club.user[x] = set.user[x]
    <3>1. set.user \in [Users -> UserRow]
      BY <2>1 DEF Database
    <3> HIDE DEF set, club, q, r
    <3> QED BY <2>8, <3>1
  <2> HIDE DEF set, club, q, r
  <2> QED BY <2>3, <2>4, <2>5, <2>6, <2>7, <2>8, <2>9, <2>10
<1> HIDE DEF club
<1>3. /\ ban.restore = club.restore
      /\ \A x \in Users \ {u} : ban.user[x] = club.user[x]
      /\ ban.user[u].banned = TRUE /\ ban.user[u].source = "admin"
      /\ ban.user[u].override = club.user[u].override
      /\ ban.user[u].jobs = club.user[u].jobs
      /\ ban \in Database
  <2> DEFINE r == [club.user[u] EXCEPT !.banned = TRUE, !.source = "admin"]
  <2>1. club.user[u] \in UserRow
    BY <1>2
  <2>2. /\ r \in UserRow /\ r.banned = TRUE /\ r.source = "admin"
        /\ r.override = club.user[u].override /\ r.jobs = club.user[u].jobs
    BY <2>1 DEF UserRow
  <2>3. ban = [club EXCEPT !.user = [club.user EXCEPT ![u] = r]]
    BY <1>2, <2>1 DEF Database, UserRow
  <2> HIDE DEF r, ban
  <2>4. ban \in Database /\ Alike(ban, club)
    BY <1>2, <2>2, <2>3, RowReplaced
  <2>5. ban.user = [club.user EXCEPT ![u] = r]
    BY <1>2, <2>3 DEF Database
  <2> QED BY <1>2, <2>2, <2>4, <2>5 DEF Alike
<1> HIDE DEF ban
<1>4. \A v \in {club, ban} : \A js :
        /\ Queue(v, u, js).restore = v.restore
        /\ \A x \in Users \ {u} : Queue(v, u, js).user[x] = v.user[x]
        /\ Queue(v, u, js).user[u].banned = v.user[u].banned
        /\ Queue(v, u, js).user[u].override = v.user[u].override
        /\ Queue(v, u, js).user[u].source = v.user[u].source
        /\ Queue(v, u, js).user[u].jobs = v.user[u].jobs \cup js
  <2> SUFFICES ASSUME NEW v \in Database, NEW js
               PROVE  /\ Queue(v, u, js).restore = v.restore
                      /\ \A x \in Users \ {u} : Queue(v, u, js).user[x] = v.user[x]
                      /\ Queue(v, u, js).user[u].banned = v.user[u].banned
                      /\ Queue(v, u, js).user[u].override = v.user[u].override
                      /\ Queue(v, u, js).user[u].source = v.user[u].source
                      /\ Queue(v, u, js).user[u].jobs = v.user[u].jobs \cup js
    BY <1>2, <1>3
  <2>1. v.user \in [Users -> UserRow] /\ v.user[u] \in UserRow
    BY DEF Database
  <2> QED BY <2>1 DEF Queue, Database, UserRow
<1>5. \/ /\ s = "kicked" /\ db.user[u].source # "system"
         /\ w = Queue(ban, u, {"kicked"})
      \/ /\ ~(s = "kicked" /\ db.user[u].source # "system")
         /\ w = club \/ \E js : w = Queue(club, u, js)
  BY DEF Recorded, set, club, ban
<1>6. CASE /\ s = "kicked" /\ db.user[u].source # "system"
           /\ w = Queue(ban, u, {"kicked"})
  BY <1>2, <1>3, <1>4, <1>6 DEF RecordsIn
<1>7. CASE /\ ~(s = "kicked" /\ db.user[u].source # "system")
           /\ w = club \/ \E js : w = Queue(club, u, js)
  BY <1>2, <1>4, <1>7 DEF RecordsIn
<1> QED BY <1>5, <1>6, <1>7

\* Taking the i-th of a list leaves the others.
LEMMA TakenOut ==
  ASSUME NEW S, NEW s \in Seq(S), NEW i \in DOMAIN s
  PROVE  LET t == SubSeq(s, 1, i - 1) \o SubSeq(s, i + 1, Len(s))
         IN /\ DOMAIN t = 1 .. (Len(s) - 1)
            /\ \A k \in 1 .. (i - 1) : t[k] = s[k]
            /\ \A k \in i .. (Len(s) - 1) : t[k] = s[k + 1]
<1>1. i \in 1 .. Len(s) /\ Len(s) \in Nat /\ DOMAIN s = 1 .. Len(s)
  OBVIOUS
<1>2. /\ \A k \in 1 .. (i - 1) : s[k] \in S
      /\ \A k \in (i + 1) .. Len(s) : s[k] \in S
  BY <1>1, ElementOfSeq
<1>3. PICK a : a = SubSeq(s, 1, i - 1)
  OBVIOUS
<1>4. PICK b : b = SubSeq(s, i + 1, Len(s))
  OBVIOUS
<1>5. /\ a \in Seq(S) /\ Len(a) = i - 1
      /\ \A k \in 1 .. (i - 1) : a[k] = s[k]
  BY <1>1, <1>2, <1>3, SubSeqProperties
<1>6. /\ b \in Seq(S) /\ Len(b) = Len(s) - i
      /\ \A k \in 1 .. (Len(s) - i) : b[k] = s[i + k]
  <2>1. /\ b \in Seq(S)
        /\ Len(b) = IF i + 1 <= Len(s) THEN Len(s) - (i + 1) + 1 ELSE 0
        /\ \A k \in 1 .. Len(s) - (i + 1) + 1 : b[k] = s[(i + 1) + k - 1]
    BY <1>1, <1>2, <1>4, SubSeqProperties
  <2>2. \A k \in 1 .. (Len(s) - i) :
          k \in 1 .. Len(s) - (i + 1) + 1 /\ (i + 1) + k - 1 = i + k
    BY <1>1
  <2>3. Len(b) = Len(s) - i
    BY <1>1, <2>1
  <2> QED BY <2>1, <2>2, <2>3
<1>7. PICK t : t = a \o b
  OBVIOUS
<1>8. /\ t \in Seq(S) /\ Len(t) = Len(a) + Len(b)
      /\ \A k \in 1 .. Len(a) + Len(b) : t[k] =
           IF k <= Len(a) THEN a[k] ELSE b[k - Len(a)]
  BY <1>5, <1>6, <1>7, ConcatProperties
<1>9. DOMAIN t = 1 .. (Len(s) - 1)
  BY <1>1, <1>5, <1>6, <1>8
<1>10. ASSUME NEW k \in 1 .. (i - 1) PROVE t[k] = s[k]
  BY <1>1, <1>5, <1>6, <1>8
<1>11. ASSUME NEW k \in i .. (Len(s) - 1) PROVE t[k] = s[k + 1]
  <2>1. /\ k \in 1 .. (Len(a) + Len(b)) /\ ~(k <= Len(a))
        /\ k - Len(a) \in 1 .. (Len(s) - i) /\ i + (k - Len(a)) = k + 1
    BY <1>1, <1>5, <1>6
  <2> QED BY <1>6, <1>8, <2>1
<1> QED BY <1>3, <1>4, <1>7, <1>9, <1>10, <1>11

ShiftedFrom(t, s, i) ==
  /\ DOMAIN t = 1 .. (Len(s) - 1)
  /\ \A k \in 1 .. (i - 1) : t[k] = s[k]
  /\ \A k \in i .. (Len(s) - 1) : t[k] = s[k + 1]

AllBut(t, s, i) ==
  /\ \A k \in DOMAIN t : \E l \in DOMAIN s : t[k] = s[l]
  /\ \A l \in DOMAIN s : l = i \/ \E k \in DOMAIN t : t[k] = s[l]

LEMMA OthersLeft ==
  ASSUME NEW S, NEW s \in Seq(S), NEW i \in DOMAIN s, NEW t, ShiftedFrom(t, s, i)
  PROVE  AllBut(t, s, i)
<1>1. /\ i \in 1 .. Len(s) /\ Len(s) \in Nat /\ DOMAIN s = 1 .. Len(s)
      /\ DOMAIN t = 1 .. (Len(s) - 1)
      /\ \A k \in 1 .. (i - 1) : t[k] = s[k]
      /\ \A k \in i .. (Len(s) - 1) : t[k] = s[k + 1]
  BY DEF ShiftedFrom
<1>2. ASSUME NEW k \in DOMAIN t PROVE \E l \in DOMAIN s : t[k] = s[l]
  <2>1. CASE k < i
    BY <1>1, <2>1
  <2>2. CASE k >= i
    <3>1. k + 1 \in DOMAIN s /\ t[k] = s[k + 1]
      BY <1>1, <2>2
    <3> QED BY <3>1
  <2> QED BY <1>1, <2>1, <2>2
<1>3. ASSUME NEW l \in DOMAIN s, l # i PROVE \E k \in DOMAIN t : t[k] = s[l]
  <2>1. CASE l < i
    <3>1. l \in DOMAIN t /\ t[l] = s[l]
      BY <1>1, <2>1
    <3> QED BY <3>1
  <2>2. CASE l > i
    <3>1. l - 1 \in DOMAIN t /\ t[l - 1] = s[(l - 1) + 1] /\ (l - 1) + 1 = l
      BY <1>1, <2>2
    <3> QED BY <3>1
  <2> QED BY <1>1, <1>3, <2>1, <2>2
<1> QED BY <1>2, <1>3 DEF AllBut

\* What a delivery does, and which updates it leaves.
LEMMA DeliverRows ==
  ASSUME Typed, NEW u \in Users, Deliver(u)
  PROVE  /\ RowHandled(u) /\ db'.restore = db.restore
         /\ db'.user[u].override = db.user[u].override
         /\ \A x \in Users : KickWaits(x)' => KickWaits(x)
         /\ \A x \in Users \ {u} : KickWaits(x) => KickWaits(x)'
         /\ \/ BanRecorded(u) /\ KickWaits(u) /\ db.user[u].source # "system"
            \/ BanKept(u) /\ (KickWaits(u) => KickWaits(u)' \/ db.user[u].source = "system")
<1>1. PICK i \in DOMAIN updates[u] :
        /\ OneStep(Recorded(u, updates[u][i]))
        /\ updates' = [updates EXCEPT
             ![u] = SubSeq(@, 1, i - 1) \o SubSeq(@, i + 1, Len(@))]
  BY DEF Deliver
<1>2. /\ updates \in [Users -> Seq(Membership)]
      /\ updates[u] \in Seq(Membership) /\ updates[u][i] \in Membership
  BY ElementOfSeq DEF Typed, TypeOK
<1>3. /\ \A x \in Users : KickWaits(x)' => KickWaits(x)
      /\ \A x \in Users \ {u} : KickWaits(x) => KickWaits(x)'
      /\ KickWaits(u) => KickWaits(u)' \/ updates[u][i] = "kicked"
  <2>1. /\ \A x \in Users \ {u} : updates'[x] = updates[x]
        /\ updates'[u] = SubSeq(updates[u], 1, i - 1)
                           \o SubSeq(updates[u], i + 1, Len(updates[u]))
    BY <1>1, <1>2
  <2>2. /\ \A k \in DOMAIN updates'[u] : \E l \in DOMAIN updates[u] :
             updates'[u][k] = updates[u][l]
        /\ \A l \in DOMAIN updates[u] : l = i \/ \E k \in DOMAIN updates'[u] :
             updates'[u][k] = updates[u][l]
    <3>0. PICK s : s = updates[u]
      OBVIOUS
    <3>1. PICK t : t = updates'[u]
      OBVIOUS
    <3>2. s \in Seq(Membership) /\ i \in DOMAIN s
          /\ t = SubSeq(s, 1, i - 1) \o SubSeq(s, i + 1, Len(s))
      BY <1>2, <2>1, <3>0, <3>1
    <3>3. ShiftedFrom(t, s, i)
      BY <3>2, TakenOut DEF ShiftedFrom
    <3>4. AllBut(t, s, i)
      BY <3>2, <3>3, OthersLeft
    <3> QED BY <3>0, <3>1, <3>4 DEF AllBut
  <2>3. KickWaits(u)' => KickWaits(u)
    BY <2>2 DEF KickWaits
  <2>4. KickWaits(u) => KickWaits(u)' \/ updates[u][i] = "kicked"
    BY <2>2 DEF KickWaits
  <2>5. \A x \in Users \ {u} : KickWaits(x)' <=> KickWaits(x)
    BY <2>1 DEF KickWaits
  <2> QED BY <2>3, <2>4, <2>5
<1>4. holder = "none" /\ holder' = "none" /\ work' = db' /\ db' = Recorded(u, updates[u][i])
  BY <1>1 DEF OneStep
<1>5. updates[u][i] = "kicked" => KickWaits(u)
  BY DEF KickWaits
<1>6. /\ \A x \in Users \ {u} : db'.user[x] = db.user[x]
      /\ db'.restore = db.restore
      /\ db.user[u].jobs \subseteq db'.user[u].jobs
      /\ db'.user[u].override = db.user[u].override
      /\ IF updates[u][i] = "kicked" /\ db.user[u].source # "system"
           THEN /\ db'.user[u].banned = TRUE /\ db'.user[u].source = "admin"
                /\ "kicked" \in db'.user[u].jobs
           ELSE /\ db'.user[u].banned = db.user[u].banned
                /\ db'.user[u].source = db.user[u].source
  <2>1. PICK w, s : w = db' /\ s = updates[u][i]
    OBVIOUS
  <2>2. s \in Membership /\ w = Recorded(u, s)
    BY <1>2, <1>4, <2>1
  <2>3. RecordsIn(w, u, s)
    BY <2>2, RecordedRow
  <2> QED BY <2>1, <2>3 DEF RecordsIn
<1>7. RowHandled(u)
  BY <1>4, <1>6 DEF RowHandled
<1> QED
  BY <1>3, <1>5, <1>6, <1>7 DEF BanRecorded, BanKept

LEMMA DecideRows ==
  ASSUME Typed, NEW u \in Users, Decide(u)
  PROVE  RowHandled(u) /\ db'.restore = db.restore /\ BanKept(u)
<1>1. PICK d \in Decisions, js \in SUBSET Job :
        OneStep(IF d \in {"allow", "deny"}
               THEN Queue([db EXCEPT !.user[u].override = d], u, js)
               ELSE [db EXCEPT !.user[u].whitelist = (d = "whitelist")])
  BY DEF Decide, Job
<1>2. db \in Database /\ db.user \in [Users -> UserRow] /\ db.user[u] \in UserRow
  BY DEF Typed, TypeOK, Database
<1>3. CASE OneStep(Queue([db EXCEPT !.user[u].override = d], u, js))
  BY <1>2, <1>3 DEF OneStep, Queue, RowHandled, BanKept, Database, UserRow
<1>4. CASE OneStep([db EXCEPT !.user[u].whitelist = (d = "whitelist")])
  BY <1>2, <1>4 DEF OneStep, RowHandled, BanKept, Database, UserRow
<1> QED BY <1>1, <1>3, <1>4

LEMMA WriteRestoreRows ==
  ASSUME Typed, NEW u \in Users, WriteRestore(u)
  PROVE  /\ RowHandled(u) /\ u \in asked
         /\ db'.user[u].banned /\ db'.user[u].source = db.user[u].source
         /\ db'.user[u].override = db.user[u].override
         /\ \/ db'.restore = db.restore
            \/ db'.restore = Append(db.restore, [user |-> u, status |-> "pending"])
<1> DEFINE set == [db EXCEPT !.user[u].status = "unknown", !.user[u].banned = TRUE]
           queued == [set EXCEPT
                        !.restore = Append(@, [user |-> u, status |-> "pending"])]
<1>1. db \in Database /\ db.user \in [Users -> UserRow] /\ db.user[u] \in UserRow
  BY DEF Typed, TypeOK, Database
<1>2. /\ set.restore = db.restore
      /\ \A x \in Users \ {u} : set.user[x] = db.user[x]
      /\ set.user[u].banned = TRUE
      /\ set.user[u].source = db.user[u].source
      /\ set.user[u].override = db.user[u].override
      /\ set.user[u].jobs = db.user[u].jobs
      /\ set \in Database
  BY <1>1 DEF Database, UserRow, Membership
<1>3. u \in asked /\ (OneStep(set) \/ OneStep(queued))
  BY DEF WriteRestore
<1>4. queued.user = set.user
      /\ queued.restore = Append(set.restore, [user |-> u, status |-> "pending"])
  <2> HIDE DEF set
  <2> QED BY <1>2 DEF Database
<1> HIDE DEF set, queued
<1> QED BY <1>2, <1>3, <1>4 DEF OneStep, RowHandled

\* The other requests touch no row.
LEMMA OtherRequestRows ==
  ASSUME Typed, NEW u \in Users,
         CheckRestore(u) \/ DropRestore(u) \/ Pay(u) \/ Expire(u)
  PROVE  RowsRest
<1>1. db \in Database /\ work \in Database /\ (holder = "none" => work = db)
  BY DEF Typed, TypeOK, Ledgers
<1>2. CASE Pay(u)
  BY <1>1, <1>2 DEF Pay, OneStep, RowsRest, Database
<1>3. CASE Expire(u)
  BY <1>1, <1>3 DEF Expire, RowsRest, Database
<1>4. CASE CheckRestore(u) \/ DropRestore(u)
  BY <1>4 DEF CheckRestore, DropRestore, ReadOnly, RowsRest
<1> QED BY <1>2, <1>3, <1>4

LEMMA MidnightRows ==
  ASSUME Typed, Midnight
  PROVE  RowsRest
  BY DEF Typed, TypeOK, Midnight, Database, RowsRest

---------------------------------------------------------------------------
(* Every manual ban was reported. *)

LEMMA JobsTyped ==
  ASSUME Typed
  PROVE  /\ DOMAIN work.restore = DOMAIN db.restore
         /\ \A j \in DOMAIN db.restore : /\ db.restore[j] \in Restore
                                         /\ db.restore[j].user \in Users
                                         /\ work.restore[j].user \in Users
         /\ InHand \subseteq DOMAIN db.restore
         /\ holder = "none" => work = db
         /\ holder = "rec" => work.restore = db.restore
         /\ res.pc = "unban" => /\ holder = "res" /\ res.job \in DOMAIN db.restore
                                /\ JobUser = work.restore[res.job].user
                                /\ res.at \in Int
         /\ res.pc = "idle" => holder # "res"
<1>1. db \in Database /\ work \in Database
  BY DEF Typed, TypeOK
<1>2. DOMAIN work.restore = DOMAIN db.restore
  BY DEF Typed, TypeOK, Ledgers
<1>3. \A j \in DOMAIN db.restore : /\ db.restore[j] \in Restore
                                   /\ db.restore[j].user \in Users
                                   /\ work.restore[j].user \in Users
  BY <1>1, <1>2, RestoreFacts
<1> QED
  BY <1>2, <1>3 DEF Typed, TypeOK, Ledgers, BatchTypeOK, InHand, JobUser

LEMMA RestKeepsReports ==
  ASSUME BansReported, RowsRest,
         \A u \in asked' : u \in asked \/ (u \in Users /\ db.user[u].banned)
  PROVE  BansReported'
  BY DEF BansReported, WasReported, RowsRest

LEMMA CalmKeepsReports ==
  ASSUME Typed, BansReported, RecWrites, asked' = asked
  PROVE  BansReported'
<1>1. WasReported(work')
  <2>1. \A u \in Users : work'.user[u].banned => "kicked" \in work'.user[u].jobs
    BY DEF BansReported, WasReported, RecWrites, Calm
  <2>2. \A j \in DOMAIN work'.restore : "kicked" \in work'.user[work'.restore[j].user].jobs
    BY JobsTyped DEF BansReported, WasReported, RecWrites, Calm
  <2> QED BY <2>1, <2>2 DEF WasReported
<1>2. \A u \in Users : "kicked" \in db'.user[u].jobs => "kicked" \in work'.user[u].jobs
  BY DEF BansReported, RecWrites, Calm
<1> QED
  BY <1>1, <1>2 DEF BansReported, WasReported, RecWrites

LEMMA ClosingKeepsReports ==
  ASSUME Typed, BansReported, Closes, asked' \subseteq asked
  PROVE  BansReported'
<1>1. asked \subseteq Users
  BY DEF Typed, TypeOK
<1> QED BY <1>1 DEF BansReported, WasReported, Closes

LEMMA WorkerKeepsReports ==
  ASSUME Typed, BansReported, asked' = asked, NEW j \in DOMAIN db.restore,
         Lifts(j) \/ Fails(j) \/ Succeeds(j)
  PROVE  BansReported'
<1> DEFINE u == work.restore[j].user
<1>1. u \in Users /\ j \in DOMAIN work.restore /\ "kicked" \in work.user[u].jobs
  BY JobsTyped DEF BansReported, WasReported
<1>2. /\ db' = db
      /\ \E ban, source : RowSet(work, work', u, ban, source)
      /\ \/ work'.restore = work.restore
         \/ \E result : JobEnded(work, work', j, result)
  BY DEF Lifts, Fails, Succeeds, WorkerWrites
<1>3. \A x \in Users : work'.user[x].jobs = work.user[x].jobs
  BY <1>1, <1>2 DEF RowSet
<1>4. \A x \in Users \ {u} : work'.user[x].banned = work.user[x].banned
  BY <1>2 DEF RowSet
<1>5. /\ DOMAIN work'.restore = DOMAIN work.restore
      /\ \A k \in DOMAIN work.restore : work'.restore[k].user = work.restore[k].user
  BY <1>2 DEF JobEnded
<1> HIDE DEF u
<1>6. \A x \in Users : work'.user[x].banned => "kicked" \in work'.user[x].jobs
  BY <1>1, <1>3, <1>4 DEF BansReported, WasReported
<1>7. \A k \in DOMAIN work'.restore : "kicked" \in work'.user[work'.restore[k].user].jobs
  BY <1>3, <1>5, JobsTyped DEF BansReported, WasReported
<1> QED
  BY <1>2, <1>3, <1>6, <1>7 DEF BansReported, WasReported

LEMMA RequestsKeepReports ==
  ASSUME Typed, BansReported, NEW u \in Users, asked' \subseteq asked,
         Deliver(u) \/ Decide(u) \/ WriteRestore(u)
  PROVE  BansReported'
<1>0. asked \subseteq Users /\ db.restore \in Seq(Restore)
  BY DEF Typed, TypeOK, Database
<1>1. /\ RowHandled(u)
      /\ db'.user[u].banned => \/ db.user[u].banned \/ u \in asked
                               \/ "kicked" \in db'.user[u].jobs
      /\ \/ db'.restore = db.restore
         \/ /\ u \in asked
            /\ db'.restore = Append(db.restore, [user |-> u, status |-> "pending"])
  BY DeliverRows, DecideRows, WriteRestoreRows DEF BanRecorded, BanKept
<1>2. \A x \in Users : db.user[x].jobs \subseteq db'.user[x].jobs
  BY <1>1 DEF RowHandled
<1>3. \A x \in Users : db'.user[x].banned => "kicked" \in db'.user[x].jobs
  BY <1>1, <1>2 DEF RowHandled, BansReported, WasReported
<1>4. \A j \in DOMAIN db'.restore : \/ j \in DOMAIN db.restore
                                      /\ db'.restore[j] = db.restore[j]
                                    \/ u \in asked /\ db'.restore[j].user = u
  BY <1>0, <1>1
<1>5. \A j \in DOMAIN db'.restore : "kicked" \in db'.user[db'.restore[j].user].jobs
  BY <1>2, <1>4, JobsTyped DEF BansReported, WasReported
<1>6. WasReported(db')
  BY <1>3, <1>5 DEF WasReported
<1> QED
  BY <1>0, <1>1, <1>2, <1>6 DEF RowHandled, BansReported

---------------------------------------------------------------------------
(* The worker's batch. *)

LEMMA RestKeepsRestoring ==
  ASSUME Typed, Restoring, RowsRest,
         res'.pc = "unban" <=> res.pc = "unban",
         res.pc = "unban" => res'.job = res.job,
         res'.todo = res.todo \/ (holder # "res" /\ \A j \in res'.todo :
           j \in DOMAIN db.restore /\ db.restore[j].status = "pending")
  PROVE  Restoring'
<1>1. SameJobs'
  BY DEF Restoring, SameJobs, RowsRest
<1>2. BatchPending'
  <2> SUFFICES ASSUME NEW j \in InHand'
               PROVE  db.restore[j].status = "pending" /\ work.restore[j] = db.restore[j]
    BY DEF BatchPending, RowsRest
  <2>1. CASE j \in InHand
    BY <2>1 DEF Restoring, BatchPending
  <2>2. CASE j \notin InHand
    <3>1. j \in res'.todo /\ res'.todo # res.todo
      BY <2>2 DEF InHand
    <3>2. holder # "res" /\ db.restore[j].status = "pending"
      BY <3>1
    <3> QED BY <3>2, JobsTyped DEF Typed, TypeOK
  <2> QED BY <2>1, <2>2
<1>3. res.pc = "unban" => JobUser' = JobUser
  BY DEF JobUser, RowsRest
<1>4. Unbanning'
  BY <1>3, JobsTyped DEF Restoring, Unbanning, RowsRest
<1>5. \A u \in Users : EndedInWork(u)' <=> EndedInWork(u)
  BY DEF EndedInWork, RowsRest
<1>6. LiftsEnded'
  BY <1>3, <1>5 DEF Restoring, LiftsEnded, RowsRest
<1> QED BY <1>1, <1>2, <1>4, <1>6 DEF Restoring

LEMMA CalmKeepsRestoring ==
  ASSUME Typed, Restoring, RecWrites, res' = res
  PROVE  Restoring'
<1>1. SameJobs'
  BY DEF Restoring, SameJobs, RecWrites, Calm
<1>2. BatchPending'
  BY DEF Restoring, BatchPending, InHand, RecWrites, Calm
<1>3. res.pc # "unban" /\ holder # "res"
  BY JobsTyped DEF RecWrites
<1>4. Unbanning'
  BY <1>3 DEF Unbanning
<1>5. LiftsEnded'
  BY <1>3 DEF Restoring, LiftsEnded, RecWrites, Calm
<1> QED BY <1>1, <1>2, <1>4, <1>5 DEF Restoring

LEMMA ClosingKeepsRestoring ==
  ASSUME Typed, Restoring, Closes,
         res'.pc # "unban",
         res'.todo = {} \/ (res' = res /\ holder = "rec")
  PROVE  Restoring'
<1>1. SameJobs' /\ LiftsEnded' /\ Unbanning'
  BY DEF Closes, SameJobs, LiftsEnded, Unbanning
<1>2. BatchPending'
  <2> SUFFICES ASSUME NEW j \in InHand'
               PROVE  db'.restore[j].status = "pending" /\ work'.restore[j] = db'.restore[j]
    BY DEF BatchPending
  <2>1. j \in res'.todo /\ res' = res /\ holder = "rec"
    BY DEF InHand
  <2>2. j \in InHand /\ work.restore = db.restore
    BY <2>1, JobsTyped DEF InHand
  <2> QED BY <2>2 DEF Restoring, BatchPending, Closes
<1> QED BY <1>1, <1>2 DEF Restoring

LEMMA WorkerKeepsRestoring ==
  ASSUME Typed, Restoring, NEW j \in DOMAIN db.restore,
         Lifts(j) \/ Fails(j) \/ Succeeds(j)
  PROVE  Restoring'
<1> DEFINE u == work.restore[j].user
<1>0. /\ j \in InHand /\ u \in Users /\ DOMAIN work.restore = DOMAIN db.restore
      /\ db' = db /\ holder' = "res" /\ holder \in {"none", "res"}
      /\ u = db.restore[j].user
      /\ res.pc = "unban" => j = res.job /\ JobUser = u
  BY JobsTyped DEF Lifts, Fails, Succeeds, WorkerWrites, InHand, Restoring, SameJobs,
     Typed, BatchTypeOK, JobUser
<1>1. /\ \E ban, source : RowSet(work, work', u, ban, source)
      /\ \/ work'.restore = work.restore
         \/ \E result : JobEnded(work, work', j, result)
  BY DEF Lifts, Fails, Succeeds
<1>2. /\ \A x \in Users : work'.user[x].override = work.user[x].override
      /\ \A x \in Users \ {u} : work'.user[x].banned = work.user[x].banned
  BY <1>0, <1>1 DEF RowSet
<1>3. \A k \in DOMAIN work.restore : /\ work'.restore[k].user = work.restore[k].user
                                     /\ k # j => work'.restore[k] = work.restore[k]
  BY <1>1 DEF JobEnded
<1>4. SameJobs'
  BY <1>0, <1>2, <1>3 DEF Restoring, SameJobs
<1>5. BatchPending'
  <2>1. CASE Lifts(j)
    <3>1. InHand' \subseteq InHand /\ work'.restore = work.restore
      BY <2>1 DEF Lifts, InHand
    <3> QED BY <1>0, <3>1 DEF Restoring, BatchPending
  <2>2. CASE Fails(j) \/ Succeeds(j)
    <3>1. InHand' \subseteq InHand \ {j}
      BY <2>2 DEF Fails, Succeeds, InHand, Restoring, Unbanning
    <3> QED BY <1>0, <1>3, <3>1, JobsTyped DEF Restoring, BatchPending
  <2> QED BY <2>1, <2>2
<1>6. Unbanning'
  <2>1. CASE Lifts(j)
    <3>1. res'.job = j /\ j \notin res'.todo /\ work'.restore = work.restore
      BY <2>1 DEF Lifts
    <3>2. JobUser' = u
      BY <3>1 DEF JobUser
    <3>3. db.user[u].override # "deny"
      BY <1>0, <2>1 DEF Lifts, Restoring, SameJobs
    <3> QED BY <1>0, <3>1, <3>2, <3>3 DEF Unbanning
  <2>2. CASE Fails(j) \/ Succeeds(j)
    BY <2>2 DEF Fails, Succeeds, Unbanning
  <2> QED BY <2>1, <2>2
<1>7. \A x \in Users : EndedInWork(x) => EndedInWork(x)'
  <2> SUFFICES ASSUME NEW x \in Users, EndedInWork(x) PROVE EndedInWork(x)'
    OBVIOUS
  <2>1. PICK k \in DOMAIN db.restore :
          /\ db.restore[k] = [user |-> x, status |-> "pending"]
          /\ work.restore[k].status = "done"
    BY DEF EndedInWork
  <2>2. k # j
    BY <1>0, <2>1 DEF Restoring, BatchPending
  <2> QED BY <1>0, <1>3, <2>1, <2>2 DEF EndedInWork
<1>8. LiftsEnded'
  <2> SUFFICES ASSUME NEW x \in Users, db'.user[x].banned, ~work'.user[x].banned
               PROVE  (res'.pc = "unban" /\ JobUser' = x) \/ EndedInWork(x)'
    BY <1>0 DEF LiftsEnded
  <2>1. CASE x # u
    <3>1. ~work.user[x].banned
      BY <1>2, <2>1
    <3>2. EndedInWork(x)
      BY <1>0, <2>1, <3>1 DEF Restoring, LiftsEnded
    <3> QED BY <1>7, <3>2
  <2>2. CASE x = u
    <3>1. CASE Lifts(j)
      <4>1. JobUser' = u /\ res'.pc = "unban"
        BY <3>1 DEF Lifts, JobUser
      <4> QED BY <2>2, <4>1
    <3>2. CASE Fails(j)
      BY <2>2, <3>2 DEF Fails, RowSet
    <3>3. CASE Succeeds(j)
      <4>1. work'.restore[j].status = "done"
        BY <3>3 DEF Succeeds, JobEnded
      <4>2. db.restore[j] = [user |-> u, status |-> "pending"]
        BY <1>0, JobsTyped DEF Restore, Restoring, BatchPending
      <4> QED BY <1>0, <2>2, <4>1, <4>2 DEF EndedInWork
    <3> QED BY <3>1, <3>2, <3>3
  <2> QED BY <2>1, <2>2
<1> QED BY <1>4, <1>5, <1>6, <1>8 DEF Restoring

LEMMA RequestsKeepRestoring ==
  ASSUME Typed, Restoring, NEW u \in Users, res' = res,
         Deliver(u) \/ Decide(u) \/ WriteRestore(u)
  PROVE  Restoring'
<1>0. db.restore \in Seq(Restore)
  BY DEF Typed, TypeOK, Database
<1>1. /\ RowHandled(u)
      /\ \/ db'.restore = db.restore
         \/ db'.restore = Append(db.restore, [user |-> u, status |-> "pending"])
  BY DeliverRows, DecideRows, WriteRestoreRows
<1>2. holder = "none" /\ work' = db' /\ res.pc # "unban" /\ work = db
  BY <1>1, JobsTyped DEF RowHandled
<1>3. \A j \in DOMAIN db.restore : db'.restore[j] = db.restore[j]
  BY <1>0, <1>1
<1>4. BatchPending'
  BY <1>2, <1>3, JobsTyped DEF Restoring, BatchPending, InHand
<1> QED
  BY <1>2, <1>4 DEF Restoring, SameJobs, Unbanning, LiftsEnded

---------------------------------------------------------------------------
(* What Telegram has still to tell of. *)

LEMMA KickAppended ==
  ASSUME updates \in [Users -> Seq(Membership)], NEW u \in Users, NEW m \in Membership,
         updates' = [updates EXCEPT ![u] = Append(@, m)]
  PROVE  \A x \in Users : KickWaits(x)' <=> KickWaits(x) \/ (x = u /\ m = "kicked")
<1>1. \A x \in Users \ {u} : updates'[x] = updates[x]
  OBVIOUS
<1>2. updates'[u] = Append(updates[u], m) /\ updates[u] \in Seq(Membership)
  OBVIOUS
<1>3. /\ DOMAIN updates'[u] = 1 .. (Len(updates[u]) + 1)
      /\ DOMAIN updates[u] = 1 .. Len(updates[u])
      /\ Len(updates[u]) \in Nat
      /\ \A i \in 1 .. Len(updates[u]) : updates'[u][i] = updates[u][i]
      /\ updates'[u][Len(updates[u]) + 1] = m
  BY <1>2
<1>4. KickWaits(u)' <=> KickWaits(u) \/ m = "kicked"
  <2>1. KickWaits(u) => KickWaits(u)'
    BY <1>3 DEF KickWaits
  <2>2. m = "kicked" => KickWaits(u)'
    <3>1. Len(updates[u]) + 1 \in DOMAIN updates'[u]
      BY <1>3
    <3> QED BY <1>3, <3>1 DEF KickWaits
  <2>3. KickWaits(u)' => KickWaits(u) \/ m = "kicked"
    <3> SUFFICES ASSUME NEW i \in DOMAIN updates'[u], updates'[u][i] = "kicked",
                        m # "kicked"
                 PROVE  KickWaits(u)
      BY DEF KickWaits
    <3>1. i \in DOMAIN updates[u] \/ i = Len(updates[u]) + 1
      BY <1>3
    <3> QED BY <1>3, <3>1 DEF KickWaits
  <2> QED BY <2>1, <2>2, <2>3
<1>5. \A x \in Users \ {u} : KickWaits(x)' <=> KickWaits(x)
  BY <1>1 DEF KickWaits
<1> QED BY <1>4, <1>5

KicksSame == \A x \in Users : KickWaits(x)' <=> KickWaits(x)

\* The reconciliation adds a kick only for the member it is banning.
LEMMA RecKicks ==
  ASSUME Typed, Reconcile
  PROVE  \A x \in Users :
           /\ KickWaits(x) => KickWaits(x)'
           /\ KickWaits(x)' => KickWaits(x) \/ (rec.pc = "banning" /\ x = rec.user)
<1>1. CASE BanUser \/ BanUnconfirmed
  <2>1. /\ rec.pc = "banning" /\ rec.user \in Users
        /\ updates \in [Users -> Seq(Membership)] /\ "kicked" \in Membership
        /\ \/ updates' = updates
           \/ updates' = [updates EXCEPT ![rec.user] = Append(@, "kicked")]
    BY <1>1 DEF BanUser, BanUnconfirmed, Thrown, Typed, TypeOK, RunTypeOK, Membership
  <2>2. CASE updates' = updates
    BY <2>2 DEF KickWaits
  <2>3. CASE updates' = [updates EXCEPT ![rec.user] = Append(@, "kicked")]
    <3>1. PICK u, m : u = rec.user /\ m = "kicked"
      OBVIOUS
    <3>2. \A x \in Users : KickWaits(x)' <=> KickWaits(x) \/ (x = u /\ m = "kicked")
      BY <2>1, <2>3, <3>1, KickAppended
    <3> QED BY <2>1, <3>1, <3>2
  <2> QED BY <2>1, <2>2, <2>3
<1>2. CASE ~(BanUser \/ BanUnconfirmed)
  <2>1. updates' = updates
    BY <1>2 DEF Reconcile, HandleAnswer, StartRun, AskTelegram, TelegramAnswers,
       AskingFails, KeepUser, LetAlone, AskAdmins, DecideRemoval, LockTimeout, SkipUser,
       AlertSent, AlertFails, BanFails, NextChat, FinishRun, telegram
  <2> QED BY <2>1 DEF KickWaits
<1> QED BY <1>1, <1>2

\* A ban Telegram lifts is not an administrator's any more.
LEMMA PastKick ==
  ASSUME kicked \in [Users -> {"never", "before", "now"}], NEW u \in Users
  PROVE  /\ \A x \in Users : /\ Past(u)[x] = "never" => kicked[x] = "never"
                             /\ Past(u)[x] = "now" => kicked[x] = "now"
         /\ Past(u)[u] # "now"
  BY DEF Past

LEMMA UnbanWorld ==
  ASSUME Typed, Unban
  PROVE  /\ KicksSame /\ RowsRest
         /\ \A x \in Users : /\ kicked'[x] = "never" => kicked[x] = "never"
                             /\ kicked'[x] = "now" => kicked[x] = "now"
         /\ res.at = 1 => kicked'[JobUser] # "now"
         /\ JobUser' = JobUser /\ res.pc = "unban" /\ res'.pc = "unban"
         /\ res'.job = res.job /\ res'.todo = res.todo
         /\ rec' = rec /\ UNCHANGED <<asked, crashes>>
<1>1. /\ JobUser \in Users /\ "left" \in Membership
      /\ updates \in [Users -> Seq(Membership)]
      /\ kicked \in [Users -> {"never", "before", "now"}]
  BY BatchFacts DEF Unban, Typed, TypeOK, Membership
<1>2. /\ \/ updates' = updates
         \/ updates' = [updates EXCEPT ![JobUser] = Append(@, "left")]
      /\ kicked' = kicked \/ kicked' = Past(JobUser)
      /\ res.at = 1 => kicked' = Past(JobUser)
      /\ ReadOnly /\ rec' = rec /\ UNCHANGED <<asked, crashes>>
      /\ res.pc = "unban" /\ res'.pc = "unban"
      /\ res'.job = res.job /\ res'.todo = res.todo
  BY DEF Unban, Group
<1>3. KicksSame
  <2>1. CASE updates' = updates
    BY <2>1 DEF KicksSame, KickWaits
  <2>2. CASE updates' = [updates EXCEPT ![JobUser] = Append(@, "left")]
    <3>1. PICK u, m : u = JobUser /\ m = "left"
      OBVIOUS
    <3>2. \A x \in Users : KickWaits(x)' <=> KickWaits(x) \/ (x = u /\ m = "kicked")
      BY <1>1, <2>2, <3>1, KickAppended
    <3> QED BY <3>1, <3>2 DEF KicksSame
  <2> QED BY <1>2, <2>1, <2>2
<1>4. RowsRest /\ JobUser' = JobUser
  BY <1>2 DEF ReadOnly, RowsRest, JobUser
<1>5. PICK u : u = JobUser
  OBVIOUS
<1>6. /\ \A x \in Users : /\ Past(u)[x] = "never" => kicked[x] = "never"
                          /\ Past(u)[x] = "now" => kicked[x] = "now"
      /\ Past(u)[u] # "now"
  <2>1. u \in Users /\ kicked \in [Users -> {"never", "before", "now"}]
    BY <1>1, <1>5
  <2> QED BY <2>1, PastKick, Zenon
<1> QED BY <1>2, <1>3, <1>4, <1>5, <1>6

\* The other steps of the worker leave Telegram alone.
LEMMA WorkerWorld ==
  ASSUME RestoreWorker, ~Unban
  PROVE  /\ updates' = updates /\ kicked' = kicked
         /\ rec' = rec /\ UNCHANGED <<asked, crashes>>
  BY Zenon DEF RestoreWorker, StartRestores, TakeRestore, Restored, RestoreRefused,
     RestoresAbort, FinishRestores, telegram

\* People: an administrator's kick is on its way when it counts.
LEMMA PeopleWorld ==
  ASSUME Typed, People
  PROVE  /\ RowsRest /\ UNCHANGED <<rec, res, asked, crashes>>
         /\ \A x \in Users :
              /\ KickWaits(x) => KickWaits(x)'
              /\ kicked'[x] = "never" => kicked[x] = "never"
              /\ kicked'[x] = "never" /\ KickWaits(x)' => KickWaits(x)
              /\ kicked'[x] = "now" => kicked[x] = "now" \/ KickWaits(x)'
<1>0. /\ updates \in [Users -> Seq(Membership)]
      /\ kicked \in [Users -> {"never", "before", "now"}]
  BY DEF Typed, TypeOK
<1>1. PICK c \in Places, u \in Users :
        Join(c, u) \/ Leave(c, u) \/ AdminUnbans(c, u) \/ AdminKicks(c, u)
  BY DEF People
<1>2. PICK m \in Membership :
        /\ Move(c, u, m)
        /\ \/ m # "kicked" /\ (kicked' = kicked \/ kicked' = Past(u))
           \/ m = "kicked" /\ kicked' = IF c = Group THEN [kicked EXCEPT ![u] = "now"]
                                                     ELSE kicked
  BY <1>1 DEF Join, Leave, AdminUnbans, AdminKicks, Membership
<1>3. \A x \in Users : KickWaits(x)' <=>
        KickWaits(x) \/ (x = u /\ m = "kicked" /\ c = Group)
  <2>1. CASE c = Group
    BY <1>0, <1>2, <2>1, KickAppended DEF Move
  <2>2. CASE c # Group
    BY <1>2, <2>2 DEF Move, KickWaits
  <2> QED BY <2>1, <2>2
<1>4. CASE m # "kicked" /\ (kicked' = kicked \/ kicked' = Past(u))
  BY <1>0, <1>2, <1>3, <1>4, PastKick DEF Move, ReadOnly, RowsRest
<1>5. CASE m = "kicked" /\ kicked' = IF c = Group THEN [kicked EXCEPT ![u] = "now"]
                                                  ELSE kicked
  <2>1. RowsRest /\ UNCHANGED <<rec, res, asked, crashes>>
    BY <1>2 DEF Move, ReadOnly, RowsRest
  <2>2. CASE c = Group
    <3>1. \A x \in Users : kicked'[x] = IF x = u THEN "now" ELSE kicked[x]
      BY <1>0, <1>5, <2>2
    <3> QED BY <1>3, <1>5, <2>1, <2>2, <3>1
  <2>3. CASE c # Group
    BY <1>3, <1>5, <2>1, <2>3
  <2> QED BY <2>2, <2>3
<1> QED BY <1>2, <1>4, <1>5

---------------------------------------------------------------------------
(* The bot's own removals are no manual bans. *)

LEMMA RestKeepsOwn ==
  ASSUME OwnRemovals, RowsRest, crashes' = crashes,
         rec'.pc = "banning" => rec.pc = "banning" /\ rec'.user = rec.user,
         \A x \in Users : kicked'[x] = "never" =>
           /\ kicked[x] = "never"
           /\ KickWaits(x)' => KickWaits(x)
           /\ x \in asked' => x \in asked \/ db.user[x].banned
  PROVE  OwnRemovals'
<1> SUFFICES ASSUME crashes = 0
             PROVE  /\ rec'.pc = "banning" => work'.user[rec'.user].source = "system"
                    /\ \A u \in Users : kicked'[u] = "never" => NeverKicked(u)'
  BY DEF OwnRemovals
<1>1. rec'.pc = "banning" => work'.user[rec'.user].source = "system"
  BY DEF OwnRemovals, RowsRest
<1>2. \A u \in Users : kicked'[u] = "never" => NeverKicked(u)'
  BY DEF OwnRemovals, RowsRest, NeverKicked
<1> QED BY <1>1, <1>2

LEMMA RecKeepsOwn ==
  ASSUME Typed, Typed', OwnRemovals, Reconcile
  PROVE  OwnRemovals'
<1>0. /\ kicked' = kicked /\ asked' = asked /\ crashes' = crashes
      /\ rec'.pc = "banning" => DecideRemoval
      /\ rec.pc = "banning" => holder = "rec" /\ rec.user \in Users
  BY RecRun DEF Typed, TypeOK, RunTypeOK, Ledgers
<1> SUFFICES ASSUME crashes = 0
             PROVE  /\ rec'.pc = "banning" => work'.user[rec'.user].source = "system"
                    /\ \A u \in Users : kicked[u] = "never" => NeverKicked(u)'
  BY <1>0 DEF OwnRemovals
<1>1. rec'.pc = "banning" => work'.user[rec'.user].source = "system"
  BY <1>0, DecisionMarks
<1>2. ASSUME NEW u \in Users, kicked[u] = "never"
      PROVE  NeverKicked(u)'
  <2>1. NeverKicked(u)
    BY <1>2 DEF OwnRemovals
  <2>2. KickWaits(u)' => /\ work.user[u].source = "system"
                         /\ holder # "rec" => db.user[u].source = "system"
    BY <1>0, <2>1, RecKicks DEF NeverKicked, OwnRemovals
  <2>3. CASE RowsRest
    BY <1>0, <2>1, <2>2, <2>3 DEF NeverKicked, RowsRest
  <2>4. CASE RecWrites
    BY <1>0, <2>1, <2>2, <2>4 DEF NeverKicked, RecWrites, Calm
  <2>5. CASE holder = "rec" /\ holder' = "none" /\ db' = work /\ work' = db'
    <3>1. work.restore = db.restore
      BY <2>5, JobsTyped
    <3> QED BY <1>0, <2>1, <2>2, <2>5, <3>1 DEF NeverKicked
  <2> QED BY <2>3, <2>4, <2>5, RecRows, FinishRunRows
<1> QED BY <1>1, <1>2

LEMMA WorkerKeepsOwn ==
  ASSUME Typed, Restoring, OwnRemovals, NEW j \in DOMAIN db.restore,
         Lifts(j) \/ Fails(j) \/ Succeeds(j),
         updates' = updates, kicked' = kicked, rec' = rec, UNCHANGED <<asked, crashes>>
  PROVE  OwnRemovals'
<1> DEFINE u == work.restore[j].user
<1>0. /\ u \in Users /\ u = db.restore[j].user
      /\ db' = db /\ holder' = "res" /\ holder \in {"none", "res"}
      /\ \E ban, source : RowSet(work, work', u, ban, source)
  BY JobsTyped DEF Restoring, SameJobs, Lifts, Fails, Succeeds, WorkerWrites
<1> HIDE DEF u
<1> SUFFICES ASSUME crashes = 0
             PROVE  /\ rec.pc = "banning" => work'.user[rec.user].source = "system"
                    /\ \A x \in Users : kicked[x] = "never" => NeverKicked(x)'
  BY DEF OwnRemovals
<1>1. rec.pc # "banning"
  BY <1>0 DEF Typed, Ledgers
<1>2. ASSUME NEW x \in Users, kicked[x] = "never"
      PROVE  NeverKicked(x)'
  <2>1. NeverKicked(x)
    BY <1>2 DEF OwnRemovals
  <2>2. x # u
    BY <1>0, <2>1 DEF NeverKicked
  <2>3. work'.user[x] = work.user[x] /\ (KickWaits(x)' <=> KickWaits(x))
    BY <1>0, <2>2 DEF RowSet, KickWaits
  <2> QED BY <1>0, <2>1, <2>3 DEF NeverKicked
<1> QED BY <1>1, <1>2

LEMMA BatchEndKeepsOwn ==
  ASSUME Typed, Restoring, OwnRemovals, RestoresAbort \/ FinishRestores
  PROVE  OwnRemovals'
<1>0. /\ updates' = updates /\ kicked' = kicked /\ rec' = rec /\ UNCHANGED <<asked, crashes>>
  BY DEF RestoresAbort, FinishRestores, telegram
<1>1. CASE holder # "res" /\ RowsRest
  BY <1>0, <1>1, RestKeepsOwn DEF KickWaits
<1>2. CASE holder = "res" /\ Closes
  <2> SUFFICES ASSUME crashes = 0
               PROVE  /\ rec.pc = "banning" => work'.user[rec.user].source = "system"
                      /\ \A x \in Users : kicked[x] = "never" => NeverKicked(x)'
    BY <1>0 DEF OwnRemovals
  <2>1. rec.pc # "banning"
    BY <1>2 DEF Typed, Ledgers
  <2>2. ASSUME NEW x \in Users, kicked[x] = "never"
        PROVE  NeverKicked(x)'
    <3>1. NeverKicked(x) /\ (KickWaits(x)' <=> KickWaits(x))
      BY <1>0, <2>2 DEF OwnRemovals, KickWaits
    <3>2. \A k \in DOMAIN work.restore : work.restore[k].user # x
      BY <3>1, JobsTyped DEF NeverKicked, Restoring, SameJobs
    <3> QED BY <1>0, <1>2, <3>1, <3>2 DEF NeverKicked, Closes
  <2> QED BY <2>1, <2>2
<1> QED BY <1>1, <1>2, BatchEndRows

LEMMA RequestsKeepOwn ==
  ASSUME Typed, OwnRemovals, NEW u \in Users,
         Deliver(u) \/ Decide(u) \/ WriteRestore(u),
         kicked' = kicked, rec' = rec, asked' \subseteq asked, crashes' = crashes,
         Deliver(u) \/ updates' = updates
  PROVE  OwnRemovals'
<1>0. db.restore \in Seq(Restore)
  BY DEF Typed, TypeOK, Database
<1>1. /\ RowHandled(u)
      /\ \/ db'.restore = db.restore
         \/ /\ u \in asked
            /\ db'.restore = Append(db.restore, [user |-> u, status |-> "pending"])
      /\ \/ BanRecorded(u) /\ KickWaits(u) /\ db.user[u].source # "system"
         \/ BanKept(u)
         \/ u \in asked
      /\ \A x \in Users : KickWaits(x)' => KickWaits(x)
  BY DeliverRows, DecideRows, WriteRestoreRows DEF KickWaits
<1>2. rec.pc # "banning" /\ work = db /\ holder = "none" /\ holder' = "none" /\ work' = db'
  BY <1>1, JobsTyped DEF RowHandled, Typed, Ledgers
<1>3. \A j \in DOMAIN db'.restore :
        \/ j \in DOMAIN db.restore /\ db'.restore[j] = db.restore[j]
        \/ u \in asked /\ db'.restore[j].user = u
  BY <1>0, <1>1
<1> SUFFICES ASSUME crashes = 0
             PROVE  \A x \in Users : kicked[x] = "never" => NeverKicked(x)'
  BY <1>2 DEF OwnRemovals
<1>4. ASSUME NEW x \in Users, kicked[x] = "never"
      PROVE  NeverKicked(x)'
  <2>1. NeverKicked(x)
    BY <1>4 DEF OwnRemovals
  <2>2. db'.user[x].banned = db.user[x].banned /\ db'.user[x].source = db.user[x].source
    BY <1>1, <1>2, <2>1 DEF RowHandled, NeverKicked, BanKept
  <2>3. \A j \in DOMAIN db'.restore : db'.restore[j].user # x
    BY <1>3, <2>1 DEF NeverKicked
  <2> QED BY <1>1, <1>2, <2>1, <2>2, <2>3 DEF NeverKicked
<1> QED BY <1>4

---------------------------------------------------------------------------
(* An administrator's kick is not lost. *)

LEMMA RestKeepsKicks ==
  ASSUME KicksRecorded, RowsRest,
         \A x \in Users : kicked'[x] = "now" =>
           KickWaits(x)' \/ (kicked[x] = "now" /\ ~KickWaits(x)),
         res'.pc = "unban" <=> res.pc = "unban",
         res.pc = "unban" => res'.job = res.job /\ res'.at = res.at
  PROVE  KicksRecorded'
<1> SUFFICES ASSUME NEW x \in Users, kicked'[x] = "now", ~KickWaits(x)'
             PROVE  KickTraced(x)'
  BY DEF KicksRecorded, KickTraced
<1>1. KickTraced(x) /\ ~KickWaits(x)
  BY DEF KicksRecorded
<1>2. res.pc = "unban" => JobUser' = JobUser
  BY DEF JobUser, RowsRest
<1>3. (Marked(db, x)' <=> Marked(db, x)) /\ (Marked(work, x)' <=> Marked(work, x))
  BY DEF Marked, RowsRest
<1> QED BY <1>1, <1>2, <1>3 DEF KickTraced

LEMMA RecKeepsKicks ==
  ASSUME Typed, KicksRecorded, Reconcile
  PROVE  KicksRecorded'
<1>0. /\ kicked' = kicked /\ res' = res
      /\ \A x \in Users : KickWaits(x) => KickWaits(x)'
  BY RecRun, RecKicks
<1>1. CASE RowsRest
  BY <1>0, <1>1, RestKeepsKicks
<1>2. CASE \/ RecWrites
           \/ holder = "rec" /\ holder' = "none" /\ db' = work /\ work' = db'
  <2> SUFFICES ASSUME NEW x \in Users, kicked[x] = "now", ~KickWaits(x)'
               PROVE  KickTraced(x)'
    BY <1>0 DEF KicksRecorded, KickTraced
  <2>1. res.pc # "unban" /\ KickTraced(x) /\ ~KickWaits(x)
    BY <1>0, <1>2, JobsTyped DEF KicksRecorded, RecWrites
  <2>2. Marked(db, x) /\ Marked(work, x)
    BY <2>1 DEF KickTraced
  <2>3. Marked(db, x)' /\ Marked(work, x)'
    BY <1>2, <2>2 DEF Marked, RecWrites, Calm
  <2> QED BY <1>0, <2>1, <2>3 DEF KickTraced
<1> QED BY <1>1, <1>2, RecRows, FinishRunRows

LEMMA WorkerKeepsKicks ==
  ASSUME Typed, Restoring, KicksRecorded, NEW j \in DOMAIN db.restore,
         Lifts(j) \/ Fails(j) \/ Succeeds(j),
         updates' = updates, kicked' = kicked
  PROVE  KicksRecorded'
<1> DEFINE u == work.restore[j].user
<1>1. /\ u \in Users /\ db' = db
      /\ \E ban, source : RowSet(work, work', u, ban, source)
  BY JobsTyped DEF Lifts, Fails, Succeeds, WorkerWrites
<1>2. res.pc = "unban" => JobUser = u /\ ~Lifts(j)
  BY DEF Lifts, Fails, Succeeds, JobUser
<1>3. res'.pc = "unban" => Lifts(j)
  BY DEF Fails, Succeeds
<1>4. Lifts(j) => JobUser' = u /\ res'.at = 1
  <2>1. Lifts(j) => res'.job = j /\ res'.at = 1 /\ work'.restore = work.restore
    BY DEF Lifts
  <2> QED BY <2>1 DEF JobUser
<1>5. /\ u \in Users /\ db' = db
      /\ \E ban, source : RowSet(work, work', u, ban, source)
      /\ res.pc = "unban" => JobUser = u
      /\ res'.pc = "unban" => Lifts(j) /\ JobUser' = u /\ res'.at = 1
      /\ res.pc = "unban" => ~Lifts(j)
  BY <1>1, <1>2, <1>3, <1>4
<1> HIDE DEF u
<1> SUFFICES ASSUME NEW x \in Users, kicked[x] = "now", ~KickWaits(x)
             PROVE  KickTraced(x)'
  BY DEF KicksRecorded, KickTraced, KickWaits
<1>6. KickTraced(x)
  BY DEF KicksRecorded
<1>7. Marked(db, x)'
  BY <1>5, <1>6 DEF KickTraced, Marked
<1>8. CASE x # u
  <2>1. Marked(work, x)
    BY <1>5, <1>6, <1>8 DEF KickTraced
  <2>2. Marked(work, x)'
    BY <1>5, <1>8, <2>1 DEF Marked, RowSet
  <2> QED BY <1>5, <1>7, <1>8, <2>2 DEF KickTraced
<1>9. CASE x = u
  <2>1. CASE Lifts(j)
    BY <1>5, <1>7, <1>9, <2>1 DEF KickTraced, Lifts
  <2>2. CASE Fails(j)
    BY <1>5, <1>7, <1>9, <2>2 DEF KickTraced, Fails, Marked, RowSet, u
  <2>3. CASE Succeeds(j)
    BY <1>5, <1>6, <1>9, <2>3 DEF KickTraced, Succeeds
  <2> QED BY <2>1, <2>2, <2>3 DEF Lifts
<1> QED BY <1>8, <1>9

LEMMA ClosingKeepsKicks ==
  ASSUME Typed, KicksRecorded, Closes, updates' = updates, res'.pc # "unban",
         db' # db => db' = work /\ res.pc # "unban",
         \A x \in Users : kicked'[x] = "now" => kicked[x] = "now"
  PROVE  KicksRecorded'
<1> SUFFICES ASSUME NEW x \in Users, kicked[x] = "now", ~KickWaits(x)
             PROVE  KickTraced(x)'
  BY DEF KicksRecorded, KickTraced, KickWaits
<1>1. KickTraced(x)
  BY DEF KicksRecorded
<1>2. Marked(db, x)' /\ Marked(work, x)'
  BY <1>1 DEF KickTraced, Marked, Closes
<1> QED BY <1>2 DEF KickTraced

LEMMA RequestsKeepKicks ==
  ASSUME Typed, KicksRecorded, NEW u \in Users,
         Deliver(u) \/ Decide(u) \/ WriteRestore(u),
         kicked' = kicked, res' = res, Deliver(u) \/ updates' = updates
  PROVE  KicksRecorded'
<1>1. /\ RowHandled(u)
      /\ \A x \in Users \ {u} : KickWaits(x) => KickWaits(x)'
      /\ \/ BanRecorded(u)
         \/ BanKept(u) /\ (KickWaits(u) => KickWaits(u)' \/ db.user[u].source = "system")
         \/ db'.user[u].banned
  BY DeliverRows, DecideRows, WriteRestoreRows DEF KickWaits
<1>2. work = db /\ work' = db' /\ res.pc # "unban"
  BY <1>1, JobsTyped DEF RowHandled
<1> SUFFICES ASSUME NEW x \in Users, kicked[x] = "now", ~KickWaits(x)'
             PROVE  KickTraced(x)'
  BY DEF KicksRecorded, KickTraced
<1>3. KickTraced(x)
  BY DEF KicksRecorded
<1>4. Marked(db, x)'
  BY <1>1, <1>2, <1>3 DEF KickTraced, Marked, RowHandled, BanRecorded, BanKept
<1> QED BY <1>2, <1>4 DEF KickTraced, Marked

---------------------------------------------------------------------------
(* The step, and the theorems. *)

BanParts == BansReported /\ Restoring /\ OwnRemovals /\ KicksRecorded

LEMMA RecKeepsBans ==
  ASSUME BanInv, Reconcile
  PROVE  BanParts'
<1>0. /\ Typed /\ Typed' /\ BansReported /\ Restoring /\ OwnRemovals /\ KicksRecorded
      /\ res' = res /\ asked' = asked
  BY RecRun, RecTyped DEF BanInv
<1>1. CASE RowsRest
  <2>1. BansReported'
    BY <1>0, <1>1, RestKeepsReports
  <2>2. Restoring'
    BY <1>0, <1>1, RestKeepsRestoring
  <2> QED BY <1>0, <2>1, <2>2, RecKeepsOwn, RecKeepsKicks DEF BanParts
<1>2. CASE RecWrites
  BY <1>0, <1>2, CalmKeepsReports, CalmKeepsRestoring, RecKeepsOwn, RecKeepsKicks
     DEF BanParts
<1>3. CASE holder = "rec" /\ holder' = "none" /\ db' = work /\ work' = db'
  <2>1. Closes /\ res'.pc # "unban"
    BY <1>0, <1>3, JobsTyped DEF Closes
  <2>2. BansReported' /\ Restoring'
    BY <1>0, <1>3, <2>1, ClosingKeepsReports, ClosingKeepsRestoring
  <2> QED BY <1>0, <2>2, RecKeepsOwn, RecKeepsKicks DEF BanParts
<1> QED BY <1>0, <1>1, <1>2, <1>3, RecRows, FinishRunRows

LEMMA WorkerKeepsBans ==
  ASSUME BanInv, RestoreWorker
  PROVE  BanParts'
<1>0. Typed /\ BansReported /\ Restoring /\ OwnRemovals /\ KicksRecorded
  BY DEF BanInv
<1>1. CASE StartRestores
  <2>1. /\ RowsRest /\ res.pc = "idle" /\ res'.pc = "next"
        /\ \A j \in res'.todo : j \in DOMAIN db.restore /\ db.restore[j].status = "pending"
        /\ UNCHANGED <<rec, updates, kicked, asked, crashes>>
    BY <1>1 DEF StartRestores, ReadOnly, RowsRest, telegram
  <2>2. BansReported'
    BY <1>0, <2>1, RestKeepsReports
  <2>3. Restoring'
    BY <1>0, <2>1, JobsTyped, RestKeepsRestoring
  <2>4. OwnRemovals'
    BY <1>0, <2>1, RestKeepsOwn DEF KickWaits
  <2>5. KicksRecorded'
    BY <1>0, <2>1, RestKeepsKicks DEF KickWaits
  <2> QED BY <2>2, <2>3, <2>4, <2>5, Zenon DEF BanParts
<1>2. CASE Unban
  <2>1. BansReported'
    BY <1>0, <1>2, UnbanWorld, RestKeepsReports
  <2>2. Restoring'
    BY <1>0, <1>2, UnbanWorld, RestKeepsRestoring
  <2>3. OwnRemovals'
    BY <1>0, <1>2, UnbanWorld, RestKeepsOwn DEF KicksSame
  <2>4. KicksRecorded'
    <3> SUFFICES ASSUME NEW x \in Users, kicked'[x] = "now", ~KickWaits(x)'
                 PROVE  KickTraced(x)'
      BY DEF KicksRecorded, KickTraced
    <3>1. /\ KickTraced(x) /\ ~KickWaits(x) /\ RowsRest
          /\ JobUser' = JobUser /\ res.pc = "unban"
          /\ x = JobUser => res.at # 1
      BY <1>0, <1>2, UnbanWorld DEF KicksRecorded, KicksSame
    <3>2. x # JobUser /\ Marked(db, x) /\ Marked(work, x)
      BY <3>1 DEF KickTraced
    <3> QED BY <3>1, <3>2 DEF KickTraced, Marked, RowsRest
  <2> QED BY <2>1, <2>2, <2>3, <2>4 DEF BanParts
<1>3. CASE TakeRestore \/ Restored \/ RestoreRefused
  <2>1. /\ updates' = updates /\ kicked' = kicked
        /\ rec' = rec /\ UNCHANGED <<asked, crashes>>
    BY <1>3, Zenon DEF TakeRestore, Restored, RestoreRefused, telegram
  <2>2. PICK j \in DOMAIN db.restore : Lifts(j) \/ Fails(j) \/ Succeeds(j)
    <3>1. CASE TakeRestore
      BY <1>0, <3>1, TakeRestoreRows, JobsTyped DEF InHand
    <3>2. CASE Restored \/ RestoreRefused
      BY <1>0, <3>2, EndRestoreRows, JobsTyped
    <3> QED BY <1>3, <3>1, <3>2
  <2>3. BansReported'
    BY <1>0, <2>1, <2>2, WorkerKeepsReports
  <2>4. Restoring'
    BY <1>0, <2>2, WorkerKeepsRestoring
  <2>5. OwnRemovals'
    BY <1>0, <2>1, <2>2, WorkerKeepsOwn
  <2>6. KicksRecorded'
    BY <1>0, <2>1, <2>2, WorkerKeepsKicks
  <2> QED BY <2>3, <2>4, <2>5, <2>6, Zenon DEF BanParts
<1>4. CASE RestoresAbort \/ FinishRestores
  <2>1. /\ updates' = updates /\ kicked' = kicked
        /\ rec' = rec /\ UNCHANGED <<asked, crashes>>
    BY <1>4 DEF RestoresAbort, FinishRestores, telegram
  <2>2. /\ res'.pc = "idle" /\ res'.todo = {}
        /\ \/ holder = "res" /\ Closes
           \/ holder # "res" /\ RowsRest
        /\ db' # db => FinishRestores /\ db' = work
    BY <1>0, <1>4, BatchEndRows
  <2>3. OwnRemovals'
    BY <1>0, <1>4, BatchEndKeepsOwn
  <2>4. CASE Closes
    <3>1. BansReported'
      BY <1>0, <2>1, <2>4, ClosingKeepsReports
    <3>2. Restoring'
      BY <1>0, <2>2, <2>4, ClosingKeepsRestoring
    <3>3. KicksRecorded'
      BY <1>0, <2>1, <2>2, <2>4, ClosingKeepsKicks DEF FinishRestores
    <3> QED BY <2>3, <3>1, <3>2, <3>3 DEF BanParts
  <2>5. CASE holder # "res" /\ RowsRest
    <3>1. res.pc # "unban"
      BY <1>0, <2>5, JobsTyped
    <3>2. BansReported'
      BY <1>0, <2>1, <2>5, RestKeepsReports
    <3>3. Restoring'
      BY <1>0, <2>2, <2>5, <3>1, RestKeepsRestoring
    <3>4. KicksRecorded'
      BY <1>0, <2>1, <2>2, <2>5, <3>1, RestKeepsKicks DEF KickWaits
    <3> QED BY <2>3, <3>2, <3>3, <3>4 DEF BanParts
  <2> QED BY <2>2, <2>4, <2>5
<1> QED BY <1>1, <1>2, <1>3, <1>4 DEF RestoreWorker

LEMMA RequestsKeepBans ==
  ASSUME BanInv, NEW u \in Users,
         Deliver(u) \/ Decide(u) \/ RestoreCommand(u) \/ Pay(u) \/ Expire(u)
  PROVE  BanParts'
<1>0. Typed /\ BansReported /\ Restoring /\ OwnRemovals /\ KicksRecorded
  BY DEF BanInv
<1>1. CASE Deliver(u) \/ Decide(u) \/ WriteRestore(u)
  <2>1. /\ kicked' = kicked /\ rec' = rec /\ res' = res
        /\ asked' \subseteq asked /\ crashes' = crashes
        /\ Deliver(u) \/ updates' = updates
    BY <1>1 DEF Deliver, Decide, WriteRestore, telegram
  <2>2. BansReported'
    BY <1>0, <1>1, <2>1, RequestsKeepReports
  <2>3. Restoring'
    BY <1>0, <1>1, <2>1, RequestsKeepRestoring
  <2>4. OwnRemovals'
    BY <1>0, <1>1, <2>1, RequestsKeepOwn
  <2>5. KicksRecorded'
    BY <1>0, <1>1, <2>1, RequestsKeepKicks
  <2> QED BY <2>2, <2>3, <2>4, <2>5, Zenon DEF BanParts
<1>2. CASE CheckRestore(u) \/ DropRestore(u) \/ Pay(u) \/ Expire(u)
  <2>1. /\ RowsRest /\ updates' = updates /\ kicked' = kicked /\ res' = res
        /\ rec'.pc = rec.pc /\ (rec.pc = "banning" => rec'.user = rec.user)
        /\ \A x \in asked' : x \in asked \/ (x \in Users /\ db.user[x].banned)
        /\ crashes' = crashes
    <3>1. RowsRest
      BY <1>0, <1>2, OtherRequestRows
    <3>2. CASE Expire(u)
      BY <1>0, <3>1, <3>2, ClockTyped DEF Expire, telegram, Working
    <3>3. CASE CheckRestore(u) \/ DropRestore(u) \/ Pay(u)
      BY <3>1, <3>3 DEF CheckRestore, DropRestore, Pay, telegram
    <3> QED BY <1>2, <3>2, <3>3
  <2>2. BansReported'
    BY <1>0, <2>1, RestKeepsReports
  <2>3. Restoring'
    BY <1>0, <2>1, RestKeepsRestoring
  <2>4. OwnRemovals'
    BY <1>0, <2>1, RestKeepsOwn DEF KickWaits
  <2>5. KicksRecorded'
    BY <1>0, <2>1, RestKeepsKicks DEF KickWaits
  <2> QED BY <2>2, <2>3, <2>4, <2>5, Zenon DEF BanParts
<1> QED BY <1>1, <1>2 DEF RestoreCommand

LEMMA WorldKeepsBans ==
  ASSUME BanInv, People \/ Midnight \/ UNCHANGED vars
  PROVE  BanParts'
<1>0. Typed /\ BansReported /\ Restoring /\ OwnRemovals /\ KicksRecorded
  BY DEF BanInv
<1>1. /\ RowsRest /\ res' = res /\ asked' = asked /\ crashes' = crashes
      /\ rec'.pc = rec.pc /\ (rec.pc = "banning" => rec'.user = rec.user)
      /\ \A x \in Users :
           /\ KickWaits(x) => KickWaits(x)'
           /\ kicked'[x] = "never" => kicked[x] = "never"
           /\ kicked'[x] = "never" /\ KickWaits(x)' => KickWaits(x)
           /\ kicked'[x] = "now" => kicked[x] = "now" \/ KickWaits(x)'
  <2>1. CASE People
    BY <1>0, <2>1, PeopleWorld
  <2>2. CASE Midnight
    <3>1. UNCHANGED <<updates, kicked, res, asked, crashes>>
      BY <2>2 DEF Midnight, telegram
    <3> QED BY <1>0, <2>2, <3>1, MidnightRows, ClockTyped DEF KickWaits, Working
  <2>3. CASE UNCHANGED vars
    BY <2>3 DEF vars, RowsRest, KickWaits
  <2> QED BY <2>1, <2>2, <2>3
<1>2. BansReported'
  BY <1>0, <1>1, RestKeepsReports
<1>3. Restoring'
  BY <1>0, <1>1, RestKeepsRestoring
<1>4. OwnRemovals'
  BY <1>0, <1>1, RestKeepsOwn
<1>5. KicksRecorded'
  BY <1>0, <1>1, RestKeepsKicks
<1> QED BY <1>2, <1>3, <1>4, <1>5 DEF BanParts

LEMMA CrashKeepsBans ==
  ASSUME BanInv, Crash
  PROVE  BanParts'
<1>0. Typed /\ BansReported /\ Restoring /\ KicksRecorded /\ crashes \in Nat
  BY BoundsAssumption DEF BanInv, Typed, TypeOK
<1>1. /\ Closes /\ db' = db /\ asked' = {} /\ res'.pc = "idle" /\ res'.todo = {}
      /\ updates' = updates /\ kicked' = kicked /\ crashes' = crashes + 1
  BY DEF Crash, Rollback, Release, Closes, NoBatch, telegram
<1>2. BansReported'
  BY <1>0, <1>1, ClosingKeepsReports
<1>3. Restoring'
  BY <1>0, <1>1, ClosingKeepsRestoring
<1>4. OwnRemovals'
  BY <1>0, <1>1 DEF OwnRemovals
<1>5. KicksRecorded'
  BY <1>0, <1>1, ClosingKeepsKicks
<1> QED BY <1>2, <1>3, <1>4, <1>5 DEF BanParts

LEMMA InitBanInv == Init => BanInv
<1> SUFFICES ASSUME Init PROVE BanInv
  OBVIOUS
<1>1. /\ \A u \in Users : db.user[u] = Joined
      /\ db.restore = <<>> /\ work = db /\ asked = {}
      /\ rec.pc = "idle" /\ res.pc = "idle" /\ res.todo = {}
      /\ \A u \in Users : kicked[u] = "never" /\ updates[u] = <<>>
  BY DEF Init, NoRun, NoBatch
<1>2. BansReported
  BY <1>1 DEF BansReported, WasReported, Joined
<1>3. Restoring
  BY <1>1 DEF Restoring, SameJobs, BatchPending, InHand, Unbanning, LiftsEnded
<1>4. OwnRemovals
  BY <1>1 DEF OwnRemovals, NeverKicked, KickWaits, Joined
<1>5. KicksRecorded
  BY <1>1 DEF KicksRecorded
<1> QED BY <1>2, <1>3, <1>4, <1>5, InitTyped DEF BanInv

LEMMA NextBanInv == BanInv /\ [Next]_vars => BanInv'
<1> SUFFICES ASSUME BanInv, [Next]_vars PROVE BanInv'
  OBVIOUS
<1>1. BanParts'
  BY RecKeepsBans, WorkerKeepsBans, RequestsKeepBans, WorldKeepsBans, CrashKeepsBans
     DEF Next, Requests
<1>2. Typed'
  BY NextTyped DEF BanInv
<1> QED BY <1>1, <1>2 DEF BanInv, BanParts

\* THEOREM: whatever restore commands, failing jobs, restarts and overlapping
\* transactions do, a member banned in the database is one about whom
\* Telegram reported a kick.
THEOREM NoBanUnreported == Spec => []BanWasReported
<1>1. BanInv => BanWasReported
  BY DEF BanInv, BansReported, WasReported, BanWasReported
<1> QED BY <1>1, InitBanInv, NextBanInv, PTL DEF Spec

\* THEOREM: while the backend is not restarted the bot's own removals do not
\* become manual bans, in whatever order Telegram delivers the updates.
THEOREM RemovalIsNoManualBan == Spec => []OwnRemovalIsNoManualBan
<1>1. BanInv => OwnRemovalIsNoManualBan
  BY DEF BanInv, OwnRemovals, NeverKicked, OwnRemovalIsNoManualBan, ManualBanNeedsAdmin
<1> QED BY <1>1, InitBanInv, NextBanInv, PTL DEF Spec

\* THEOREM: once every update is delivered, whom an administrator threw out of
\* the group is banned in the database or carries the bot's own mark, with
\* restarts and restores at any moment.
THEOREM KickIsRecorded == Spec => []AdminKickRecorded
<1>1. BanInv => AdminKickRecorded
  BY DEF BanInv, KicksRecorded, KickTraced, KickWaits, Marked, AdminKickRecorded
<1> QED BY <1>1, InitBanInv, NextBanInv, PTL DEF Spec

\* THEOREM: a committed ban ends in no other way than by a restore job that
\* was pending and is done in the same commit.
THEOREM OnlyRestoreLiftsBan == Spec => BanLiftedByRestore
<1> DEFINE Lifted == \A u \in Users : db.user[u].banned /\ ~db'.user[u].banned =>
             \E j \in DOMAIN db.restore :
               /\ db.restore[j] = [user |-> u, status |-> "pending"]
               /\ db'.restore[j].status = "done"
<1>1. BanInv /\ [Next]_vars => Lifted
  <2> SUFFICES ASSUME BanInv, [Next]_vars, NEW u \in Users,
                      db.user[u].banned, ~db'.user[u].banned
               PROVE  \E j \in DOMAIN db.restore :
                        /\ db.restore[j] = [user |-> u, status |-> "pending"]
                        /\ db'.restore[j].status = "done"
    OBVIOUS
  <2>0. Typed /\ Restoring
    BY DEF BanInv
  <2>1. CASE db' = work /\ res.pc # "unban"
    BY <2>0, <2>1 DEF Restoring, LiftsEnded, EndedInWork
  <2>2. CASE Reconcile
    <3>1. db'.user = db.user \/ (holder = "rec" /\ db' = work)
      BY <2>0, <2>2, RecRows, FinishRunRows DEF RowsRest, RecWrites
    <3>2. holder = "rec" => res.pc # "unban"
      BY <2>0, JobsTyped
    <3> QED BY <2>1, <3>1, <3>2
  <2>3. CASE RestoreWorker
    <3>1. CASE RestoresAbort \/ FinishRestores
      <4>1. FinishRestores /\ db' = work
        BY <2>0, <3>1, BatchEndRows
      <4> QED BY <2>1, <4>1 DEF FinishRestores
    <3>2. CASE ~(RestoresAbort \/ FinishRestores)
      <4>1. db' = db
        BY <2>0, <2>3, <3>2, ResData DEF ResStep, ReadOnly, Write
      <4> QED BY <4>1
    <3> QED BY <3>1, <3>2
  <2>4. CASE Requests
    <3>1. PICK x \in Users :
            Deliver(x) \/ Decide(x) \/ RestoreCommand(x) \/ Pay(x) \/ Expire(x)
      BY <2>4 DEF Requests
    <3>2. CASE Deliver(x) \/ Decide(x) \/ WriteRestore(x)
      BY <2>0, <3>2, DeliverRows, DecideRows, WriteRestoreRows
         DEF RowHandled, BanRecorded, BanKept
    <3>3. CASE CheckRestore(x) \/ DropRestore(x) \/ Pay(x) \/ Expire(x)
      BY <2>0, <3>3, OtherRequestRows DEF RowsRest
    <3> QED BY <3>1, <3>2, <3>3 DEF RestoreCommand
  <2>5. CASE Midnight
    BY <2>0, <2>5, MidnightRows DEF RowsRest
  <2>6. CASE People
    BY <2>0, <2>6, PeopleWorld DEF RowsRest
  <2>7. CASE Crash
    BY <2>7 DEF Crash, Rollback
  <2>8. CASE UNCHANGED vars
    BY <2>8 DEF vars
  <2> QED BY <2>2, <2>3, <2>4, <2>5, <2>6, <2>7, <2>8 DEF Next
<1>2. BanInv /\ [Next]_vars => [Lifted]_vars
  BY <1>1
<1> QED
  BY <1>2, InitBanInv, NextBanInv, PTL DEF Spec, BanLiftedByRestore

\* THEOREM: the restore worker unbans nobody in Telegram whose override is
\* deny, though it calls Telegram long after it asked for the access.
THEOREM DenyIsNotUndone == Spec => DeniedStaysOut
<1> DEFINE Stays == \A c \in Places, u \in Users :
             res' # res /\ chat[c][u] = "kicked" /\ chat'[c][u] # "kicked" =>
               db.user[u].override # "deny"
<1>1. BanInv /\ [Next]_vars => Stays
  <2> SUFFICES ASSUME BanInv, [Next]_vars, NEW c \in Places, NEW u \in Users,
                      res' # res, chat[c][u] = "kicked", chat'[c][u] # "kicked"
               PROVE  db.user[u].override # "deny"
    OBVIOUS
  <2>0. Typed /\ Unbanning /\ chat \in [Places -> [Users -> Membership]]
    <3>1. Typed /\ Unbanning
      BY DEF BanInv, Restoring
    <3> QED BY <3>1 DEF Typed, TypeOK
  <2>1. Unban
    <3>1. ~Reconcile /\ ~People
      BY <2>0, RecRun, PeopleWorld
    <3>2. ~Requests /\ ~Midnight /\ ~Crash
      BY DEF Requests, Deliver, Decide, RestoreCommand, CheckRestore, WriteRestore,
         DropRestore, Pay, Expire, Midnight, Crash, telegram
    <3>3. ~UNCHANGED vars
      BY DEF vars
    <3>4. RestoreWorker
      BY <3>1, <3>2, <3>3 DEF Next
    <3> QED
      BY <3>4, Zenon DEF RestoreWorker, StartRestores, TakeRestore, Restored, RestoreRefused,
         RestoresAbort, FinishRestores, telegram
  <2>2. PICK d, x : /\ d = Chats[res.at] /\ x = JobUser
                    /\ chat' = chat \/ chat' = [chat EXCEPT ![d][x] = "left"]
    BY <2>1 DEF Unban
  <2>3. u = x
    BY <2>0, <2>2
  <2> QED BY <2>0, <2>1, <2>2, <2>3 DEF Unban, Unbanning
<1>2. BanInv /\ [Next]_vars => [Stays]_vars
  BY <1>1
<1> QED
  BY <1>2, InitBanInv, NextBanInv, PTL DEF Spec, DeniedStaysOut
=============================================================================
