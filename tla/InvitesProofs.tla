---------------------------- MODULE InvitesProofs ----------------------------
(***************************************************************************)
(* For any number of people, chats, jobs, links, requests and restarts: the *)
(* variables of Invites keep their types, only the owner of a link enters   *)
(* by it, not after its use is on record, not after a deny, and a job that  *)
(* is done left its owner links the webhook knows.                          *)
(***************************************************************************)
EXTENDS Invites, SequenceTheorems, WellFoundedInduction, TLAPS

---------------------------------------------------------------------------
(* The invariant.                                                          *)

\* A view of the database: n links were made, m are the messages, us the uses.
Good(w, n, m, us) ==
  /\ w \in Database /\ Len(w.jobs) <= MaxJobs
  /\ \A l \in LinkIds : l > n => w.invites[l] = "none"
  /\ \A l \in LinkIds : us[l] > 0 => w.invites[l] \in {"used", "expired"}
  /\ \A j \in DOMAIN w.jobs : w.jobs[j].status = "done" =>
       \A l \in m[j] : w.invites[l] # "none"

Tables ==
  /\ Good(db, Len(link), message, uses) /\ Good(work, Len(link), message, uses)
  /\ holder \in {"none", "worker", "hook", "revoker"}
  /\ holder = "none" => work = db
  /\ DOMAIN work.jobs = DOMAIN db.jobs
  /\ holder # "worker" => work.jobs = db.jobs

Telegram ==
  /\ link \in Seq(Link) /\ Len(link) <= MaxLinks
  /\ member \in [Places -> SUBSET People] /\ waiting \in [Places -> SUBSET People]
  /\ requests \in Seq([user : People, link : LinkIds])
  /\ \A i \in 1..Len(requests) : requests[i].link \in 1..Len(link)
  /\ queue \subseteq 1..Len(requests)

RecordedOnce == \A l \in LinkIds : uses[l] <= 1

Ghosts ==
  /\ message \in [JobIds -> SUBSET LinkIds] /\ uses \in [LinkIds -> Nat]
  /\ RecordedOnce /\ crashes \in 0..MaxCrashes

\* The worker while it makes the links of a job.
Busy == [pc : {"asking", "linking"}, todo : SUBSET JobIds, job : JobIds,
         at : 1..Len(Chats) + 1, links : SUBSET LinkIds]

\* The jobs of a run are pending until it commits; the rows of the links it has
\* made are its own.
WorkerSane ==
  /\ worker.pc \in {"idle", "next", "asking", "linking"}
  /\ worker.todo \subseteq DOMAIN db.jobs
  /\ \A j \in worker.todo : db.jobs[j].status = "pending"
  /\ worker.pc \in {"asking", "linking"} =>
       /\ worker \in Busy /\ worker.links \subseteq 1..Len(link)
       /\ worker.job \in DOMAIN db.jobs /\ db.jobs[worker.job].status = "pending"
       /\ \A l \in worker.links : holder = "worker" /\ work.invites[l] # "none"
  /\ worker.pc = "linking" => worker.at <= Len(Chats)

\* A request is answered under the lock, and what was checked still holds.
HookSane ==
  /\ hook.pc \in {"idle", "approving", "declining"}
  /\ hook.pc # "idle" => hook.update \in queue /\ holder = "hook"
  /\ hook.pc = "approving" =>
       LET r == requests[hook.update] IN
       /\ work.invites[r.link] = "pending" /\ r.user = link[r.link].owner
       /\ db.user[r.user].override # "deny"

RevokerSane == revoker.pc \in {"idle", "next"} /\ revoker.todo \subseteq 1..Len(link)
AdminSane == admin.pc = "idle" \/ (admin.pc = "linking" /\ admin.user \in Users)

InvitesInv ==
  Tables /\ Telegram /\ Ghosts /\ WorkerSane /\ HookSane /\ RevokerSane /\ AdminSane

---------------------------------------------------------------------------
(* Changes of a view.                                                      *)

LEMMA GoodGrows ==
  ASSUME NEW w, NEW m, NEW us, NEW n \in Nat, NEW k \in Nat, n <= k, Good(w, n, m, us)
  PROVE  Good(w, k, m, us)
<1>1. \A l \in LinkIds : l > k => l > n
  BY DEF LinkIds
<1> QED BY <1>1 DEF Good

LEMMA JobsTyped ==
  ASSUME NEW w \in Database
  PROVE  /\ w.jobs \in Seq(Job) /\ DOMAIN w.jobs = 1..Len(w.jobs) /\ Len(w.jobs) \in Nat
         /\ \A j \in DOMAIN w.jobs : w.jobs[j] \in Job
<1>1. w.jobs \in Seq(Job)
  BY DEF Database
<1> QED BY <1>1, ElementOfSeq, LenProperties

WithJob(w, j, s) == [w EXCEPT !.jobs[j].status = s]
WithRow(w, l, s) == [w EXCEPT !.invites[l] = s]
WithNew(w, u) == [w EXCEPT !.jobs = Append(@, [user |-> u, status |-> "pending"])]
WithOverride(w, u, d) == [w EXCEPT !.user[u].override = d]
WithoutPaid(w, u) == [w EXCEPT !.paid[u] = FALSE]
WithClaim(w, i) == [w EXCEPT !.inbox = @ \cup {i}]

\* The rows of the links are there.
Recorded(w, ls) == \A l \in ls : w.invites[l] # "none"

LEMMA GoodEnded ==
  ASSUME NEW w, NEW n \in Nat, NEW m, NEW us, Good(w, n, m, us),
         NEW j \in DOMAIN w.jobs, NEW s \in {"done", "failed"},
         s = "done" => Recorded(w, m[j])
  PROVE  Good(WithJob(w, j, s), n, m, us) /\ DOMAIN WithJob(w, j, s).jobs = DOMAIN w.jobs
<1> DEFINE v == [w EXCEPT !.jobs[j].status = s]
           job == [w.jobs[j] EXCEPT !.status = s]
           jobs == [w.jobs EXCEPT ![j] = job]
<1>1. w \in Database
  BY DEF Good
<1>2. job \in Job /\ job.status = s
  BY <1>1, JobsTyped DEF Job
<1>3. jobs \in Seq(Job) /\ Len(jobs) = Len(w.jobs)
      /\ \A i \in 1..Len(w.jobs) : jobs[i] = IF i = j THEN job ELSE w.jobs[i]
  <2> HIDE DEF job
  <2> QED BY <1>1, <1>2, JobsTyped, ExceptSeq
<1>4. v.jobs = jobs /\ v.invites = w.invites /\ v.user = w.user
  BY <1>1 DEF Database
<1>5. v \in Database
  <2>1. v = [w EXCEPT !.jobs = jobs]
    BY <1>1 DEF Database
  <2> HIDE DEF jobs, v
  <2> QED BY <1>1, <1>3, <2>1 DEF Database
<1> HIDE DEF v, job, jobs
<1>6. DOMAIN v.jobs = DOMAIN w.jobs /\ DOMAIN w.jobs = 1..Len(w.jobs)
  BY <1>1, <1>3, <1>4, JobsTyped, LenProperties
<1>7. ASSUME NEW i \in DOMAIN v.jobs, v.jobs[i].status = "done", NEW l \in m[i]
      PROVE  v.invites[l] # "none"
  <2>1. CASE i = j
    BY <1>2, <1>3, <1>4, <1>6, <1>7, <2>1 DEF Recorded
  <2>2. CASE i # j
    BY <1>3, <1>4, <1>6, <1>7, <2>2 DEF Good
  <2> QED BY <2>1, <2>2
<1>8. Good(v, n, m, us)
  BY <1>3, <1>4, <1>5, <1>7 DEF Good
<1> QED BY <1>4, <1>6, <1>8 DEF v, WithJob

LEMMA GoodRow ==
  ASSUME NEW w, NEW n \in Nat, NEW m, NEW us \in [LinkIds -> Nat], Good(w, n, m, us),
         NEW l \in LinkIds, NEW k \in Nat, n <= k, l <= k,
         NEW s \in InviteStatus,
         \/ s = w.invites[l]
         \/ s \in {"pending", "used", "expired"} /\ (s = "pending" => l > n)
  PROVE  LET v == WithRow(w, l, s) IN
         /\ Good(v, k, m, us) /\ v.jobs = w.jobs /\ v.user = w.user
         /\ v.invites[l] = s /\ \A i \in LinkIds : i # l => v.invites[i] = w.invites[i]
<1> DEFINE v == [w EXCEPT !.invites[l] = s]
           rows == [w.invites EXCEPT ![l] = s]
<1>1. w \in Database /\ w.invites \in [LinkIds -> InviteStatus]
  BY DEF Good, Database
<1>2. /\ rows \in [LinkIds -> InviteStatus]
      /\ rows[l] = s /\ \A i \in LinkIds : i # l => rows[i] = w.invites[i]
  BY <1>1 DEF InviteStatus
<1>3. v.invites = rows /\ v.jobs = w.jobs /\ v.user = w.user
  BY <1>1 DEF Database
<1>4. v \in Database
  <2>1. v = [w EXCEPT !.invites = rows]
    BY <1>1 DEF Database
  <2> HIDE DEF rows, v
  <2> QED BY <1>1, <1>2, <2>1 DEF Database
<1> HIDE DEF v, rows
<1>5. \A i \in LinkIds : i > k => v.invites[i] = "none"
  BY <1>2, <1>3 DEF Good, LinkIds
<1>6. ASSUME NEW i \in LinkIds, us[i] > 0 PROVE v.invites[i] \in {"used", "expired"}
  <2>1. CASE i = l
    <3>1. w.invites[l] \in {"used", "expired"}
      BY <1>6, <2>1 DEF Good
    <3>2. l \in Nat /\ ~(l > n)
      BY <3>1 DEF Good, LinkIds
    <3>3. s \in {"used", "expired"}
      BY <3>1, <3>2
    <3> QED BY <1>2, <1>3, <2>1, <3>3
  <2>2. CASE i # l
    BY <1>2, <1>3, <1>6, <2>2 DEF Good
  <2> QED BY <2>1, <2>2
<1>7. ASSUME NEW j \in DOMAIN v.jobs, v.jobs[j].status = "done", NEW i \in m[j]
      PROVE  v.invites[i] # "none"
  <2>1. w.invites[i] # "none"
    BY <1>3, <1>7 DEF Good
  <2>2. CASE i = l
    <3>1. s # "none"
      BY <2>1, <2>2
    <3> QED BY <1>2, <1>3, <2>2, <3>1
  <2>3. CASE i # l /\ i \in LinkIds
    BY <1>2, <1>3, <2>1, <2>3
  <2>4. CASE i \notin LinkIds
    BY <1>1, <1>3, <2>1, <2>4 DEF rows
  <2> QED BY <2>2, <2>3, <2>4
<1>8. Good(v, k, m, us)
  BY <1>3, <1>4, <1>5, <1>6, <1>7 DEF Good
<1> QED BY <1>2, <1>3, <1>8 DEF v, WithRow

LEMMA GoodMessage ==
  ASSUME NEW w, NEW n \in Nat, NEW m \in [JobIds -> SUBSET LinkIds], NEW us, Good(w, n, m, us),
         NEW j \in JobIds, NEW ls, j \in DOMAIN w.jobs,
         w.jobs[j].status = "done" => \A l \in ls : w.invites[l] # "none"
  PROVE  Good(w, n, [m EXCEPT ![j] = ls], us)
BY DEF Good

LEMMA GoodUse ==
  ASSUME NEW w, NEW n \in Nat, NEW m, NEW us \in [LinkIds -> Nat], Good(w, n, m, us),
         NEW l \in LinkIds, w.invites[l] \in {"used", "expired"}
  PROVE  Good(w, n, m, [us EXCEPT ![l] = @ + 1])
BY DEF Good

LEMMA GoodJob ==
  ASSUME NEW w, NEW n \in Nat, NEW m, NEW us, Good(w, n, m, us), Len(w.jobs) < MaxJobs,
         NEW u \in Users
  PROVE  LET v == WithNew(w, u) IN
         /\ Good(v, n, m, us) /\ v.invites = w.invites /\ v.user = w.user
         /\ DOMAIN w.jobs \subseteq DOMAIN v.jobs
         /\ \A j \in DOMAIN w.jobs : v.jobs[j] = w.jobs[j]
<1> DEFINE new == [user |-> u, status |-> "pending"]
           jobs == Append(w.jobs, new)
           v == [w EXCEPT !.jobs = jobs]
<1>1. w \in Database /\ new \in Job /\ new.status = "pending"
  BY DEF Good, Job
<1> HIDE DEF new
<1>2. /\ jobs \in Seq(Job) /\ Len(jobs) = Len(w.jobs) + 1 /\ jobs[Len(w.jobs) + 1] = new
      /\ \A j \in 1..Len(w.jobs) : jobs[j] = w.jobs[j]
      /\ DOMAIN jobs = 1..(Len(w.jobs) + 1)
  BY <1>1, JobsTyped, AppendProperties, LenProperties
<1> HIDE DEF jobs
<1>3. v.jobs = jobs /\ v.invites = w.invites /\ v.user = w.user /\ v \in Database
  BY <1>1, <1>2 DEF Database
<1> HIDE DEF v
<1>4. Len(w.jobs) \in Nat /\ DOMAIN w.jobs = 1..Len(w.jobs)
  BY <1>1, JobsTyped
<1>5. ASSUME NEW j \in DOMAIN v.jobs, v.jobs[j].status = "done"
      PROVE  j \in DOMAIN w.jobs /\ w.jobs[j].status = "done"
  <2>1. j # Len(w.jobs) + 1
    BY <1>1, <1>2, <1>3, <1>5
  <2>2. j \in 1..Len(w.jobs)
    BY <1>2, <1>3, <1>4, <1>5, <2>1
  <2> QED BY <1>2, <1>3, <1>4, <1>5, <2>2
<1>6. Good(v, n, m, us)
  BY <1>2, <1>3, <1>4, <1>5, BoundsAssumption DEF Good
<1>7. DOMAIN w.jobs \subseteq DOMAIN v.jobs
  BY <1>2, <1>3, <1>4
<1> QED BY <1>2, <1>3, <1>4, <1>6, <1>7 DEF v, jobs, new, WithNew

LEMMA GoodSet ==
  ASSUME NEW w, NEW n, NEW m, NEW us, Good(w, n, m, us)
  PROVE  /\ \A u \in Users, d \in {"allow", "deny"} :
              LET v == WithOverride(w, u, d) IN
              Good(v, n, m, us) /\ v.jobs = w.jobs /\ v.invites = w.invites
         /\ \A u \in Users :
              LET v == WithoutPaid(w, u) IN
              /\ Good(v, n, m, us) /\ v.jobs = w.jobs /\ v.invites = w.invites
              /\ v.user = w.user
         /\ \A i \in UpdateIds :
              LET v == WithClaim(w, i) IN
              /\ Good(v, n, m, us) /\ v.jobs = w.jobs /\ v.invites = w.invites
              /\ v.user = w.user
<1>1. w \in Database
  BY DEF Good
<1>2. ASSUME NEW u \in Users, NEW d \in {"allow", "deny"}
      PROVE  LET v == [w EXCEPT !.user[u].override = d] IN
             v \in Database /\ v.jobs = w.jobs /\ v.invites = w.invites
  <2> DEFINE row == [w.user[u] EXCEPT !.override = d]
             users == [w.user EXCEPT ![u] = row]
  <2>1. w.user \in [Users -> Manual]
    BY <1>1 DEF Database
  <2>2. row \in Manual
    BY <2>1 DEF Manual, Overrides
  <2> HIDE DEF row
  <2>3. users \in [Users -> Manual]
    BY <2>1, <2>2
  <2> HIDE DEF users
  <2>4. LET v == [w EXCEPT !.user = users] IN
        v \in Database /\ v.jobs = w.jobs /\ v.invites = w.invites
    BY <1>1, <2>3 DEF Database
  <2>5. [w EXCEPT !.user[u].override = d] = [w EXCEPT !.user = users]
    BY <1>1 DEF users, row, Database
  <2> QED BY <2>4, <2>5
<1>3. ASSUME NEW u \in Users
      PROVE  LET v == [w EXCEPT !.paid[u] = FALSE] IN
             v \in Database /\ v.jobs = w.jobs /\ v.invites = w.invites /\ v.user = w.user
  BY <1>1 DEF Database
<1>4. ASSUME NEW i \in UpdateIds
      PROVE  LET v == [w EXCEPT !.inbox = @ \cup {i}] IN
             v \in Database /\ v.jobs = w.jobs /\ v.invites = w.invites /\ v.user = w.user
  BY <1>1 DEF Database
<1>5. \A v : v \in Database /\ v.jobs = w.jobs /\ v.invites = w.invites => Good(v, n, m, us)
  BY DEF Good
<1> QED BY <1>2, <1>3, <1>4, <1>5 DEF WithOverride, WithoutPaid, WithClaim

---------------------------------------------------------------------------
(* Changes of the links.                                                   *)

LinksGrow ==
  /\ link' \in Seq(Link) /\ Len(link') <= MaxLinks /\ Len(link) <= Len(link')
  /\ \A l \in 1..Len(link) : link'[l].owner = link[l].owner /\ link'[l].chat = link[l].chat

LEMMA LinksTyped ==
  ASSUME Telegram
  PROVE  /\ Len(link) \in Nat /\ DOMAIN link = 1..Len(link) /\ Len(link) <= MaxLinks
         /\ \A l \in 1..Len(link) : link[l] \in Link /\ l \in LinkIds
         /\ Len(requests) \in Nat /\ DOMAIN requests = 1..Len(requests)
         /\ \A i \in 1..Len(requests) : requests[i] \in [user : People, link : LinkIds]
<1>1. link \in Seq(Link) /\ Len(link) <= MaxLinks /\ requests \in Seq([user : People, link : LinkIds])
  BY DEF Telegram
<1>2. /\ Len(link) \in Nat /\ DOMAIN link = 1..Len(link)
      /\ Len(requests) \in Nat /\ DOMAIN requests = 1..Len(requests)
  BY <1>1, LenProperties
<1>3. \A l \in 1..Len(link) : link[l] \in Link
  BY <1>1, ElementOfSeq
<1>4. \A i \in 1..Len(requests) : requests[i] \in [user : People, link : LinkIds]
  BY <1>1, ElementOfSeq
<1>5. \A l \in 1..Len(link) : l \in LinkIds
  BY <1>1, <1>2, BoundsAssumption DEF LinkIds
<1> QED BY <1>1, <1>2, <1>3, <1>4, <1>5

LEMMA SameLinks ==
  ASSUME Telegram, link' = link
  PROVE  LinksGrow /\ Len(link') = Len(link)
BY LinksTyped DEF LinksGrow, Telegram

LEMMA LinkAdded ==
  ASSUME Telegram, MayMake, NEW f \in Link, link' = Append(link, f)
  PROVE  /\ LinksGrow /\ Len(link') = NewLink /\ NewLink \in LinkIds
         /\ NewLink > Len(link) /\ NewLink \in 1..Len(link')
<1>1. /\ link' \in Seq(Link) /\ Len(link') = Len(link) + 1
      /\ \A l \in 1..Len(link) : link'[l] = link[l]
  BY AppendProperties DEF Telegram
<1>2. Len(link) \in Nat /\ Len(link) < MaxLinks /\ MaxLinks \in Nat
  BY LinksTyped, BoundsAssumption DEF MayMake
<1> QED BY <1>1, <1>2 DEF LinksGrow, NewLink, LinkIds

LEMMA LinkSet ==
  ASSUME Telegram, NEW l \in 1..Len(link),
         \/ link' = [link EXCEPT ![l].late = TRUE]
         \/ link' = [link EXCEPT ![l].state = "revoked"]
  PROVE  LinksGrow /\ Len(link') = Len(link)
<1>1. PICK f \in Link : /\ link' = [link EXCEPT ![l] = f]
                        /\ f.owner = link[l].owner /\ f.chat = link[l].chat
  <2>1. link[l] \in Link
    BY LinksTyped
  <2>2. CASE link' = [link EXCEPT ![l].late = TRUE]
    <3>1. [link[l] EXCEPT !.late = TRUE] \in Link
      BY <2>1 DEF Link
    <3> QED BY <2>1, <2>2, <3>1 DEF Link
  <2>3. CASE link' = [link EXCEPT ![l].state = "revoked"]
    <3>1. [link[l] EXCEPT !.state = "revoked"] \in Link
      BY <2>1 DEF Link
    <3> QED BY <2>1, <2>3, <3>1 DEF Link
  <2> QED BY <2>2, <2>3
<1>2. /\ link' \in Seq(Link) /\ Len(link') = Len(link)
      /\ \A k \in 1..Len(link) : link'[k] = IF k = l THEN f ELSE link[k]
  BY <1>1, ExceptSeq DEF Telegram
<1> QED BY <1>1, <1>2, LinksTyped DEF LinksGrow

LEMMA LinksSent ==
  ASSUME Telegram, NEW ls, link' = Delivered(ls)
  PROVE  LinksGrow /\ Len(link') = Len(link)
<1> DEFINE n == Len(link)
<1>1. n \in Nat /\ DOMAIN link = 1..n
  BY LinksTyped
<1>2. DOMAIN link' = 1..n
  BY <1>1 DEF Delivered
<1>3. ASSUME NEW l \in 1..n
      PROVE  link'[l] \in Link /\ link'[l].owner = link[l].owner /\ link'[l].chat = link[l].chat
  <2>1. link[l] \in Link
    BY LinksTyped
  <2>2. link'[l] = IF l \in ls THEN [link[l] EXCEPT !.state = "sent"] ELSE link[l]
    BY <1>1 DEF Delivered
  <2> QED BY <2>1, <2>2 DEF Link
<1>4. link' \in [1..n -> Link]
  BY <1>1, <1>2, <1>3 DEF Delivered
<1>5. link' \in Seq(Link)
  BY <1>1, <1>4, SeqDef
<1>6. Len(link') = n
  BY <1>1, <1>2, <1>5, LenProperties
<1> QED BY <1>1, <1>3, <1>5, <1>6, LinksTyped DEF LinksGrow

---------------------------------------------------------------------------
(* What a step leaves alone.                                               *)

LEMMA View ==
  ASSUME InvitesInv, NEW h \in {"worker", "hook", "revoker"}
  PROVE  /\ Good(Visible(h), Len(link), message, uses)
         /\ DOMAIN Visible(h).jobs = DOMAIN db.jobs
         /\ h # "worker" => Visible(h).jobs = db.jobs
         /\ MayWrite(h) => Visible(h) = work
BY DEF InvitesInv, Tables, Visible, MayWrite

LEMMA WriteTables ==
  ASSUME InvitesInv, NEW h \in {"worker", "hook", "revoker"}, NEW w, Write(h, w),
         Good(db, Len(link'), message', uses'), Good(w, Len(link'), message', uses'),
         DOMAIN w.jobs = DOMAIN db.jobs, h # "worker" => w.jobs = db.jobs
  PROVE  Tables' /\ db' = db /\ work' = w /\ holder' = h /\ holder \in {"none", h}
BY DEF InvitesInv, Tables, Write, MayWrite

LEMMA CommitTables ==
  ASSUME NEW w, Commit(w), Good(w, Len(link'), message', uses')
  PROVE  Tables'
BY DEF Tables, Commit

LEMMA SameTables ==
  ASSUME InvitesInv, ReadOnly, LinksGrow, UNCHANGED <<message, uses>>
  PROVE  Tables'
<1>1. Len(link) \in Nat /\ Len(link') \in Nat /\ Len(link) <= Len(link')
  BY LinksTyped, LenProperties DEF InvitesInv, LinksGrow
<1>2. Good(db, Len(link'), message, uses) /\ Good(work, Len(link'), message, uses)
  BY <1>1, GoodGrows DEF InvitesInv, Tables
<1> QED BY <1>2 DEF InvitesInv, Tables, ReadOnly

SameRequests == \A i \in 1..Len(requests) : requests'[i] = requests[i]

LEMMA WorkerKept ==
  ASSUME InvitesInv, worker' = worker, LinksGrow,
         DOMAIN db.jobs \subseteq DOMAIN db'.jobs,
         \A j \in DOMAIN db.jobs : db'.jobs[j] = db.jobs[j],
         holder = "worker" => holder' = "worker" /\ work'.invites = work.invites
  PROVE  WorkerSane'
<1>1. 1..Len(link) \subseteq 1..Len(link')
  BY LinksTyped, LenProperties DEF InvitesInv, LinksGrow
<1> QED BY <1>1 DEF InvitesInv, WorkerSane

LEMMA HookKept ==
  ASSUME InvitesInv, hook' = hook, LinksGrow, SameRequests,
         hook.pc # "idle" => hook.update \in queue',
         holder = "hook" => /\ holder' = "hook" /\ db'.user = db.user
                            /\ work'.invites = work.invites
  PROVE  HookSane'
<1>1. CASE hook.pc = "idle"
  BY <1>1 DEF InvitesInv, HookSane
<1>2. CASE hook.pc # "idle"
  <2>1. /\ hook.update \in 1..Len(requests) /\ holder = "hook"
        /\ requests[hook.update].link \in 1..Len(link)
    BY <1>2 DEF InvitesInv, HookSane, Telegram
  <2>2. requests'[hook.update] = requests[hook.update]
    BY <2>1 DEF SameRequests
  <2>3. link'[requests[hook.update].link].owner = link[requests[hook.update].link].owner
    BY <2>1 DEF LinksGrow
  <2> QED BY <1>2, <2>1, <2>2, <2>3 DEF InvitesInv, HookSane
<1> QED BY <1>1, <1>2

LEMMA RestKept ==
  ASSUME InvitesInv, LinksGrow
  PROVE  /\ revoker' = revoker => RevokerSane'
         /\ admin' = admin => AdminSane'
         /\ UNCHANGED <<member, waiting, requests, queue>> => Telegram' /\ SameRequests
         /\ UNCHANGED <<message, uses, crashes>> => Ghosts'
<1>1. 1..Len(link) \subseteq 1..Len(link')
  BY LinksTyped, LenProperties DEF InvitesInv, LinksGrow
<1>2. revoker' = revoker => RevokerSane'
  BY <1>1 DEF InvitesInv, RevokerSane
<1>3. admin' = admin => AdminSane'
  BY DEF InvitesInv, AdminSane
<1>4. UNCHANGED <<member, waiting, requests, queue>> => Telegram' /\ SameRequests
  BY <1>1 DEF InvitesInv, Telegram, LinksGrow, SameRequests
<1>5. UNCHANGED <<message, uses, crashes>> => Ghosts'
  BY DEF InvitesInv, Ghosts, RecordedOnce
<1> QED BY <1>2, <1>3, <1>4, <1>5

LEMMA LeastTaken ==
  ASSUME NEW S, S \subseteq Nat, S # {}
  PROVE  Min(S) \in S
<1> DEFINE R == {ss \in Nat \X Nat : ss[1] < ss[2]}
<1>1. R = OpToRel(<, Nat)
  BY DEF OpToRel
<1>2. IsWellFoundedOn(R, Nat)
  BY <1>1, NatLessThanWellFounded
<1>3. PICK x \in S : \A y \in S : ~(<<y, x>> \in R)
  <2> HIDE DEF R
  <2> QED BY <1>2, WFMin
<1>4. ASSUME NEW y \in S PROVE x <= y
  <2>1. x \in Nat /\ y \in Nat
    OBVIOUS
  <2>2. ~(y < x)
    BY <1>3, <2>1
  <2> QED BY <2>1, <2>2
<1> QED BY <1>4 DEF Min

---------------------------------------------------------------------------
(* The invite worker.                                                      *)

\* A step of the worker, once its own part is shown.
LEMMA WorkerStep ==
  ASSUME InvitesInv, UNCHANGED <<hook, revoker, admin, member, waiting, requests, queue,
                                 uses, crashes>>,
         LinksGrow, Tables', WorkerSane', message' \in [JobIds -> SUBSET LinkIds],
         holder = "hook" => UNCHANGED <<db, work, holder>>
  PROVE  InvitesInv'
<1>1. Telegram' /\ SameRequests /\ RevokerSane' /\ AdminSane'
  BY RestKept
<1>2. HookSane'
  BY <1>1, HookKept DEF InvitesInv, HookSane
<1>3. Ghosts'
  BY DEF InvitesInv, Ghosts, RecordedOnce
<1> QED BY <1>1, <1>2, <1>3 DEF InvitesInv

LEMMA JobsKnown ==
  ASSUME InvitesInv
  PROVE  /\ DOMAIN db.jobs \subseteq JobIds /\ JobIds \subseteq Nat
         /\ \A j \in DOMAIN db.jobs : db.jobs[j] \in Job
<1>1. db \in Database /\ Len(db.jobs) <= MaxJobs /\ MaxJobs \in Nat
  BY BoundsAssumption DEF InvitesInv, Tables, Good
<1> QED BY <1>1, JobsTyped DEF JobIds

\* What the message of an ended job holds.
MessageEnds(j, s) ==
  \/ s = "failed" /\ message' = message
  \/ /\ db.jobs[j].status = "pending" /\ message' = [message EXCEPT ![j] = worker.links]
     /\ \A l \in worker.links : holder = "worker" /\ work.invites[l] # "none"

\* The row of a job is written.
LEMMA JobWritten ==
  ASSUME InvitesInv, NEW j \in DOMAIN db.jobs, NEW s \in {"done", "failed"},
         Write("worker", Ended(j, s)), LinksGrow, Len(link') = Len(link), uses' = uses,
         MessageEnds(j, s)
  PROVE  Tables' /\ db' = db /\ holder \in {"none", "worker"}
<1> DEFINE v == Visible("worker")
           n == Len(link)
<1>1. /\ Good(v, n, message, uses) /\ DOMAIN v.jobs = DOMAIN db.jobs /\ v = work
      /\ Good(db, n, message, uses) /\ n \in Nat
  BY View, LinksTyped DEF Write, InvitesInv, Tables
<1>2. /\ Good(v, n, message', uses) /\ Good(db, n, message', uses)
      /\ s = "done" => \A l \in message'[j] : v.invites[l] # "none"
  <2>1. CASE s = "failed" /\ message' = message
    BY <1>1, <2>1
  <2>2. CASE /\ db.jobs[j].status = "pending" /\ message' = [message EXCEPT ![j] = worker.links]
             /\ \A l \in worker.links : holder = "worker" /\ work.invites[l] # "none"
    <3>1. j \in JobIds /\ message \in [JobIds -> SUBSET LinkIds]
      BY JobsKnown DEF InvitesInv, Ghosts
    <3>2. message'[j] = worker.links
      BY <2>2, <3>1
    <3>3. Good(v, n, [message EXCEPT ![j] = worker.links], uses)
      BY <1>1, <2>2, <3>1, GoodMessage
    <3>4. Good(db, n, [message EXCEPT ![j] = worker.links], uses)
      BY <1>1, <2>2, <3>1, GoodMessage
    <3> QED BY <1>1, <2>2, <3>2, <3>3, <3>4
  <2> QED BY <2>1, <2>2 DEF MessageEnds
<1> HIDE DEF v
<1>3. /\ Good(WithJob(v, j, s), n, message', uses)
      /\ DOMAIN WithJob(v, j, s).jobs = DOMAIN db.jobs
  <2>1. PICK w, k, m, us : w = v /\ k = n /\ m = message' /\ us = uses
    OBVIOUS
  <2> HIDE DEF n
  <2>2. /\ Good(w, k, m, us) /\ k \in Nat /\ j \in DOMAIN w.jobs
        /\ s = "done" => Recorded(w, m[j])
    BY <1>1, <1>2, <2>1 DEF Recorded
  <2>3. Good(WithJob(w, j, s), k, m, us) /\ DOMAIN WithJob(w, j, s).jobs = DOMAIN w.jobs
    BY <2>2, GoodEnded
  <2> QED BY <1>1, <2>1, <2>3
<1>4. Ended(j, s) = WithJob(v, j, s)
  BY DEF Ended, v, WithJob
<1> QED BY <1>2, <1>3, <1>4, WriteTables

LEMMA ChatsKnown == Len(Chats) \in Nat /\ Len(Chats) > 0 /\ DOMAIN Chats = 1..Len(Chats)
BY ChatsAssumption, LenProperties

\* The worker goes on to its next job, or rests.
LEMMA WorkerOn ==
  ASSUME InvitesInv, NEW T, T \subseteq worker.todo,
         worker' = NextJob(T) \/ worker' = Resting, db' = db
  PROVE  WorkerSane'
<1>1. worker'.pc \in {"next", "idle"} /\ worker'.todo \subseteq worker.todo
  BY DEF NextJob, Resting
<1> QED BY <1>1 DEF InvitesInv, WorkerSane

LEMMA StartInvitesStep ==
  ASSUME InvitesInv, StartInvites
  PROVE  InvitesInv'
<1>1. LinksGrow /\ Tables'
  BY SameLinks, SameTables DEF InvitesInv, StartInvites, telegram, ghosts
<1>2. WorkerSane'
  BY DEF StartInvites, NextJob, ReadOnly, WorkerSane
<1>3. message' \in [JobIds -> SUBSET LinkIds]
  BY DEF StartInvites, ghosts, InvitesInv, Ghosts
<1> QED BY <1>1, <1>2, <1>3, WorkerStep DEF StartInvites, telegram, ghosts, ReadOnly

LEMMA TakeJobStep ==
  ASSUME InvitesInv, TakeJob
  PROVE  InvitesInv'
<1> DEFINE j == Min(worker.todo)
           todo == worker.todo \ {j}
<1>1. j \in worker.todo /\ worker.todo \subseteq DOMAIN db.jobs /\ db.jobs[j].status = "pending"
      /\ DOMAIN db.jobs \subseteq JobIds
  BY JobsKnown, LeastTaken DEF TakeJob, InvitesInv, WorkerSane
<1>2. LinksGrow /\ message' \in [JobIds -> SUBSET LinkIds] /\ Len(link') = Len(link)
  BY SameLinks DEF InvitesInv, Ghosts, TakeJob, telegram, ghosts
<1>3. CASE /\ worker' = [pc |-> "asking", todo |-> todo, job |-> j, at |-> 1, links |-> {}]
           /\ ReadOnly
  <2>1. Tables'
    BY <1>2, <1>3, SameTables DEF TakeJob, ghosts
  <2>2. worker' \in Busy
    BY <1>1, <1>3, ChatsKnown DEF Busy
  <2>3. /\ worker'.pc = "asking" /\ worker'.todo = todo /\ worker'.job = j /\ worker'.links = {}
    BY <1>3
  <2>4. WorkerSane'
    <3> HIDE DEF j
    <3> QED BY <1>1, <1>3, <2>2, <2>3 DEF WorkerSane, InvitesInv, ReadOnly
  <2> QED BY <1>2, <1>3, <2>1, <2>4, WorkerStep DEF TakeJob, telegram, ghosts, ReadOnly
<1>4. CASE Write("worker", Ended(j, "failed")) /\ worker' = NextJob(todo)
  <2>1. Tables' /\ db' = db /\ holder \in {"none", "worker"}
    <3> HIDE DEF j
    <3> QED BY <1>1, <1>2, <1>4, JobWritten DEF TakeJob, ghosts, MessageEnds
  <2>2. WorkerSane'
    BY <1>4, <2>1, WorkerOn
  <2> QED BY <1>2, <2>1, <2>2, WorkerStep DEF TakeJob, telegram, ghosts
<1> QED BY <1>3, <1>4 DEF TakeJob

LEMMA AskMemberStep ==
  ASSUME InvitesInv, AskMember
  PROVE  InvitesInv'
<1>1. LinksGrow /\ Tables'
  BY SameLinks, SameTables DEF InvitesInv, AskMember, telegram, ghosts
<1>2. message' \in [JobIds -> SUBSET LinkIds]
  BY DEF AskMember, ghosts, InvitesInv, Ghosts
<1>3. PICK w \in Busy : w = worker /\ w.pc = "asking" /\ w.at <= Len(Chats)
  BY DEF AskMember, InvitesInv, WorkerSane
<1>4. worker' = [w EXCEPT !.at = @ + 1] \/ worker' = [w EXCEPT !.pc = "linking"]
  BY <1>3 DEF AskMember
<1>5. /\ worker' \in Busy /\ worker'.todo = w.todo /\ worker'.job = w.job
      /\ worker'.links = w.links
      /\ worker'.pc = "linking" => worker'.at <= Len(Chats)
  BY <1>3, <1>4, ChatsKnown DEF Busy
<1>6. worker'.pc \in {"asking", "linking"}
  BY <1>5 DEF Busy
<1>7. WorkerSane'
  BY <1>3, <1>5, <1>6 DEF AskMember, InvitesInv, WorkerSane, ReadOnly, telegram
<1> QED BY <1>1, <1>2, <1>7, WorkerStep DEF AskMember, telegram, ghosts, ReadOnly

LEMMA CreateLinkStep ==
  ASSUME InvitesInv, CreateLink
  PROVE  InvitesInv'
<1>1. PICK w \in Busy : /\ w = worker /\ w.pc = "linking" /\ w.at <= Len(Chats)
                        /\ w.job \in DOMAIN db.jobs
  BY DEF CreateLink, InvitesInv, WorkerSane
<1>2. /\ Good(Visible("worker"), Len(link), message, uses) /\ Visible("worker") = work
      /\ DOMAIN work.jobs = DOMAIN db.jobs /\ Good(db, Len(link), message, uses)
  BY View DEF CreateLink, Write, InvitesInv, Tables
<1> DEFINE f == Fresh(JobUser, Chats[worker.at], "job", "made")
<1>3. f \in Link
  <2>1. JobUser \in Users
    BY <1>1, <1>2, JobsTyped DEF JobUser, Good, Job
  <2>2. Chats[w.at] \in Places
    BY <1>1, ChatsKnown DEF Places, Busy
  <2> QED BY <1>1, <2>1, <2>2 DEF Fresh, Link
<1> HIDE DEF f
<1>4. /\ LinksGrow /\ Len(link') = NewLink /\ NewLink \in LinkIds
      /\ NewLink > Len(link) /\ NewLink \in 1..Len(link')
  BY <1>3, LinkAdded DEF CreateLink, LinkMade, InvitesInv, f
<1>5. Len(link) \in Nat /\ NewLink \in Nat /\ Len(link) <= NewLink /\ uses \in [LinkIds -> Nat]
  BY <1>4, LinksTyped DEF InvitesInv, NewLink, Ghosts
<1>6. PICK v, n, k, m, us : v = work /\ n = Len(link) /\ k = NewLink /\ m = message /\ us = uses
  OBVIOUS
<1>7. /\ Good(WithRow(v, k, "pending"), k, m, us) /\ WithRow(v, k, "pending").jobs = v.jobs
      /\ WithRow(v, k, "pending").invites[k] = "pending"
      /\ \A i \in LinkIds : i # k => WithRow(v, k, "pending").invites[i] = v.invites[i]
  <2>1. /\ Good(v, n, m, us) /\ n \in Nat /\ k \in LinkIds /\ k \in Nat /\ n <= k /\ k > n
        /\ us \in [LinkIds -> Nat] /\ k <= k
    BY <1>2, <1>4, <1>5, <1>6
  <2>2. "pending" \in InviteStatus
    BY DEF InviteStatus
  <2> QED BY <2>1, <2>2, GoodRow
<1>8. Good(db, k, m, us)
  BY <1>2, <1>5, <1>6, GoodGrows
<1>9. Write("worker", WithRow(v, k, "pending"))
  BY <1>2, <1>6 DEF CreateLink, WithRow
<1>10. /\ Tables' /\ db' = db /\ work' = WithRow(v, k, "pending") /\ holder' = "worker"
       /\ holder \in {"none", "worker"}
  <2>1. message' = m /\ uses' = us /\ Len(link') = k
    BY <1>4, <1>6 DEF CreateLink, LinkMade, ghosts
  <2>2. DOMAIN WithRow(v, k, "pending").jobs = DOMAIN db.jobs
    BY <1>2, <1>6, <1>7
  <2> QED BY <1>7, <1>8, <1>9, <2>1, <2>2, WriteTables
<1>11. WorkerSane'
  <2>1. worker' = [w EXCEPT !.pc = "asking", !.at = @ + 1, !.links = @ \cup {k}]
    BY <1>1, <1>6 DEF CreateLink, LinkMade
  <2>2. /\ worker' \in Busy /\ worker'.todo = w.todo /\ worker'.job = w.job
        /\ worker'.links = w.links \cup {k} /\ worker'.pc = "asking"
    <3>1. w.at + 1 \in 1..Len(Chats) + 1 /\ w.links \cup {k} \in SUBSET LinkIds
      BY <1>1, <1>4, <1>6, ChatsKnown DEF Busy
    <3>2. worker' = [pc |-> "asking", todo |-> w.todo, job |-> w.job, at |-> w.at + 1,
                     links |-> w.links \cup {k}]
      BY <2>1 DEF Busy
    <3>3. worker' \in Busy
      BY <3>1, <3>2 DEF Busy
    <3> QED BY <3>2, <3>3
  <2>3. ASSUME NEW l \in w.links \cup {k}
        PROVE  l \in 1..Len(link') /\ work'.invites[l] # "none"
    <3>1. CASE l = k
      BY <1>4, <1>6, <1>7, <1>10, <3>1
    <3>2. CASE l # k
      <4>1. l \in w.links /\ l \in 1..Len(link) /\ work.invites[l] # "none"
        BY <1>1, <3>2 DEF InvitesInv, WorkerSane
      <4>2. l \in LinkIds /\ l \in 1..Len(link')
        BY <1>4, <1>5, <4>1, LinksTyped DEF InvitesInv
      <4> QED BY <1>6, <1>7, <1>10, <3>2, <4>1, <4>2
    <3> QED BY <3>1, <3>2
  <2>4. /\ w.todo \subseteq DOMAIN db.jobs /\ db.jobs[w.job].status = "pending"
        /\ \A j \in w.todo : db.jobs[j].status = "pending"
    BY <1>1 DEF InvitesInv, WorkerSane
  <2> QED BY <1>1, <1>10, <2>2, <2>3, <2>4 DEF WorkerSane
<1>12. message' \in [JobIds -> SUBSET LinkIds]
  BY DEF CreateLink, LinkMade, ghosts, InvitesInv, Ghosts
<1> QED BY <1>4, <1>10, <1>11, <1>12, WorkerStep DEF CreateLink, LinkMade, ghosts
LEMMA SendLinksStep ==
  ASSUME InvitesInv, SendLinks
  PROVE  InvitesInv'
<1>1. PICK j \in DOMAIN db.jobs : j = worker.job /\ j \in JobIds /\ db.jobs[j].status = "pending"
  BY JobsKnown DEF SendLinks, InvitesInv, WorkerSane
<1>2. \A l \in worker.links : holder = "worker" /\ work.invites[l] # "none"
  BY DEF SendLinks, InvitesInv, WorkerSane
<1>3. LinksGrow /\ Len(link') = Len(link)
  BY LinksSent DEF SendLinks, InvitesInv
<1>4. Tables' /\ db' = db /\ holder \in {"none", "worker"}
  BY <1>1, <1>2, <1>3, JobWritten DEF SendLinks, MessageEnds
<1>5. WorkerSane'
  BY <1>4, WorkerOn DEF SendLinks
<1>6. message' \in [JobIds -> SUBSET LinkIds]
  <2>1. worker.links \in SUBSET LinkIds /\ message \in [JobIds -> SUBSET LinkIds]
    BY DEF SendLinks, InvitesInv, WorkerSane, Ghosts, Busy
  <2> QED BY <1>1, <2>1 DEF SendLinks
<1> QED BY <1>3, <1>4, <1>5, <1>6, WorkerStep DEF SendLinks

LEMMA InviteRefusedStep ==
  ASSUME InvitesInv, InviteRefused
  PROVE  InvitesInv'
<1>1. PICK j \in DOMAIN db.jobs : j = worker.job
  BY DEF InviteRefused, InvitesInv, WorkerSane
<1>2. LinksGrow /\ Len(link') = Len(link) /\ message' \in [JobIds -> SUBSET LinkIds]
  BY SameLinks DEF InviteRefused, InvitesInv, Ghosts, telegram, ghosts
<1>3. Tables' /\ db' = db /\ holder \in {"none", "worker"}
  BY <1>1, <1>2, JobWritten DEF InviteRefused, ghosts, MessageEnds
<1>4. WorkerSane'
  BY <1>3, WorkerOn DEF InviteRefused
<1> QED BY <1>2, <1>3, <1>4, WorkerStep DEF InviteRefused, telegram, ghosts

\* A transaction is undone, whatever was sent meanwhile.
LEMMA UndoTables ==
  ASSUME InvitesInv, NEW h \in {"worker", "hook", "revoker"}, Undo(h),
         Good(db, Len(link'), message', uses'),
         holder # h => Good(work, Len(link'), message', uses')
  PROVE  Tables' /\ db' = db /\ (holder # h => UNCHANGED <<work, holder>>)
BY DEF InvitesInv, Tables, Undo, Commit

LEMMA InvitesAbortStep ==
  ASSUME InvitesInv, InvitesAbort
  PROVE  InvitesInv'
<1>0. Good(db, Len(link), message, uses) /\ Good(work, Len(link), message, uses)
      /\ Len(link) \in Nat /\ message \in [JobIds -> SUBSET LinkIds]
  BY LinksTyped DEF InvitesInv, Tables, Ghosts
<1>1. /\ LinksGrow /\ message' \in [JobIds -> SUBSET LinkIds]
      /\ Good(db, Len(link'), message', uses)
      /\ holder # "worker" => Good(work, Len(link'), message', uses)
  <2>1. CASE UNCHANGED <<link, message>>
    BY <1>0, <2>1, SameLinks DEF InvitesInv
  <2>2. CASE /\ worker.pc = "asking" /\ link' = Delivered(worker.links)
             /\ message' = [message EXCEPT ![worker.job] = worker.links]
    <3>1. PICK j \in DOMAIN db.jobs :
            j = worker.job /\ j \in JobIds /\ db.jobs[j].status = "pending"
      BY <2>2, JobsKnown DEF InvitesInv, WorkerSane
    <3>2. LinksGrow /\ Len(link') = Len(link)
      BY <2>2, LinksSent DEF InvitesInv
    <3>3. worker.links \in SUBSET LinkIds
      BY <2>2 DEF InvitesInv, WorkerSane, Busy
    <3>4. message' \in [JobIds -> SUBSET LinkIds]
      BY <1>0, <2>2, <3>1, <3>3
    <3>5. Good(db, Len(link), [message EXCEPT ![j] = worker.links], uses)
      BY <1>0, <3>1, GoodMessage
    <3>6. ASSUME holder # "worker"
          PROVE  Good(work, Len(link), [message EXCEPT ![j] = worker.links], uses)
      <4>1. j \in DOMAIN work.jobs /\ work.jobs[j].status = "pending"
        BY <3>1, <3>6 DEF InvitesInv, Tables
      <4> QED BY <1>0, <3>1, <4>1, GoodMessage
    <3> QED BY <2>2, <3>1, <3>2, <3>4, <3>5, <3>6
  <2> QED BY <2>1, <2>2 DEF InvitesAbort
<1>2. Tables' /\ db' = db /\ (holder # "worker" => UNCHANGED <<work, holder>>)
  BY <1>1, UndoTables DEF InvitesAbort
<1>3. WorkerSane'
  BY <1>2, WorkerOn DEF InvitesAbort
<1> QED BY <1>1, <1>2, <1>3, WorkerStep DEF InvitesAbort

\* A transaction ends.
LEMMA FinishTables ==
  ASSUME InvitesInv, NEW h \in {"worker", "hook", "revoker"}, Finish(h),
         UNCHANGED <<link, message, uses>>
  PROVE  /\ Tables' /\ DOMAIN db'.jobs = DOMAIN db.jobs
         /\ h # "worker" => db'.jobs = db.jobs
         /\ holder # h => UNCHANGED <<db, work, holder>>
BY DEF InvitesInv, Tables, Finish, Commit

LEMMA FinishInvitesStep ==
  ASSUME InvitesInv, FinishInvites
  PROVE  InvitesInv'
<1>1. LinksGrow /\ message' \in [JobIds -> SUBSET LinkIds]
  BY SameLinks DEF FinishInvites, InvitesInv, Ghosts, telegram, ghosts
<1>2. Tables' /\ (holder # "worker" => UNCHANGED <<db, work, holder>>)
  BY FinishTables DEF FinishInvites, telegram, ghosts
<1>3. WorkerSane'
  BY DEF FinishInvites, Resting, WorkerSane
<1> QED BY <1>1, <1>2, <1>3, WorkerStep DEF FinishInvites, telegram, ghosts

---------------------------------------------------------------------------
(* The webhook.                                                            *)

\* A step of the webhook, once its own part is shown.
LEMMA HookStep ==
  ASSUME InvitesInv, UNCHANGED <<worker, revoker, admin, link, requests, message, crashes>>,
         Tables', HookSane', Ghosts',
         member' \in [Places -> SUBSET People], waiting' \in [Places -> SUBSET People],
         queue' \subseteq queue,
         DOMAIN db'.jobs = DOMAIN db.jobs,
         \A j \in DOMAIN db.jobs : db'.jobs[j] = db.jobs[j],
         holder = "worker" => holder' = "worker" /\ work' = work
  PROVE  InvitesInv'
<1>1. LinksGrow
  BY SameLinks DEF InvitesInv
<1>2. Telegram' /\ RevokerSane' /\ AdminSane'
  BY <1>1, RestKept DEF InvitesInv, Telegram
<1>3. WorkerSane'
  BY <1>1, WorkerKept
<1> QED BY <1>2, <1>3 DEF InvitesInv

LEMMA TakeRequestStep ==
  ASSUME InvitesInv, NEW i \in UpdateIds, TakeRequest(i)
  PROVE  InvitesInv'
<1>1. /\ holder = "none" /\ work = db /\ Good(db, Len(link), message, uses)
      /\ i \in queue /\ Write("hook", WithClaim(db, i)) /\ UNCHANGED <<link, message, uses>>
  BY DEF TakeRequest, Checked, Claimed, WithClaim, InvitesInv, Tables, telegram, ghosts
<1>2. PICK v : v = db
  OBVIOUS
<1>3. PICK n, m, us : n = Len(link) /\ m = message /\ us = uses
  OBVIOUS
<1>4. /\ Good(WithClaim(v, i), n, m, us) /\ WithClaim(v, i).jobs = v.jobs
      /\ WithClaim(v, i).invites = v.invites /\ WithClaim(v, i).user = v.user
  BY <1>1, <1>2, <1>3, GoodSet
<1>5. Tables' /\ db' = db /\ work' = WithClaim(v, i) /\ holder' = "hook"
  BY <1>1, <1>2, <1>3, <1>4, WriteTables
<1>6. HookSane'
  <2> DEFINE r == requests[i]
  <2>1. /\ hook'.pc \in {"approving", "declining"} /\ hook'.update = i /\ i \in queue'
        /\ hook'.pc = "approving" => Honoured(db, i)
    BY DEF TakeRequest, Checked, telegram
  <2>2. requests' = requests /\ link' = link
    BY DEF TakeRequest, Checked, telegram
  <2>3. ASSUME Honoured(db, i)
        PROVE  /\ work'.invites[r.link] = "pending" /\ r.user = link[r.link].owner
               /\ db'.user[r.user].override # "deny"
    <3>1. /\ db.invites[r.link] = "pending" /\ r.user = link[r.link].owner
          /\ db.user[r.user].override # "deny"
      BY <2>3 DEF Honoured, Active, EffectiveAccess
    <3> QED BY <1>2, <1>4, <1>5, <3>1
  <2>4. requests'[hook'.update] = r /\ link'[r.link] = link[r.link]
    BY <2>1, <2>2
  <2> HIDE DEF r
  <2> QED BY <1>5, <2>1, <2>3, <2>4 DEF HookSane
<1>7. Ghosts'
  BY <1>1 DEF TakeRequest, Checked, InvitesInv, Ghosts, RecordedOnce
<1> QED BY <1>1, <1>5, <1>6, <1>7, HookStep
    DEF TakeRequest, Checked, telegram, ghosts, InvitesInv, Telegram
\* The request that is answered.
LEMMA Answered ==
  ASSUME InvitesInv, hook.pc # "idle"
  PROVE  /\ hook.update \in 1..Len(requests) /\ hook.update \in queue /\ holder = "hook"
         /\ requests[hook.update].link \in 1..Len(link)
         /\ requests[hook.update].link \in LinkIds
         /\ Asker \in People /\ Door \in Places
         /\ Visible("hook") = work /\ work.jobs = db.jobs
<1>1. hook.update \in 1..Len(requests) /\ hook.update \in queue /\ holder = "hook"
  BY DEF InvitesInv, HookSane, Telegram
<1>2. requests[hook.update].link \in 1..Len(link)
  BY <1>1 DEF InvitesInv, Telegram
<1>3. requests[hook.update] \in [user : People, link : LinkIds]
  BY <1>1, LinksTyped DEF InvitesInv
<1>4. link[requests[hook.update].link] \in Link
  BY <1>2, LinksTyped DEF InvitesInv
<1>5. Visible("hook") = work /\ work.jobs = db.jobs
  BY <1>1 DEF Visible, InvitesInv, Tables
<1> QED BY <1>1, <1>2, <1>3, <1>4, <1>5 DEF Asker, Door, Link

LEMMA PeopleMove ==
  ASSUME InvitesInv, hook.pc # "idle", Enter \/ TurnAway \/ UNCHANGED <<waiting, member>>
  PROVE  member' \in [Places -> SUBSET People] /\ waiting' \in [Places -> SUBSET People]
<1>1. member \in [Places -> SUBSET People] /\ waiting \in [Places -> SUBSET People]
  BY DEF InvitesInv, Telegram
<1>2. \A d, p : p \in People => /\ [waiting EXCEPT ![d] = @ \ {p}] \in [Places -> SUBSET People]
                                /\ [member EXCEPT ![d] = @ \cup {p}] \in [Places -> SUBSET People]
  BY <1>1
<1> QED BY <1>1, <1>2, Answered DEF Enter, TurnAway

LEMMA ApproveStep ==
  ASSUME InvitesInv, Approve
  PROVE  InvitesInv'
<1>1. PICK l \in LinkIds : l = requests[hook.update].link /\ l \in 1..Len(link)
  BY Answered DEF Approve
<1>2. /\ Good(work, Len(link), message, uses) /\ work.invites[l] = "pending"
      /\ Len(link) \in Nat /\ l <= Len(link) /\ uses \in [LinkIds -> Nat]
      /\ holder = "hook" /\ Visible("hook") = work /\ work.jobs = db.jobs
  BY <1>1, Answered, LinksTyped DEF Approve, InvitesInv, HookSane, Tables, Ghosts
<1>3. PICK v, n, m, us : v = work /\ n = Len(link) /\ m = message /\ us = uses
  OBVIOUS
<1>4. /\ Good(WithRow(v, l, "used"), n, m, us) /\ WithRow(v, l, "used").jobs = v.jobs
      /\ WithRow(v, l, "used").invites[l] = "used"
  <2>1. Good(v, n, m, us) /\ n \in Nat /\ l <= n /\ n <= n /\ us \in [LinkIds -> Nat]
    BY <1>2, <1>3
  <2>2. "used" \in InviteStatus
    BY DEF InviteStatus
  <2> QED BY <2>1, <2>2, GoodRow
<1>5. Good(WithRow(v, l, "used"), n, m, [us EXCEPT ![l] = @ + 1])
  BY <1>2, <1>3, <1>4, GoodUse
<1>6. /\ Commit(WithRow(v, l, "used")) /\ uses' = [us EXCEPT ![l] = @ + 1]
      /\ link' = link /\ message' = m
  BY <1>1, <1>2, <1>3 DEF Approve, WithRow
<1>7. Tables' /\ db' = WithRow(v, l, "used")
  BY <1>3, <1>5, <1>6, CommitTables DEF Commit
<1>8. Ghosts'
  <2>1. ~(uses[l] > 0) /\ uses[l] \in Nat
    BY <1>2 DEF Good
  <2>2. uses[l] = 0
    BY <2>1
  <2>3. uses' \in [LinkIds -> Nat] /\ \A i \in LinkIds : uses'[i] <= 1
    BY <1>2, <1>3, <1>6, <2>2 DEF InvitesInv, Ghosts, RecordedOnce
  <2> QED BY <1>3, <1>6, <2>3 DEF Approve, InvitesInv, Ghosts, RecordedOnce
<1>9. HookSane' /\ queue' \subseteq queue
  BY DEF Approve, Silent, HookSane, Acknowledged
<1>10. member' \in [Places -> SUBSET People] /\ waiting' \in [Places -> SUBSET People]
  BY PeopleMove DEF Approve
<1> QED BY <1>2, <1>3, <1>4, <1>7, <1>8, <1>9, <1>10, HookStep DEF Approve

LEMMA DeclineStep ==
  ASSUME InvitesInv, Decline
  PROVE  InvitesInv'
<1>1. PICK l \in LinkIds : l = requests[hook.update].link /\ l \in 1..Len(link)
  BY Answered DEF Decline
<1>2. /\ Good(work, Len(link), message, uses)
      /\ Len(link) \in Nat /\ l <= Len(link) /\ uses \in [LinkIds -> Nat]
      /\ holder = "hook" /\ Visible("hook") = work /\ work.jobs = db.jobs
  BY <1>1, Answered, LinksTyped DEF Decline, InvitesInv, Tables, Ghosts
<1>3. PICK v, n, m, us : v = work /\ n = Len(link) /\ m = message /\ us = uses
  OBVIOUS
<1>4. PICK s : s = IF v.invites[l] = "pending" THEN "expired" ELSE v.invites[l]
  OBVIOUS
<1>5. Good(WithRow(v, l, s), n, m, us) /\ WithRow(v, l, s).jobs = v.jobs
  <2>1. Good(v, n, m, us) /\ n \in Nat /\ l <= n /\ n <= n /\ us \in [LinkIds -> Nat]
    BY <1>2, <1>3
  <2>2. s \in InviteStatus /\ (s = v.invites[l] \/ s = "expired")
    BY <1>4, <2>1 DEF InviteStatus, Good, Database
  <2> QED BY <2>1, <2>2, GoodRow
<1>6. Commit(WithRow(v, l, s)) /\ link' = link /\ message' = m /\ uses' = us
  BY <1>1, <1>2, <1>3, <1>4 DEF Decline, WithRow, ghosts
<1>7. Tables' /\ db' = WithRow(v, l, s)
  BY <1>3, <1>5, <1>6, CommitTables DEF Commit
<1>8. Ghosts'
  BY DEF Decline, ghosts, InvitesInv, Ghosts, RecordedOnce
<1>9. HookSane' /\ queue' \subseteq queue
  BY DEF Decline, Silent, HookSane, Acknowledged
<1>10. member' \in [Places -> SUBSET People] /\ waiting' \in [Places -> SUBSET People]
  BY PeopleMove DEF Decline
<1> QED BY <1>2, <1>3, <1>5, <1>7, <1>8, <1>9, <1>10, HookStep DEF Decline, ghosts

LEMMA AnswerFailsStep ==
  ASSUME InvitesInv, AnswerFails
  PROVE  InvitesInv'
<1>1. hook.pc # "idle" /\ holder = "hook"
  BY Answered DEF AnswerFails
<1>2. Tables' /\ db' = db
  BY <1>1, UndoTables DEF AnswerFails, ghosts, InvitesInv, Tables
<1>3. Ghosts'
  BY DEF AnswerFails, ghosts, InvitesInv, Ghosts, RecordedOnce
<1>4. HookSane'
  BY DEF AnswerFails, Silent, HookSane
<1>5. member' \in [Places -> SUBSET People] /\ waiting' \in [Places -> SUBSET People]
  BY <1>1, PeopleMove DEF AnswerFails
<1> QED BY <1>1, <1>2, <1>3, <1>4, <1>5, HookStep DEF AnswerFails, ghosts

LEMMA DuplicateStep ==
  ASSUME InvitesInv, NEW i \in UpdateIds, Duplicate(i)
  PROVE  InvitesInv'
<1>1. Tables' /\ LinksGrow
  BY SameLinks, SameTables DEF Duplicate, ghosts, InvitesInv
<1>2. Ghosts'
  BY DEF Duplicate, ghosts, InvitesInv, Ghosts, RecordedOnce
<1>3. HookSane'
  BY DEF Duplicate, runs, HookSane
<1> QED BY <1>1, <1>2, <1>3, HookStep
    DEF Duplicate, runs, ghosts, ReadOnly, InvitesInv, Telegram
---------------------------------------------------------------------------
(* The revoking worker and the administrator's endpoint.                   *)

\* A step of the revoking worker, once its own part is shown.
LEMMA RevokerStep ==
  ASSUME InvitesInv, UNCHANGED <<worker, hook, admin, member, waiting, requests, queue,
                                 message, uses, crashes>>,
         LinksGrow, Tables', RevokerSane',
         DOMAIN db'.jobs = DOMAIN db.jobs,
         \A j \in DOMAIN db.jobs : db'.jobs[j] = db.jobs[j],
         holder \in {"worker", "hook"} => UNCHANGED <<db, work, holder>>
  PROVE  InvitesInv'
<1>1. Telegram' /\ SameRequests /\ AdminSane' /\ Ghosts'
  BY RestKept
<1>2. WorkerSane'
  BY WorkerKept
<1>3. HookSane'
  BY <1>1, HookKept DEF InvitesInv, HookSane
<1> QED BY <1>1, <1>2, <1>3 DEF InvitesInv

LEMMA StartRevokingStep ==
  ASSUME InvitesInv, StartRevoking
  PROVE  InvitesInv'
<1>1. Tables' /\ LinksGrow
  BY SameLinks, SameTables DEF StartRevoking, telegram, ghosts, InvitesInv
<1>2. RevokerSane'
  BY LinksTyped DEF StartRevoking, NextJob, telegram, RevokerSane, InvitesInv
<1> QED BY <1>1, <1>2, RevokerStep DEF StartRevoking, telegram, ghosts, ReadOnly

\* The revoking worker goes on to its next link, or rests.
LEMMA RevokerOn ==
  ASSUME InvitesInv, LinksGrow, NEW T, T \subseteq revoker.todo,
         revoker' = NextJob(T) \/ revoker' = Resting
  PROVE  RevokerSane'
<1>1. 1..Len(link) \subseteq 1..Len(link')
  BY LinksTyped, LenProperties DEF InvitesInv, LinksGrow
<1>2. revoker'.pc \in {"next", "idle"} /\ revoker'.todo \subseteq revoker.todo
  BY DEF NextJob, Resting
<1> QED BY <1>1, <1>2 DEF InvitesInv, RevokerSane

LEMMA NextLate ==
  ASSUME InvitesInv, revoker.todo # {}
  PROVE  Min(revoker.todo) \in revoker.todo /\ Min(revoker.todo) \in 1..Len(link)
<1>1. revoker.todo \subseteq 1..Len(link)
  BY DEF InvitesInv, RevokerSane
<1>2. revoker.todo \subseteq Nat
  BY <1>1
<1> QED BY <1>1, <1>2, LeastTaken

LEMMA RevokeLinkStep ==
  ASSUME InvitesInv, RevokeLink
  PROVE  InvitesInv'
<1>1. PICK l \in LinkIds : l = Min(revoker.todo) /\ l \in 1..Len(link)
  BY NextLate, LinksTyped DEF RevokeLink, InvitesInv
<1>2. LinksGrow /\ Len(link') = Len(link)
  BY <1>1, LinkSet DEF RevokeLink, LinkRevoked, InvitesInv
<1>3. /\ Good(work, Len(link), message, uses) /\ Good(db, Len(link), message, uses)
      /\ Len(link) \in Nat /\ l <= Len(link) /\ uses \in [LinkIds -> Nat]
      /\ Visible("revoker") = work /\ work.jobs = db.jobs
  BY <1>1, View, LinksTyped DEF RevokeLink, Write, InvitesInv, Tables, Ghosts
<1>4. PICK v, n, m, us : v = work /\ n = Len(link) /\ m = message /\ us = uses
  OBVIOUS
<1>5. Good(WithRow(v, l, "expired"), n, m, us) /\ WithRow(v, l, "expired").jobs = v.jobs
  <2>1. Good(v, n, m, us) /\ n \in Nat /\ l <= n /\ n <= n /\ us \in [LinkIds -> Nat]
    BY <1>3, <1>4
  <2>2. "expired" \in InviteStatus
    BY DEF InviteStatus
  <2> QED BY <2>1, <2>2, GoodRow
<1>6. Write("revoker", WithRow(v, l, "expired"))
  BY <1>1, <1>3, <1>4 DEF RevokeLink, WithRow
<1>7. Tables' /\ db' = db /\ holder \in {"none", "revoker"}
  BY <1>2, <1>3, <1>4, <1>5, <1>6, WriteTables DEF RevokeLink, LinkRevoked, ghosts
<1>8. RevokerSane'
  BY <1>2, RevokerOn DEF RevokeLink, LinkRevoked
<1> QED BY <1>2, <1>7, <1>8, RevokerStep DEF RevokeLink, LinkRevoked, ghosts

LEMMA RevokeRefusedStep ==
  ASSUME InvitesInv, RevokeRefused
  PROVE  InvitesInv'
<1>1. Tables' /\ LinksGrow
  BY SameLinks, SameTables DEF RevokeRefused, telegram, ghosts, InvitesInv
<1>2. RevokerSane'
  BY <1>1, RevokerOn DEF RevokeRefused
<1> QED BY <1>1, <1>2, RevokerStep DEF RevokeRefused, telegram, ghosts, ReadOnly

LEMMA RevokingAbortsStep ==
  ASSUME InvitesInv, RevokingAborts
  PROVE  InvitesInv'
<1>1. LinksGrow /\ Len(link') = Len(link)
  BY NextLate, LinkSet, SameLinks DEF RevokingAborts, InvitesInv
<1>2. Tables' /\ db' = db /\ (holder # "revoker" => UNCHANGED <<work, holder>>)
  BY <1>1, UndoTables DEF RevokingAborts, ghosts, InvitesInv, Tables
<1>3. RevokerSane'
  BY <1>1, RevokerOn DEF RevokingAborts
<1> QED BY <1>1, <1>2, <1>3, RevokerStep DEF RevokingAborts, ghosts

LEMMA FinishRevokingStep ==
  ASSUME InvitesInv, FinishRevoking
  PROVE  InvitesInv'
<1>1. LinksGrow
  BY SameLinks DEF FinishRevoking, telegram, InvitesInv
<1>2. /\ Tables' /\ db'.jobs = db.jobs
      /\ holder # "revoker" => UNCHANGED <<db, work, holder>>
  BY FinishTables DEF FinishRevoking, telegram, ghosts
<1>3. RevokerSane'
  BY <1>1, RevokerOn DEF FinishRevoking
<1> QED BY <1>1, <1>2, <1>3, RevokerStep DEF FinishRevoking, telegram, ghosts

\* Any other step: the lock is free, or the tables change as every reader sees.
LEMMA OtherStep ==
  ASSUME InvitesInv, UNCHANGED <<worker, hook, revoker, message, uses, crashes>>,
         LinksGrow, Tables', AdminSane', Telegram', SameRequests,
         hook.pc # "idle" => hook.update \in queue',
         DOMAIN db.jobs \subseteq DOMAIN db'.jobs,
         \A j \in DOMAIN db.jobs : db'.jobs[j] = db.jobs[j],
         holder # "none" => /\ holder' = holder /\ db'.user = db.user
                            /\ work'.invites = work.invites
  PROVE  InvitesInv'
<1>1. RevokerSane' /\ Ghosts'
  BY RestKept
<1>2. WorkerSane'
  BY WorkerKept
<1>3. HookSane'
  BY HookKept
<1> QED BY <1>1, <1>2, <1>3 DEF InvitesInv

LEMMA InviteMadeStep ==
  ASSUME InvitesInv, InviteMade
  PROVE  InvitesInv'
<1> DEFINE f == Fresh(admin.user, Chats[1], "admin", "sent")
<1>1. f \in Link
  <2>1. admin.user \in Users
    BY DEF InviteMade, InvitesInv, AdminSane
  <2>2. Chats[1] \in Places
    BY ChatsKnown DEF Places
  <2> QED BY <2>1, <2>2 DEF Fresh, Link
<1> HIDE DEF f
<1>2. /\ LinksGrow /\ Len(link') = NewLink /\ NewLink \in LinkIds
      /\ NewLink > Len(link)
  BY <1>1, LinkAdded DEF InviteMade, InvitesInv, f
<1>3. /\ Len(link) \in Nat /\ NewLink \in Nat /\ Len(link) <= NewLink
      /\ uses \in [LinkIds -> Nat] /\ Good(db, Len(link), message, uses)
  BY <1>2, LinksTyped DEF InvitesInv, NewLink, Ghosts, Tables
<1>4. PICK v, n, k, m, us : v = db /\ n = Len(link) /\ k = NewLink /\ m = message /\ us = uses
  OBVIOUS
<1>5. /\ Good(WithRow(v, k, "pending"), k, m, us) /\ WithRow(v, k, "pending").jobs = v.jobs
      /\ WithRow(v, k, "pending").user = v.user
  <2>1. /\ Good(v, n, m, us) /\ n \in Nat /\ k \in LinkIds /\ k \in Nat /\ n <= k /\ k > n
        /\ us \in [LinkIds -> Nat] /\ k <= k
    BY <1>2, <1>3, <1>4
  <2>2. "pending" \in InviteStatus
    BY DEF InviteStatus
  <2> QED BY <2>1, <2>2, GoodRow
<1>6. Commit(WithRow(v, k, "pending")) /\ holder = "none"
  BY <1>4 DEF InviteMade, OneStep, WithRow
<1>7. Tables' /\ db' = WithRow(v, k, "pending")
  BY <1>2, <1>4, <1>5, <1>6, CommitTables DEF InviteMade, ghosts, Commit
<1>8. Telegram' /\ SameRequests
  BY <1>2, RestKept DEF InviteMade
<1>9. AdminSane'
  BY DEF InviteMade, Silent, AdminSane
<1>10. hook.pc # "idle" => hook.update \in queue'
  BY DEF InviteMade, InvitesInv, HookSane
<1> QED BY <1>2, <1>4, <1>5, <1>6, <1>7, <1>8, <1>9, <1>10, OtherStep DEF InviteMade, ghosts

\* A step that leaves the tables, the links and the requests alone.
LEMMA QuietStep ==
  ASSUME InvitesInv, UNCHANGED <<worker, hook, revoker, message, uses, crashes,
                                 db, work, holder, link, requests>>,
         AdminSane', member' \in [Places -> SUBSET People], waiting' = waiting,
         queue' \subseteq queue, hook.pc # "idle" => hook.update \in queue'
  PROVE  InvitesInv'
<1>1. Tables' /\ LinksGrow
  BY SameLinks, SameTables DEF InvitesInv, ReadOnly
<1>2. Telegram' /\ SameRequests
  BY DEF InvitesInv, Telegram, SameRequests
<1> QED BY <1>1, <1>2, OtherStep

LEMMA EndpointStep ==
  ASSUME InvitesInv, Endpoint
  PROVE  InvitesInv'
<1>1. CASE InviteMade
  BY <1>1, InviteMadeStep
<1>2. ASSUME NEW u \in Users, AskInvite(u) PROVE InvitesInv'
  <2>1. AdminSane'
    BY <1>2 DEF AskInvite, AdminSane
  <2> QED BY <1>2, <2>1, QuietStep
      DEF AskInvite, ReadOnly, telegram, ghosts, InvitesInv, Telegram, HookSane
<1>3. CASE InviteFails
  <2>1. AdminSane'
    BY <1>3 DEF InviteFails, Silent, AdminSane
  <2> QED BY <1>3, <2>1, QuietStep
      DEF InviteFails, ReadOnly, telegram, ghosts, InvitesInv, Telegram, HookSane
<1> QED BY <1>1, <1>2, <1>3 DEF Endpoint
---------------------------------------------------------------------------
(* What else happens.                                                      *)

LEMMA QueueInviteStep ==
  ASSUME InvitesInv, NEW u \in Users, QueueInvite(u)
  PROVE  InvitesInv'
<1>1. PICK v, n, m, us : v = db /\ n = Len(link) /\ m = message /\ us = uses
  OBVIOUS
<1>2. /\ Good(WithNew(v, u), n, m, us) /\ DOMAIN v.jobs \subseteq DOMAIN WithNew(v, u).jobs
      /\ \A j \in DOMAIN v.jobs : WithNew(v, u).jobs[j] = v.jobs[j]
  <2>1. Good(v, n, m, us) /\ n \in Nat /\ Len(v.jobs) < MaxJobs
    BY <1>1, LinksTyped DEF QueueInvite, InvitesInv, Tables
  <2> QED BY <2>1, GoodJob
<1>3. Commit(WithNew(v, u)) /\ holder = "none"
  BY <1>1 DEF QueueInvite, OneStep, WithNew
<1>4. LinksGrow /\ Len(link') = Len(link)
  BY SameLinks DEF QueueInvite, telegram, InvitesInv
<1>5. Tables' /\ db' = WithNew(v, u)
  BY <1>1, <1>2, <1>3, CommitTables DEF QueueInvite, telegram, ghosts, Commit
<1>6. Telegram' /\ SameRequests /\ AdminSane'
  BY <1>4, RestKept DEF QueueInvite, telegram, runs
<1> QED BY <1>1, <1>2, <1>3, <1>4, <1>5, <1>6, OtherStep
    DEF QueueInvite, telegram, ghosts, runs, InvitesInv, HookSane

LEMMA DecideStep ==
  ASSUME InvitesInv, NEW u \in Users, Decide(u)
  PROVE  InvitesInv'
<1>1. PICK v, n, m, us : v = db /\ n = Len(link) /\ m = message /\ us = uses
  OBVIOUS
<1>2. PICK d \in {"allow", "deny"} : Commit(WithOverride(v, u, d)) /\ holder = "none"
  BY <1>1, DecisionsAssumption DEF Decide, OneStep, WithOverride
<1>3. Good(WithOverride(v, u, d), n, m, us) /\ WithOverride(v, u, d).jobs = v.jobs
  BY <1>1, GoodSet DEF InvitesInv, Tables
<1>4. LinksGrow /\ Len(link') = Len(link)
  BY SameLinks DEF Decide, telegram, InvitesInv
<1>5. Tables' /\ db' = WithOverride(v, u, d)
  BY <1>1, <1>2, <1>3, CommitTables DEF Decide, telegram, ghosts, Commit
<1>6. Telegram' /\ SameRequests /\ AdminSane'
  BY <1>4, RestKept DEF Decide, telegram, runs
<1> QED BY <1>1, <1>2, <1>3, <1>4, <1>5, <1>6, OtherStep
    DEF Decide, telegram, ghosts, runs, InvitesInv, HookSane

LEMMA PaidEndsStep ==
  ASSUME InvitesInv, NEW u \in Users, PaidEnds(u)
  PROVE  InvitesInv'
<1>1. PICK v, w, n, m, us : v = db /\ w = work /\ n = Len(link) /\ m = message /\ us = uses
  OBVIOUS
<1>2. /\ db' = WithoutPaid(v, u) /\ work' = WithoutPaid(w, u) /\ holder' = holder
      /\ UNCHANGED <<link, message, uses>>
  BY <1>1 DEF PaidEnds, WithoutPaid, telegram, ghosts
<1>3. /\ Good(WithoutPaid(v, u), n, m, us) /\ WithoutPaid(v, u).jobs = v.jobs
      /\ WithoutPaid(v, u).user = v.user
  BY <1>1, GoodSet DEF InvitesInv, Tables
<1>4. /\ Good(WithoutPaid(w, u), n, m, us) /\ WithoutPaid(w, u).jobs = w.jobs
      /\ WithoutPaid(w, u).invites = w.invites
  BY <1>1, GoodSet DEF InvitesInv, Tables
<1>5. Tables'
  BY <1>1, <1>2, <1>3, <1>4 DEF InvitesInv, Tables
<1>6. LinksGrow /\ Len(link') = Len(link)
  BY <1>2, SameLinks DEF InvitesInv
<1>7. Telegram' /\ SameRequests /\ AdminSane'
  BY <1>6, RestKept DEF PaidEnds, telegram, runs
<1> QED BY <1>1, <1>2, <1>3, <1>4, <1>5, <1>6, <1>7, OtherStep
    DEF PaidEnds, telegram, ghosts, runs, InvitesInv, HookSane

LEMMA RestoreLinkStep ==
  ASSUME InvitesInv, NEW u \in Users, RestoreLink(u)
  PROVE  InvitesInv'
<1> DEFINE f == Fresh(u, Chats[1], "restore", "sent")
<1>1. f \in Link
  BY ChatsKnown DEF Places, Fresh, Link
<1> HIDE DEF f
<1>2. LinksGrow
  BY <1>1, LinkAdded DEF RestoreLink, InvitesInv, f
<1>3. Tables'
  BY <1>2, SameTables DEF RestoreLink, ghosts
<1>4. Telegram' /\ SameRequests /\ AdminSane'
  BY <1>2, RestKept DEF RestoreLink, runs
<1> QED BY <1>2, <1>3, <1>4, OtherStep
    DEF RestoreLink, ghosts, runs, ReadOnly, InvitesInv, HookSane

LEMMA ExpireStep ==
  ASSUME InvitesInv, NEW l \in LinkIds, Expire(l)
  PROVE  InvitesInv'
<1>1. LinksGrow
  BY LinksTyped, LinkSet DEF Expire, InvitesInv
<1>2. Tables'
  BY <1>1, SameTables DEF Expire, ghosts
<1>3. Telegram' /\ SameRequests /\ AdminSane'
  BY <1>1, RestKept DEF Expire, runs
<1> QED BY <1>1, <1>2, <1>3, OtherStep
    DEF Expire, ghosts, runs, ReadOnly, InvitesInv, HookSane

LEMMA AskToJoinStep ==
  ASSUME InvitesInv, NEW p \in People, NEW l \in LinkIds, AskToJoin(p, l)
  PROVE  InvitesInv'
<1>1. LinksGrow /\ Tables'
  BY SameLinks, SameTables DEF AskToJoin, ghosts, InvitesInv
<1>2. l \in 1..Len(link) /\ link[l].chat \in Places /\ Len(requests) \in Nat
  BY LinksTyped DEF AskToJoin, InvitesInv, Link
<1>3. PICK r \in [user : People, link : LinkIds] : r = [user |-> p, link |-> l]
  OBVIOUS
<1>4. /\ requests' \in Seq([user : People, link : LinkIds])
      /\ Len(requests') = Len(requests) + 1 /\ requests'[Len(requests) + 1] = r
      /\ SameRequests
  BY <1>3, AppendProperties DEF AskToJoin, InvitesInv, Telegram, SameRequests
<1>5. ASSUME NEW i \in 1..Len(requests') PROVE requests'[i].link \in 1..Len(link')
  <2>1. CASE i = Len(requests) + 1
    BY <1>2, <1>3, <1>4, <2>1 DEF AskToJoin
  <2>2. CASE i # Len(requests) + 1
    <3>1. i \in 1..Len(requests)
      BY <1>2, <1>4, <2>2
    <3> QED BY <1>4, <3>1 DEF AskToJoin, SameRequests, InvitesInv, Telegram
  <2> QED BY <2>1, <2>2
<1>6. queue' \subseteq 1..Len(requests')
  <2>1. queue \subseteq 1..Len(requests) /\ queue' = queue \cup {Len(requests) + 1}
    BY DEF AskToJoin, InvitesInv, Telegram
  <2>2. PICK n \in Nat : n = Len(requests)
    BY <1>2
  <2>3. Len(requests') = n + 1 /\ 1..n \subseteq 1..(n + 1) /\ n + 1 \in 1..(n + 1)
    BY <1>4, <2>2
  <2> QED BY <2>1, <2>2, <2>3
<1>7. waiting' \in [Places -> SUBSET People]
  BY <1>2 DEF AskToJoin, InvitesInv, Telegram
<1>8. Telegram' /\ AdminSane'
  BY <1>4, <1>5, <1>6, <1>7 DEF AskToJoin, runs, InvitesInv, Telegram, AdminSane
<1> QED BY <1>1, <1>4, <1>8, OtherStep
    DEF AskToJoin, ghosts, runs, ReadOnly, InvitesInv, HookSane

LEMMA CrashStep ==
  ASSUME InvitesInv, Crash
  PROVE  InvitesInv'
<1>1. LinksGrow
  BY SameLinks DEF Crash, telegram, InvitesInv
<1>2. Tables'
  BY CommitTables DEF Crash, telegram, ghosts, InvitesInv, Tables
<1>3. Telegram'
  BY <1>1, RestKept DEF Crash, telegram
<1>4. Ghosts'
  BY BoundsAssumption DEF Crash, ghosts, InvitesInv, Ghosts, RecordedOnce
<1>5. WorkerSane' /\ HookSane' /\ RevokerSane' /\ AdminSane'
  BY DEF Crash, Resting, Silent, WorkerSane, HookSane, RevokerSane, AdminSane
<1> QED BY <1>2, <1>3, <1>4, <1>5 DEF InvitesInv

LEMMA WorldStep ==
  ASSUME InvitesInv, World
  PROVE  InvitesInv'
<1>1. ASSUME NEW u \in Users, QueueInvite(u) \/ Decide(u) \/ PaidEnds(u) \/ RestoreLink(u)
      PROVE  InvitesInv'
  BY <1>1, QueueInviteStep, DecideStep, PaidEndsStep, RestoreLinkStep
<1>2. ASSUME NEW l \in LinkIds, Expire(l) \/ \E p \in People : AskToJoin(p, l)
      PROVE  InvitesInv'
  BY <1>2, ExpireStep, AskToJoinStep
<1>3. ASSUME NEW c \in Places, NEW p \in People, Leave(c, p) PROVE InvitesInv'
  <2>1. member' \in [Places -> SUBSET People] /\ AdminSane'
    BY <1>3 DEF Leave, runs, InvitesInv, Telegram, AdminSane
  <2> QED BY <1>3, <2>1, QuietStep DEF Leave, runs, ghosts, ReadOnly, InvitesInv, HookSane
<1>4. ASSUME NEW i \in UpdateIds, Forget(i) PROVE InvitesInv'
  <2>1. member' \in [Places -> SUBSET People] /\ AdminSane'
    BY <1>4 DEF Forget, runs, InvitesInv, Telegram, AdminSane
  <2> QED BY <1>4, <2>1, QuietStep DEF Forget, runs, ghosts, ReadOnly, InvitesInv, HookSane
<1> QED BY <1>1, <1>2, <1>3, <1>4, CrashStep DEF World

---------------------------------------------------------------------------
(* The theorems.                                                           *)

LEMMA FirstTables ==
  ASSUME Init
  PROVE  InvitesInv
<1>1. << >> \in Seq(Job) /\ << >> \in Seq(Link) /\ Len(<< >>) = 0
      /\ << >> \in Seq([user : People, link : LinkIds])
  BY EmptySeq
<1>2. db \in Database /\ db.jobs = << >> /\ db.invites = [l \in LinkIds |-> "none"]
  <2>1. [u \in Users |-> [override |-> "none", whitelist |-> FALSE, banned |-> FALSE]]
          \in [Users -> Manual]
    BY DEF Manual, Overrides
  <2>2. [l \in LinkIds |-> "none"] \in [LinkIds -> InviteStatus]
    BY DEF InviteStatus
  <2> QED BY <1>1, <2>1, <2>2 DEF Init, Database
<1>3. {MaxJobs, MaxLinks, MaxRequests, MaxCrashes} \subseteq Nat
  BY BoundsAssumption
<1>4. DOMAIN db.jobs = {} /\ Len(db.jobs) <= MaxJobs /\ Len(link) = 0
  BY <1>1, <1>2, <1>3 DEF Init
<1>5. Good(db, Len(link), message, uses) /\ work = db
  BY <1>2, <1>4 DEF Init, Good
<1>6. Tables
  BY <1>5 DEF Init, Tables
<1>7. Telegram
  BY <1>1, <1>3 DEF Init, Telegram
<1>8. Ghosts
  BY <1>3 DEF Init, Ghosts, RecordedOnce
<1>9. WorkerSane /\ HookSane /\ RevokerSane /\ AdminSane
  BY DEF Init, Resting, Silent, WorkerSane, HookSane, RevokerSane, AdminSane
<1> QED BY <1>6, <1>7, <1>8, <1>9 DEF InvitesInv

LEMMA InvitesStep ==
  ASSUME InvitesInv, Next
  PROVE  InvitesInv'
<1>1. CASE InviteWorker
  BY <1>1, StartInvitesStep, TakeJobStep, AskMemberStep, CreateLinkStep, SendLinksStep,
     InviteRefusedStep, InvitesAbortStep, FinishInvitesStep DEF InviteWorker
<1>2. CASE Webhook
  BY <1>2, TakeRequestStep, DuplicateStep, ApproveStep, DeclineStep, AnswerFailsStep
     DEF Webhook
<1>3. CASE Revoker
  BY <1>3, StartRevokingStep, RevokeLinkStep, RevokeRefusedStep, RevokingAbortsStep,
     FinishRevokingStep DEF Revoker
<1> QED BY <1>1, <1>2, <1>3, EndpointStep, WorldStep DEF Next

LEMMA InvitesStutter ==
  ASSUME InvitesInv, UNCHANGED vars
  PROVE  InvitesInv'
BY DEF vars, telegram, runs, ghosts, InvitesInv, Tables, Good, Telegram, Ghosts,
       RecordedOnce, WorkerSane, HookSane, RevokerSane, AdminSane

\* What holds in every state of every run: committed and uncommitted rows agree
\* with Telegram's links, and each run's program counter with what it has read.
THEOREM InvitesInvariant == Spec => []InvitesInv
<1>1. InvitesInv /\ [Next]_vars => InvitesInv'
  BY InvitesStep, InvitesStutter
<1> QED BY FirstTables, <1>1, PTL DEF Spec

LEMMA InvTyped == InvitesInv => TypeOK
<1> SUFFICES ASSUME InvitesInv PROVE TypeOK
  OBVIOUS
<1>1. DOMAIN link = 1..Len(link) /\ DOMAIN requests = 1..Len(requests)
  BY LinksTyped DEF InvitesInv
<1>2. worker.todo \subseteq JobIds
  BY JobsKnown DEF InvitesInv, WorkerSane
<1>3. RunsTypeOK
  BY <1>1, <1>2 DEF InvitesInv, WorkerSane, HookSane, RevokerSane, AdminSane, Busy,
                    RunsTypeOK, Telegram
<1> QED BY <1>1, <1>3 DEF InvitesInv, Tables, Good, Telegram, Ghosts, TypeOK

\* The tables, the runs and Telegram's side keep their types.
THEOREM InvitesTypeOK == Spec => []TypeOK
BY InvitesInvariant, InvTyped, PTL

\* A job that is done left its owner links whose rows were written.
THEOREM DoneJobsLinksAreKnown == Spec => []DoneJobLinksKnown
<1>1. InvitesInv => DoneJobLinksKnown
  BY DEF InvitesInv, Tables, Good, DoneJobLinksKnown
<1> QED BY InvitesInvariant, <1>1, PTL

\* Somebody enters a chat only in a step of the webhook that approves a request.
LEMMA EnteringApproves ==
  ASSUME InvitesInv, [Next]_vars, NEW c \in Places, NEW p \in People, Enters(c, p)
  PROVE  hook.pc = "approving" /\ p = Asker /\ c = Door
<1>1. member' # member
  BY DEF Enters
<1>2. ~(\E d \in Places, q \in People : Leave(d, q))
  BY DEF Leave, Enters, InvitesInv, Telegram
<1>3. Approve \/ AnswerFails
  BY <1>1, <1>2 DEF Next, vars, telegram, InviteWorker, Webhook, Revoker, Endpoint, World,
    StartInvites, TakeJob, AskMember, CreateLink, LinkMade, SendLinks, InviteRefused,
    InvitesAbort, FinishInvites, TakeRequest, Checked, Duplicate, Decline, TurnAway,
    StartRevoking, RevokeLink, LinkRevoked, RevokeRefused, RevokingAborts, FinishRevoking,
    AskInvite, InviteMade, InviteFails, QueueInvite, Decide, PaidEnds, RestoreLink, Expire,
    AskToJoin, Forget, Crash
<1>4. hook.pc = "approving" /\ Enter
  BY <1>1, <1>3 DEF Approve, AnswerFails, TurnAway
<1>5. member \in [Places -> SUBSET People]
  BY DEF InvitesInv, Telegram
<1> QED BY <1>4, <1>5 DEF Enter, Enters

\* The bot admits a person to a chat only upon a request made with a link to
\* that chat made for this person.
THEOREM OwnersAloneEnter == Spec => OnlyOwnersEnter
<1>1. ASSUME InvitesInv, [Next]_vars, NEW c \in Places, NEW p \in People, Enters(c, p)
      PROVE  \E i \in queue : /\ requests[i].user = p /\ link[requests[i].link].owner = p
                              /\ link[requests[i].link].chat = c
  <2>1. hook.pc = "approving" /\ p = Asker /\ c = Door
    BY <1>1, EnteringApproves
  <2>2. hook.update \in queue /\ Asker = link[requests[hook.update].link].owner
    BY <1>1, <2>1 DEF InvitesInv, HookSane, Asker
  <2> QED BY <2>1, <2>2 DEF Asker, Door
<1>2. InvitesInv /\ [Next]_vars =>
        [\A c \in Places, p \in People : Enters(c, p) =>
           \E i \in queue : /\ requests[i].user = p
                            /\ link[requests[i].link].owner = p
                            /\ link[requests[i].link].chat = c]_vars
  BY <1>1
<1> QED BY InvitesInvariant, <1>2, PTL DEF Spec, OnlyOwnersEnter

\* Once the use of a link is on record, nobody enters through it again.
THEOREM UsedLinksAreSpent == Spec => UsedLinkIsSpent
<1>1. ASSUME InvitesInv, [Next]_vars, NEW c \in Places, NEW p \in People, Enters(c, p)
      PROVE  hook.pc = "approving" /\ uses[requests[hook.update].link] = 0
  <2> DEFINE l == requests[hook.update].link
  <2>1. hook.pc = "approving"
    BY <1>1, EnteringApproves
  <2>2. work.invites[l] = "pending" /\ l \in 1..Len(link)
    BY <1>1, <2>1, Answered DEF InvitesInv, HookSane
  <2>3. l \in LinkIds /\ uses \in [LinkIds -> Nat] /\ Good(work, Len(link), message, uses)
    BY <1>1, <2>2, LinksTyped DEF InvitesInv, Tables, Ghosts
  <2>4. ~(uses[l] > 0) /\ uses[l] \in Nat
    BY <2>2, <2>3 DEF Good
  <2> QED BY <2>1, <2>4
<1>2. InvitesInv /\ [Next]_vars =>
        [\A c \in Places, p \in People : Enters(c, p) =>
           hook.pc = "approving" /\ uses[requests[hook.update].link] = 0]_vars
  BY <1>1
<1> QED BY InvitesInvariant, <1>2, PTL DEF Spec, UsedLinkIsSpent

\* Nobody is let in after a deny was recorded.
THEOREM NobodyDeniedEnters == Spec => DeniedIsNotAdmitted
<1>1. ASSUME InvitesInv, [Next]_vars, NEW c \in Places, NEW u \in Users, Enters(c, u)
      PROVE  db.user[u].override # "deny"
  <2>1. hook.pc = "approving" /\ u = Asker
    BY <1>1, EnteringApproves DEF People
  <2> QED BY <1>1, <2>1 DEF InvitesInv, HookSane, Asker
<1>2. InvitesInv /\ [Next]_vars =>
        [\A c \in Places, u \in Users : Enters(c, u) => db.user[u].override # "deny"]_vars
  BY <1>1
<1> QED BY InvitesInvariant, <1>2, PTL DEF Spec, DeniedIsNotAdmitted
=============================================================================
