--------------------------- MODULE ResourcesProofs ---------------------------
(***************************************************************************)
(* Proofs about Resources, for any set of members, any commands and any    *)
(* number of jobs, updates and failures.                                   *)
(***************************************************************************)
EXTENDS Resources, SequenceTheorems, FiniteSetTheorems, WellFoundedInduction, TLAPS

\* The database as the hourly run sees it.
Current == Visible("run")
Rows(w) == Range(w.jobs)
Sound(w) == w \in Database /\ KeysDiffer(w)
SameRights(w, v) ==
  \A u \in Users : v.user[u].banned = w.user[u].banned /\ v.user[u].deny = w.user[u].deny

Tables ==
  /\ Sound(db) /\ Sound(work) /\ Rows(work) \subseteq Rows(db)
  /\ holder \in {"none", "run", "ask"}

Services ==
  /\ group \in [Users -> Membership] /\ updates \in [Users -> Seq(Membership)]
  /\ site \in [Users -> {"open", "blocked"}] /\ replay \subseteq 1 .. MaxPending
  /\ licence \in [Users -> {"active", "suspended"}]
  /\ seen \subseteq SeenRow /\ second \subseteq Users /\ silent \subseteq Users
  /\ failures \in 0 .. MaxFailures

\* What the holder of the lock has not committed yet takes away jobs and notes
\* an answer of Telegram or an account, and no more; nobody else has anything.
Locks ==
  /\ holder = "none" => work = db
  /\ holder = "run" => run.pc # "idle"
  /\ holder = "ask" => work.jobs = db.jobs
  /\ ask \in Ask /\ (ask.pc = "calling" <=> holder = "ask")
  /\ SameRights(db, work)

\* The jobs the run has still to end.
Calling == {"asking", "licences", "verifying", "wordpress"}
Clubs == {"club", "asking", "licences"}
Hand == run.todo \cup (IF run.pc \in Calling THEN {run.job} ELSE {})

RunKnown ==
  /\ run \in Run
  /\ run.pc \in Calling => run.job \notin run.todo
  /\ run.pc # "idle" =>
       /\ Hand \subseteq Ids(Current)
       /\ \A j \in Rows(Current) : j.id \in Hand =>
            (j.kind = "club" <=> run.pc \in Clubs)

Typed == Tables /\ Services /\ Locks /\ RunKnown

\* Whoever is about to open something for a member, unless overtaken while
\* asking, holds the lock, and the member is not barred.
Granted ==
  /\ \A j \in Rows(Current) :
       \/ run.pc = "licences" /\ j.id = run.job /\ run.allowed /\ ~run.late
       \/ /\ run.pc = "wordpress" /\ j.id = run.job /\ ~j.manual
          /\ j.kind # "deactivate" /\ ~run.late
       => holder = "run" /\ ~Barred(db.user[j.user])
  /\ ask.pc = "calling" => ~Barred(db.user[ask.user])

Right(u) == Allowed(db, u)
ClubJob(j, u) == j.kind = "club" /\ j.user = u

\* Whatever changed a member's right is still on its way to the licences: as an
\* update, as a job, or as the call that is being made.
Settled(u, w) ==
  \/ updates[u] # << >>
  \/ \E j \in Rows(w) : ClubJob(j, u)
  \/ licence[u] = "active" <=> Right(u)
Owed == \A u \in Users \ silent : Settled(u, db) /\ Settled(u, Current)

\* What the run has read, or been told by Telegram, still decides the right.
Told(u) ==
  \/ run.pc = "asking" /\ (group[u] = "in" => Right(u))
  \/ run.pc = "licences" /\ (run.allowed <=> Right(u))
\* If not, what changed it is on its way as another job.
Answering ==
  run.pc \in {"asking", "licences"} =>
    \A j \in Rows(Current) : j.id = run.job /\ j.user \notin silent =>
      \/ updates[j.user] # << >>
      \/ \E k \in Rows(Current) : k.id # run.job /\ ClubJob(k, j.user)
      \/ Told(j.user)

ResourcesInv == Typed /\ Granted /\ Owed /\ Answering

---------------------------------------------------------------------------
(* Tables of jobs. *)

\* v has the rows of w, and others with keys of their own.
Grown(w, v) ==
  /\ Sound(v) /\ Rows(w) \subseteq Rows(v)
  /\ \A j \in Rows(v) : j \in Rows(w) \/ j.id \notin Ids(w)

\* v has the rows of w but the one with the key n.
Shrunk(w, v, n) == Sound(v) /\ Rows(v) = {j \in Rows(w) : j.id # n}

LEMMA LeastOf ==
  ASSUME NEW S, S \subseteq Nat, S # {}
  PROVE  Min(S) \in S
<1> DEFINE R == {ss \in Nat \X Nat : ss[1] < ss[2]}
<1>1. R = OpToRel(<, Nat)
  BY DEF OpToRel
<1>2. IsWellFoundedOn(R, Nat)
  BY <1>1, NatLessThanWellFounded
<1>3. PICK x \in S : \A y \in S : ~(<<y, x>> \in R)
  <2> HIDE DEF R
  <2> QED BY <1>2, WFMin
<1>4. ASSUME NEW y \in S PROVE x <= y
  <2>1. x \in Nat /\ y \in Nat
    OBVIOUS
  <2>2. ~(y < x)
    BY <1>3, <2>1
  <2> QED BY <2>1, <2>2
<1> QED BY <1>4 DEF Min

LEMMA JobList ==
  ASSUME NEW w \in Database
  PROVE  /\ w.jobs \in Seq(Job) /\ Len(w.jobs) \in Nat /\ DOMAIN w.jobs = 1 .. Len(w.jobs)
         /\ \A i \in DOMAIN w.jobs : w.jobs[i] \in Job /\ w.jobs[i].id \in 1 .. MaxPending
         /\ Rows(w) = {w.jobs[i] : i \in DOMAIN w.jobs}
         /\ Rows(w) \subseteq Job
         /\ Ids(w) = {j.id : j \in Rows(w)}
         /\ Ids(w) \subseteq 1 .. MaxPending
<1>1. w.jobs \in Seq(Job)
  BY DEF Database
<1>2. Len(w.jobs) \in Nat /\ DOMAIN w.jobs = 1 .. Len(w.jobs)
  BY <1>1
<1>3. ASSUME NEW i \in DOMAIN w.jobs PROVE w.jobs[i] \in Job /\ w.jobs[i].id \in 1 .. MaxPending
  <2>1. w.jobs[i] \in Job
    BY <1>1, <1>2, ElementOfSeq
  <2> QED BY <2>1 DEF Job
<1>4. Rows(w) = {w.jobs[i] : i \in DOMAIN w.jobs}
  BY DEF Rows, Range
<1>5. Ids(w) = {j.id : j \in Rows(w)}
  BY <1>4 DEF Ids
<1> QED BY <1>1, <1>2, <1>3, <1>4, <1>5

\* The key tells the row.
LEMMA KeyTellsRow ==
  ASSUME NEW w, Sound(w), NEW j \in Rows(w), NEW k \in Rows(w), j.id = k.id
  PROVE  j = k
BY DEF Sound, KeysDiffer, Rows, Range

\* The row the run takes next is one of those that are left.
LEMMA FirstOf ==
  ASSUME NEW w, Sound(w), NEW ids, ids \cap Ids(w) # {}
  PROVE  /\ Place(w, ids) \in DOMAIN w.jobs
         /\ First(w, ids) \in Rows(w) /\ First(w, ids).id \in ids
         /\ First(w, ids) = w.jobs[Place(w, ids)]
<1>1. {i \in DOMAIN w.jobs : w.jobs[i].id \in ids} # {}
  BY DEF Ids
<1>2. {i \in DOMAIN w.jobs : w.jobs[i].id \in ids} \subseteq Nat
  BY JobList DEF Sound
<1>3. Place(w, ids) \in {i \in DOMAIN w.jobs : w.jobs[i].id \in ids}
  BY <1>1, <1>2, LeastOf DEF Place
<1> QED BY <1>3 DEF First, Rows, Range

\* The row with a key.
LEMMA RowOf ==
  ASSUME NEW w, Sound(w), NEW n \in Ids(w)
  PROVE  /\ First(w, {n}) \in Rows(w) /\ First(w, {n}).id = n
         /\ \A j \in Rows(w) : j.id = n => j = First(w, {n})
<1>1. First(w, {n}) \in Rows(w) /\ First(w, {n}).id \in {n}
  BY FirstOf
<1> QED BY <1>1, KeyTellsRow

\* There is a key for one more row.
LEMMA FreeKey ==
  ASSUME NEW w \in Database, Room(w, 1)
  PROVE  (1 .. MaxPending) \ Ids(w) # {}
<1>1. /\ Len(w.jobs) \in Nat /\ DOMAIN w.jobs = 1 .. Len(w.jobs)
      /\ \A i \in DOMAIN w.jobs : w.jobs[i].id \in 1 .. MaxPending
  BY JobList
<1>2. MaxPending \in Nat
  BY BoundsAssumption
<1>3. Len(w.jobs) < MaxPending
  BY <1>1, <1>2 DEF Room
<1>4. SUFFICES ASSUME 1 .. MaxPending \subseteq Ids(w) PROVE FALSE
  OBVIOUS
<1> DEFINE at == [n \in 1 .. MaxPending |-> CHOOSE i \in 1 .. Len(w.jobs) : w.jobs[i].id = n]
<1>5. ASSUME NEW n \in 1 .. MaxPending
      PROVE  at[n] \in 1 .. Len(w.jobs) /\ w.jobs[at[n]].id = n
  <2>1. \E i \in 1 .. Len(w.jobs) : w.jobs[i].id = n
    BY <1>1, <1>4 DEF Ids
  <2> QED BY <2>1
<1>6. at \in [1 .. MaxPending -> 1 .. Len(w.jobs)]
  BY <1>5
<1>7. /\ IsFiniteSet(1 .. MaxPending) /\ Cardinality(1 .. MaxPending) = MaxPending
      /\ IsFiniteSet(1 .. Len(w.jobs)) /\ Cardinality(1 .. Len(w.jobs)) = Len(w.jobs)
  <2>1. 1 \in Int /\ MaxPending \in Int /\ Len(w.jobs) \in Int
    BY <1>1, <1>2
  <2>2. /\ IsFiniteSet(1 .. MaxPending) /\ IsFiniteSet(1 .. Len(w.jobs))
        /\ Cardinality(1 .. MaxPending) = IF 1 > MaxPending THEN 0 ELSE MaxPending - 1 + 1
        /\ Cardinality(1 .. Len(w.jobs)) = IF 1 > Len(w.jobs) THEN 0 ELSE Len(w.jobs) - 1 + 1
    BY <2>1, FS_Interval
  <2> QED BY <1>1, <1>2, <2>2
<1>8. PICK x, y \in 1 .. MaxPending : x # y /\ at[x] = at[y]
  <2> HIDE DEF at
  <2>1. Cardinality(1 .. Len(w.jobs)) < Cardinality(1 .. MaxPending)
    BY <1>3, <1>7
  <2> QED BY <1>6, <1>7, <2>1, FS_PigeonHole
<1> QED BY <1>5, <1>8

\* A job is queued: one more row.
LEMMA QueuedRow ==
  ASSUME NEW w, Sound(w), Room(w, 1), NEW kind \in Kind, NEW u \in Users, NEW manual \in BOOLEAN
  PROVE  /\ Grown(w, Queued(w, kind, u, manual))
         /\ Queued(w, kind, u, manual).user = w.user
         /\ Len(Queued(w, kind, u, manual).jobs) = Len(w.jobs) + 1
         /\ \E j \in Rows(Queued(w, kind, u, manual)) :
              j.id \notin Ids(w) /\ j.kind = kind /\ j.user = u
<1> DEFINE n == Min((1 .. MaxPending) \ Ids(w))
           job == [id |-> n, kind |-> kind, user |-> u, manual |-> manual]
           v == Queued(w, kind, u, manual)
<1>1. w \in Database /\ KeysDiffer(w)
  BY DEF Sound
<1>2. n \in (1 .. MaxPending) \ Ids(w)
  BY <1>1, FreeKey, LeastOf
<1>3. job \in Job
  <2> HIDE DEF n
  <2> QED BY <1>2 DEF Job
<1>4. w.jobs \in Seq(Job) /\ w.user \in [Users -> UserRow]
      /\ w = [user |-> w.user, jobs |-> w.jobs]
  BY <1>1 DEF Database
<1>5. v = [user |-> w.user, jobs |-> Append(w.jobs, job)]
  BY <1>4 DEF Queued
<1> HIDE DEF n
<1>6. /\ v.jobs \in Seq(Job) /\ Len(v.jobs) = Len(w.jobs) + 1
      /\ \A i \in 1 .. Len(w.jobs) : v.jobs[i] = w.jobs[i]
      /\ v.jobs[Len(w.jobs) + 1] = job
  BY <1>3, <1>4, <1>5, AppendProperties
<1>7. /\ Len(w.jobs) \in Nat /\ DOMAIN w.jobs = 1 .. Len(w.jobs)
      /\ DOMAIN v.jobs = 1 .. (Len(w.jobs) + 1)
  BY <1>4, <1>6
<1>8. v \in Database /\ v.user = w.user
  BY <1>4, <1>5, <1>6 DEF Database
<1>9. job.id = n /\ job.kind = kind /\ job.user = u
  OBVIOUS
<1> HIDE DEF v, job
<1>10. Rows(v) = Rows(w) \cup {job}
  <2>1. ASSUME NEW i \in DOMAIN v.jobs PROVE v.jobs[i] \in Rows(w) \cup {job}
    <3>1. i \in DOMAIN w.jobs \/ i = Len(w.jobs) + 1
      BY <1>7
    <3> QED BY <1>6, <1>7, <3>1 DEF Rows, Range
  <2>2. ASSUME NEW i \in DOMAIN w.jobs PROVE w.jobs[i] \in Rows(v)
    <3>1. i \in DOMAIN v.jobs /\ v.jobs[i] = w.jobs[i]
      BY <1>6, <1>7
    <3> QED BY <3>1 DEF Rows, Range
  <2>3. job \in Rows(v)
    <3>1. Len(w.jobs) + 1 \in DOMAIN v.jobs
      BY <1>7
    <3> QED BY <1>6, <3>1 DEF Rows, Range
  <2> QED BY <2>1, <2>2, <2>3 DEF Rows, Range
<1>11. KeysDiffer(v)
  <2>1. \A i \in 1 .. Len(w.jobs) : v.jobs[i].id \in Ids(w) /\ v.jobs[i] = w.jobs[i]
    BY <1>6, <1>7 DEF Ids
  <2> SUFFICES ASSUME NEW i \in DOMAIN v.jobs, NEW k \in DOMAIN v.jobs,
                      v.jobs[i].id = v.jobs[k].id
               PROVE  i = k
    BY DEF KeysDiffer
  <2>2. /\ i \in 1 .. Len(w.jobs) \/ i = Len(w.jobs) + 1
        /\ k \in 1 .. Len(w.jobs) \/ k = Len(w.jobs) + 1
    BY <1>7
  <2>3. v.jobs[Len(w.jobs) + 1].id \notin Ids(w)
    BY <1>2, <1>6, <1>9
  <2>4. CASE i \in 1 .. Len(w.jobs) /\ k \in 1 .. Len(w.jobs)
    BY <1>1, <1>7, <2>1, <2>4 DEF KeysDiffer
  <2> QED BY <2>1, <2>2, <2>3, <2>4
<1>12. Grown(w, v)
  BY <1>2, <1>8, <1>9, <1>10, <1>11 DEF Grown, Sound
<1> QED BY <1>2, <1>6, <1>8, <1>9, <1>10, <1>12 DEF v, job

Without(s, i) == SubSeq(s, 1, i - 1) \o SubSeq(s, i + 1, Len(s))

\* Taking the i-th out of a list leaves the others.
LEMMA TakenOut ==
  ASSUME NEW S, NEW s \in Seq(S), NEW i \in DOMAIN s, NEW t,
         t = Without(s, i)
  PROVE  /\ t \in Seq(S) /\ DOMAIN t = 1 .. (Len(s) - 1)
         /\ \A k \in 1 .. (i - 1) : t[k] = s[k]
         /\ \A k \in i .. (Len(s) - 1) : t[k] = s[k + 1]
<1>1. i \in 1 .. Len(s) /\ Len(s) \in Nat /\ DOMAIN s = 1 .. Len(s)
  OBVIOUS
<1>2. /\ \A k \in 1 .. (i - 1) : s[k] \in S
      /\ \A k \in (i + 1) .. Len(s) : s[k] \in S
  BY <1>1, ElementOfSeq
<1>3. PICK a : a = SubSeq(s, 1, i - 1)
  OBVIOUS
<1>4. PICK b : b = SubSeq(s, i + 1, Len(s))
  OBVIOUS
<1>5. /\ a \in Seq(S) /\ Len(a) = i - 1
      /\ \A k \in 1 .. (i - 1) : a[k] = s[k]
  BY <1>1, <1>2, <1>3, SubSeqProperties
<1>6. /\ b \in Seq(S) /\ Len(b) = Len(s) - i
      /\ \A k \in 1 .. (Len(s) - i) : b[k] = s[i + k]
  <2>1. /\ b \in Seq(S)
        /\ Len(b) = IF i + 1 <= Len(s) THEN Len(s) - (i + 1) + 1 ELSE 0
        /\ \A k \in 1 .. Len(s) - (i + 1) + 1 : b[k] = s[(i + 1) + k - 1]
    BY <1>1, <1>2, <1>4, SubSeqProperties
  <2>2. \A k \in 1 .. (Len(s) - i) :
          k \in 1 .. Len(s) - (i + 1) + 1 /\ (i + 1) + k - 1 = i + k
    BY <1>1
  <2>3. Len(b) = Len(s) - i
    BY <1>1, <2>1
  <2> QED BY <2>1, <2>2, <2>3
<1>7. t = a \o b
  BY <1>3, <1>4 DEF Without
<1>8. /\ t \in Seq(S) /\ Len(t) = Len(a) + Len(b)
      /\ \A k \in 1 .. Len(a) + Len(b) : t[k] =
           IF k <= Len(a) THEN a[k] ELSE b[k - Len(a)]
  BY <1>5, <1>6, <1>7, ConcatProperties
<1>9. DOMAIN t = 1 .. (Len(s) - 1)
  BY <1>1, <1>5, <1>6, <1>8
<1>10. ASSUME NEW k \in 1 .. (i - 1) PROVE t[k] = s[k]
  BY <1>1, <1>5, <1>6, <1>8
<1>11. ASSUME NEW k \in i .. (Len(s) - 1) PROVE t[k] = s[k + 1]
  <2>1. /\ k \in 1 .. (Len(a) + Len(b)) /\ ~(k <= Len(a))
        /\ k - Len(a) \in 1 .. (Len(s) - i) /\ i + (k - Len(a)) = k + 1
    BY <1>1, <1>5, <1>6
  <2> QED BY <1>6, <1>8, <2>1
<1> QED BY <1>3, <1>4, <1>7, <1>8, <1>9, <1>10, <1>11

\* Where a row of the shorter list was in the longer one.
Before(i, k) == IF k < i THEN k ELSE k + 1

LEMMA Shifted ==
  ASSUME NEW S, NEW s \in Seq(S), NEW i \in DOMAIN s, NEW t,
         t = Without(s, i)
  PROVE  /\ t \in Seq(S)
         /\ \A k \in DOMAIN t : /\ Before(i, k) \in DOMAIN s \ {i}
                                /\ t[k] = s[Before(i, k)]
         /\ \A k, l \in DOMAIN t : Before(i, k) = Before(i, l) => k = l
         /\ \A m \in DOMAIN s \ {i} : \E k \in DOMAIN t : t[k] = s[m]
<1>1. /\ i \in 1 .. Len(s) /\ Len(s) \in Nat /\ DOMAIN s = 1 .. Len(s)
      /\ t \in Seq(S) /\ DOMAIN t = 1 .. (Len(s) - 1)
      /\ \A k \in 1 .. (i - 1) : t[k] = s[k]
      /\ \A k \in i .. (Len(s) - 1) : t[k] = s[k + 1]
  BY TakenOut
<1>2. ASSUME NEW k \in DOMAIN t
      PROVE  Before(i, k) \in DOMAIN s \ {i} /\ t[k] = s[Before(i, k)]
  <2>1. k \in Int /\ 1 <= k /\ k <= Len(s) - 1 /\ i \in Int
    BY <1>1
  <2>2. CASE k < i
    BY <1>1, <2>1, <2>2 DEF Before
  <2>3. CASE k >= i
    <3>1. k + 1 \in DOMAIN s /\ k + 1 # i /\ t[k] = s[k + 1] /\ ~(k < i)
      BY <1>1, <2>1, <2>3
    <3> QED BY <3>1 DEF Before
  <2> QED BY <2>1, <2>2, <2>3
<1>3. ASSUME NEW k \in DOMAIN t, NEW l \in DOMAIN t, Before(i, k) = Before(i, l) PROVE k = l
  BY <1>1, <1>3 DEF Before
<1>4. ASSUME NEW m \in DOMAIN s \ {i} PROVE \E k \in DOMAIN t : t[k] = s[m]
  <2>1. CASE m < i
    <3>1. m \in DOMAIN t /\ t[m] = s[m]
      BY <1>1, <2>1
    <3> QED BY <3>1
  <2>2. CASE m > i
    <3>1. m \in 1 .. Len(s)
      BY <1>1
    <3>2. m - 1 \in i .. (Len(s) - 1) /\ m - 1 \in 1 .. (Len(s) - 1) /\ (m - 1) + 1 = m
      BY <1>1, <2>2, <3>1
    <3>3. m - 1 \in DOMAIN t /\ t[m - 1] = s[m]
      BY <1>1, <3>2
    <3> QED BY <3>3
  <2>3. m \in Int /\ i \in Int /\ m # i
    BY <1>1
  <2> QED BY <2>1, <2>2, <2>3
<1> QED BY <1>1, <1>2, <1>3, <1>4

\* A job has ended: its row is gone.
LEMMA EndedRow ==
  ASSUME NEW w, Sound(w), NEW n \in Ids(w)
  PROVE  Shrunk(w, Ended(w, n), n) /\ Ended(w, n).user = w.user
<1> DEFINE v == Ended(w, n)
<1>1. w \in Database /\ KeysDiffer(w)
  BY DEF Sound
<1>2. PICK i : i = Place(w, {n})
  OBVIOUS
<1>3. i \in DOMAIN w.jobs /\ w.jobs[i].id = n
  BY <1>2, FirstOf
<1>4. w.jobs \in Seq(Job) /\ w.user \in [Users -> UserRow]
      /\ w = [user |-> w.user, jobs |-> w.jobs]
  BY <1>1 DEF Database
<1>5. v = [user |-> w.user, jobs |-> Without(w.jobs, i)]
  <2>1. v = [w EXCEPT !.jobs = Without(w.jobs, i)]
    BY <1>2 DEF Ended, Without
  <2> QED BY <1>4, <2>1
<1> HIDE DEF v
<1>6. /\ v.jobs \in Seq(Job)
      /\ \A k \in DOMAIN v.jobs : /\ Before(i, k) \in DOMAIN w.jobs \ {i}
                                  /\ v.jobs[k] = w.jobs[Before(i, k)]
      /\ \A k, l \in DOMAIN v.jobs : Before(i, k) = Before(i, l) => k = l
      /\ \A m \in DOMAIN w.jobs \ {i} : \E k \in DOMAIN v.jobs : v.jobs[k] = w.jobs[m]
  <2>1. v.jobs = Without(w.jobs, i)
    BY <1>5
  <2> QED BY <1>3, <1>4, <2>1, Shifted
<1>7. v \in Database /\ v.user = w.user
  BY <1>4, <1>5, <1>6 DEF Database
<1>8. KeysDiffer(v)
  BY <1>1, <1>6 DEF KeysDiffer
<1>9. \A m \in DOMAIN w.jobs : m # i <=> w.jobs[m].id # n
  BY <1>1, <1>3 DEF KeysDiffer
<1>10. Rows(v) = {j \in Rows(w) : j.id # n}
  <2>1. ASSUME NEW k \in DOMAIN v.jobs PROVE v.jobs[k] \in {j \in Rows(w) : j.id # n}
    BY <1>6, <1>9 DEF Rows, Range
  <2>2. ASSUME NEW m \in DOMAIN w.jobs, w.jobs[m].id # n PROVE w.jobs[m] \in Rows(v)
    BY <1>6, <1>9, <2>2 DEF Rows, Range
  <2> QED BY <2>1, <2>2 DEF Rows, Range
<1> QED BY <1>7, <1>8, <1>10 DEF Shrunk, Sound, v

\* A change of a user's row leaves the jobs alone.
LEMMA RowSet ==
  ASSUME NEW w, Sound(w), NEW v, NEW table \in [Users -> UserRow],
         v = [w EXCEPT !.user = table]
  PROVE  Sound(v) /\ v.jobs = w.jobs /\ v.user = table /\ Rows(v) = Rows(w)
<1>1. w.jobs \in Seq(Job) /\ w = [user |-> w.user, jobs |-> w.jobs]
  BY DEF Sound, Database
<1>2. v = [user |-> table, jobs |-> w.jobs]
  BY <1>1
<1>3. v.jobs = w.jobs /\ v.user = table
  BY <1>2
<1>4. v \in Database
  BY <1>1, <1>2 DEF Database
<1> QED BY <1>3, <1>4 DEF Sound, KeysDiffer, Rows

LEMMA GrownIds ==
  ASSUME NEW w, NEW v, Grown(w, v)
  PROVE  Ids(w) \subseteq Ids(v)
<1>1. ASSUME NEW i \in DOMAIN w.jobs PROVE \E k \in DOMAIN v.jobs : v.jobs[k] = w.jobs[i]
  BY DEF Grown, Rows, Range
<1> QED BY <1>1 DEF Ids

LEMMA GrownFurther ==
  ASSUME NEW w, NEW v, NEW x, Grown(w, v), Grown(v, x)
  PROVE  Grown(w, x)
<1>1. Ids(w) \subseteq Ids(v)
  BY GrownIds
<1> QED BY <1>1 DEF Grown

LEMMA SameGrown ==
  ASSUME NEW w, NEW v, Sound(v), Rows(v) = Rows(w)
  PROVE  Grown(w, v)
BY DEF Grown

---------------------------------------------------------------------------
(* How the tables change. *)

LEMMA TypeOKIs ==
  Typed => TypeOK
<1> SUFFICES ASSUME Typed PROVE TypeOK
  OBVIOUS
<1>1. /\ db \in Database /\ work \in Database /\ KeysDiffer(db) /\ KeysDiffer(work)
      /\ Range(work.jobs) \subseteq Range(db.jobs) /\ holder \in {"none", "run", "ask"}
  BY DEF Typed, Tables, Sound, Rows
<1>2. /\ run \in Run /\ ask \in Ask
      /\ run.pc # "idle" => run.todo \subseteq Ids(Visible("run"))
      /\ run.pc \notin {"idle", "club", "site"} => run.job \in Ids(Visible("run")) \ run.todo
  BY DEF Typed, Locks, RunKnown, Hand, Calling, Current, Run
<1> QED BY <1>1, <1>2 DEF Typed, Services, TypeOK

\* The run sees the rows of the table, or fewer.
LEMMA CurrentSound ==
  ASSUME Typed
  PROVE  /\ Sound(Current) /\ Rows(Current) \subseteq Rows(db) /\ SameRights(db, Current)
         /\ holder # "run" => Current = db
BY DEF Typed, Tables, Locks, Current, Visible, SameRights

\* A row of users with another status, or with the account noted.
LEMMA StatusNoted ==
  ASSUME NEW w, Sound(w), NEW u \in Users, NEW s \in Membership \cup {"unknown"}
  PROVE  /\ Sound([w EXCEPT !.user[u].status = s])
         /\ [w EXCEPT !.user[u].status = s].jobs = w.jobs
         /\ SameRights(w, [w EXCEPT !.user[u].status = s])
         /\ Rows([w EXCEPT !.user[u].status = s]) = Rows(w)
<1>1. w.user \in [Users -> UserRow] /\ w.user[u] \in UserRow
  BY DEF Sound, Database
<1> DEFINE row == [w.user[u] EXCEPT !.status = s]
           table == [w.user EXCEPT ![u] = row]
<1>2. row \in UserRow /\ row.banned = w.user[u].banned /\ row.deny = w.user[u].deny
  BY <1>1 DEF UserRow
<1> HIDE DEF row
<1>3. table \in [Users -> UserRow]
  BY <1>1, <1>2
<1>4. \A x \in Users : table[x].banned = w.user[x].banned /\ table[x].deny = w.user[x].deny
  BY <1>1, <1>2
<1>5. [w EXCEPT !.user[u].status = s] = [w EXCEPT !.user = table]
  BY DEF row
<1> HIDE DEF table
<1> QED BY <1>3, <1>4, <1>5, RowSet DEF SameRights

LEMMA AccountNoted ==
  ASSUME NEW w, Sound(w), NEW u \in Users
  PROVE  /\ Sound([w EXCEPT !.user[u].delivered = TRUE])
         /\ [w EXCEPT !.user[u].delivered = TRUE].jobs = w.jobs
         /\ SameRights(w, [w EXCEPT !.user[u].delivered = TRUE])
         /\ Rows([w EXCEPT !.user[u].delivered = TRUE]) = Rows(w)
<1>1. w.user \in [Users -> UserRow] /\ w.user[u] \in UserRow
  BY DEF Sound, Database
<1> DEFINE row == [w.user[u] EXCEPT !.delivered = TRUE]
           table == [w.user EXCEPT ![u] = row]
<1>2. row \in UserRow /\ row.banned = w.user[u].banned /\ row.deny = w.user[u].deny
  BY <1>1 DEF UserRow
<1> HIDE DEF row
<1>3. table \in [Users -> UserRow]
  BY <1>1, <1>2
<1>4. \A x \in Users : table[x].banned = w.user[x].banned /\ table[x].deny = w.user[x].deny
  BY <1>1, <1>2
<1>5. [w EXCEPT !.user[u].delivered = TRUE] = [w EXCEPT !.user = table]
  BY DEF row
<1> HIDE DEF table
<1> QED BY <1>3, <1>4, <1>5, RowSet DEF SameRights

---------------------------------------------------------------------------
(* Steps of the hourly run, as long as it goes on. *)

\* The run goes on with v, rows of which are rows it saw.
GoesOn(v) ==
  /\ \/ Write("run", v) /\ Sound(v) /\ Rows(v) \subseteq Rows(Current) /\ SameRights(Current, v)
     \/ ReadOnly /\ v = Current
  /\ run' \in Run /\ run'.pc # "idle" /\ ask' = ask

LEMMA GoingOn ==
  ASSUME Typed, NEW v, GoesOn(v)
  PROVE  /\ Tables' /\ Locks' /\ db' = db
         /\ Current' = v /\ Rows(v) \subseteq Rows(Current) /\ Sound(v)
         /\ SameRights(db, v)
<1>1. /\ Sound(Current) /\ Rows(Current) \subseteq Rows(db) /\ SameRights(db, Current)
      /\ holder # "run" => Current = db
  BY CurrentSound
<1>2. CASE /\ Write("run", v) /\ Sound(v) /\ Rows(v) \subseteq Rows(Current)
           /\ SameRights(Current, v)
  <2>1. holder' = "run" /\ work' = v /\ db' = db /\ holder \in {"none", "run"}
    BY <1>2 DEF Write, MayWrite
  <2>2. Current' = v
    BY <2>1 DEF Current, Visible
  <2>3. SameRights(db, v)
    BY <1>1, <1>2 DEF SameRights
  <2>4. Tables'
    BY <1>1, <1>2, <2>1 DEF Typed, Tables, Rows, Sound
  <2>5. Locks'
    BY <2>1, <2>3 DEF Typed, Locks, GoesOn, SameRights
  <2> QED BY <1>2, <2>1, <2>2, <2>3, <2>4, <2>5
<1>3. CASE ReadOnly /\ v = Current
  <2>1. db' = db /\ work' = work /\ holder' = holder
    BY <1>3 DEF ReadOnly
  <2>2. Current' = v
    BY <1>3, <2>1 DEF Current, Visible
  <2>3. Tables'
    BY <2>1 DEF Typed, Tables, Rows, Sound
  <2>4. Locks'
    BY <2>1 DEF Typed, Locks, GoesOn, SameRights
  <2> QED BY <1>1, <1>3, <2>1, <2>2, <2>3, <2>4
<1> QED BY <1>2, <1>3 DEF GoesOn

\* It stays with the licences, or with the site, and has less to do.
LEMMA StillKnown ==
  ASSUME Typed, NEW v, GoesOn(v), run.pc # "idle", Hand' \subseteq Hand,
         Hand' \subseteq Ids(v),
         run.pc \in Clubs <=> run'.pc \in Clubs,
         run'.pc \in Calling => run'.job \notin run'.todo
  PROVE  RunKnown'
<1>1. Current' = v /\ Rows(v) \subseteq Rows(Current)
  BY GoingOn
<1>2. \A j \in Rows(v) : j.id \in Hand' =>
        (j.kind = "club" <=> run'.pc \in Clubs)
  BY <1>1 DEF Typed, RunKnown
<1>3. Rows(Current') = Rows(v) /\ Ids(Current') = Ids(v)
  BY <1>1
<1> QED BY <1>2, <1>3 DEF RunKnown, GoesOn, Rows, Ids

\* The row it takes next.
LEMMA TakenRow ==
  ASSUME Typed, run.pc \in {"club", "site"}, run.todo # {}
  PROVE  /\ Taken \in Rows(Current) /\ Taken.id \in run.todo /\ Taken \in Job
         /\ Taken.id \in Ids(Current)
         /\ Hand = run.todo
         /\ Taken.kind = "club" <=> run.pc = "club"
<1>1. Sound(Current)
  BY CurrentSound
<1>2. Hand = run.todo /\ run.todo \subseteq Ids(Current)
  BY DEF Typed, RunKnown, Hand, Calling
<1>3. Taken \in Rows(Current) /\ Taken.id \in run.todo
  BY <1>1, <1>2, FirstOf DEF Taken, Current
<1>4. Taken \in Job
  BY <1>1, <1>3, JobList DEF Sound
<1>5. Taken.kind = "club" <=> run.pc = "club"
  BY <1>2, <1>3 DEF Typed, RunKnown, Clubs
<1> QED BY <1>2, <1>3, <1>4, <1>5

\* The row it is calling about.
LEMMA ThisRow ==
  ASSUME Typed, run.pc \in Calling
  PROVE  /\ This \in Rows(Current) /\ This.id = run.job /\ This \in Job
         /\ run.job \in Ids(Current) /\ run.job \notin run.todo
         /\ \A j \in Rows(Current) : j.id = run.job => j = This
         /\ Hand = run.todo \cup {run.job}
         /\ This.kind = "club" <=> run.pc \in {"asking", "licences"}
<1>1. Sound(Current)
  BY CurrentSound
<1>2. /\ Hand = run.todo \cup {run.job} /\ run.job \in Ids(Current)
      /\ run.job \notin run.todo
  BY DEF Typed, RunKnown, Hand, Calling
<1>3. /\ This \in Rows(Current) /\ This.id = run.job
      /\ \A j \in Rows(Current) : j.id = run.job => j = This
  BY <1>1, <1>2, RowOf DEF This, Current
<1>4. This \in Job
  BY <1>1, <1>3, JobList DEF Sound
<1>5. This.kind = "club" <=> run.pc \in {"asking", "licences"}
  BY <1>2, <1>3 DEF Typed, RunKnown, Calling, Clubs
<1> QED BY <1>2, <1>3, <1>4, <1>5


\* The rights are the same in both views of the database.
LEMMA SameBars ==
  ASSUME NEW w, NEW v, SameRights(w, v), NEW u \in Users
  PROVE  Barred(v.user[u]) <=> Barred(w.user[u])
BY DEF SameRights, Barred

LEMMA RightKept ==
  ASSUME group' = group, SameRights(db, db'), NEW u \in Users
  PROVE  Right(u)' <=> Right(u)
BY SameBars DEF Right, Allowed

LEMMA SameRightsSelf == \A w : SameRights(w, w)
BY DEF SameRights

\* As long as it ends no club job, what is owed stays owed.
LEMMA OwedStill ==
  ASSUME ResourcesInv, NEW v, GoesOn(v), UNCHANGED <<group, updates, second, silent, licence>>,
         \A j \in Rows(Current) : j.kind = "club" => j \in Rows(v)
  PROVE  Owed'
<1>1. Current' = v /\ db' = db
  BY GoingOn DEF ResourcesInv
<1> SUFFICES ASSUME NEW u \in Users \ silent PROVE Settled(u, db)' /\ Settled(u, Current)'
  BY DEF Owed
<1>2. Right(u)' <=> Right(u)
  BY <1>1, RightKept, SameRightsSelf
<1>3. Settled(u, db) /\ Settled(u, Current)
  BY DEF ResourcesInv, Owed
<1>4. Rows(db') = Rows(db) /\ Rows(Current') = Rows(v)
  BY <1>1
<1>5. Settled(u, db)'
  BY <1>2, <1>3, <1>4 DEF Settled
<1>6. Settled(u, Current)'
  BY <1>2, <1>3, <1>4 DEF Settled, ClubJob
<1> QED BY <1>5, <1>6

LEMMA IdsOfRows ==
  ASSUME NEW w, Sound(w), NEW kinds
  PROVE  /\ IdsOf(w, kinds) \subseteq Ids(w)
         /\ \A j \in Rows(w) : j.id \in IdsOf(w, kinds) => j.kind \in kinds
<1>1. ASSUME NEW i \in DOMAIN w.jobs, w.jobs[i].id \in IdsOf(w, kinds)
      PROVE  w.jobs[i].kind \in kinds
  <2>1. PICK k \in DOMAIN w.jobs : w.jobs[k].kind \in kinds /\ w.jobs[k].id = w.jobs[i].id
    BY <1>1 DEF IdsOf
  <2> QED BY <2>1 DEF Sound, KeysDiffer
<1> QED BY <1>1 DEF IdsOf, Ids, Rows, Range

LEMMA StartRunStep ==
  ASSUME ResourcesInv, StartRun
  PROVE  ResourcesInv'
<1>1. /\ run.pc = "idle" /\ run' = Phase("club", IdsOf(db, {"club"})) /\ ReadOnly
      /\ UNCHANGED <<ask, group, updates, site, replay, licence, seen, second, silent, failures>>
  BY DEF StartRun, outside, bans
<1>2. Current = db /\ Sound(db) /\ Ids(db) \subseteq 1 .. MaxPending
  BY <1>1, CurrentSound, JobList DEF ResourcesInv, Typed, Locks, Sound
<1>3. run'.pc = "club" /\ run'.todo = IdsOf(db, {"club"}) /\ run' \in Run
  <2>1. IdsOf(db, {"club"}) \in SUBSET (1 .. MaxPending)
    BY <1>2, IdsOfRows
  <2> QED BY <1>1, <2>1 DEF Phase, Run
<1>4. GoesOn(db)
  BY <1>1, <1>2, <1>3 DEF GoesOn
<1>5. Tables' /\ Locks' /\ db' = db /\ Current' = db
  BY <1>4, GoingOn DEF ResourcesInv
<1>6. Services'
  BY <1>1 DEF ResourcesInv, Typed, Services
<1>7. RunKnown'
  <2>1. Hand' = IdsOf(db, {"club"})
    BY <1>3 DEF Hand, Calling
  <2>2. Rows(Current') = Rows(db) /\ Ids(Current') = Ids(db)
    BY <1>5
  <2>3. /\ IdsOf(db, {"club"}) \subseteq Ids(db)
        /\ \A j \in Rows(db) : j.id \in IdsOf(db, {"club"}) => j.kind \in {"club"}
    BY <1>2, IdsOfRows
  <2> QED BY <1>3, <2>1, <2>2, <2>3 DEF RunKnown, Calling, Clubs, Rows, Ids
<1>8. Granted' /\ Answering'
  BY <1>1, <1>3, <1>5 DEF ResourcesInv, Granted, Answering
<1>9. Owed'
  BY <1>1, <1>2, <1>4, OwedStill
<1> QED BY <1>5, <1>6, <1>7, <1>8, <1>9 DEF ResourcesInv, Typed

\* A job is taken in hand: the rows stay.
LEMMA HandKnown ==
  ASSUME Typed, run.pc \in {"club", "site"}, run.todo # {}, NEW pc \in Calling,
         run.pc = "club" <=> pc \in {"asking", "licences"}, NEW allowed \in BOOLEAN,
         run' = InHand(pc, allowed)
  PROVE  /\ run'.pc = pc /\ run'.todo = run.todo \ {Taken.id} /\ run'.job = Taken.id
         /\ run'.allowed = allowed /\ run' \in Run
         /\ Hand' = Hand
         /\ \A v : GoesOn(v) /\ Rows(v) = Rows(Current) => RunKnown'
<1>1. /\ Taken \in Rows(Current) /\ Taken.id \in run.todo /\ Taken \in Job
      /\ Taken.id \in Ids(Current) /\ Hand = run.todo
  BY TakenRow
<1>2. /\ run'.pc = pc /\ run'.todo = run.todo \ {Taken.id} /\ run'.job = Taken.id
      /\ run'.allowed = allowed
  BY DEF InHand, Rest
<1>3. run' \in Run
  <2>1. run.todo \in SUBSET (1 .. MaxPending)
    BY DEF Typed, RunKnown, Run
  <2>2. Taken.id \in 1 .. MaxPending
    BY <1>1 DEF Job
  <2>3. PICK known \in BOOLEAN : known = (Taken.kind # "club" /\ Row.delivered)
    OBVIOUS
  <2>4. run' = [pc |-> pc, todo |-> run.todo \ {Taken.id}, job |-> Taken.id,
                allowed |-> allowed, known |-> known, late |-> FALSE]
    BY <2>3 DEF InHand, Rest
  <2> QED BY <2>1, <2>2, <2>4 DEF Run, Calling
<1>4. Hand' = Hand
  BY <1>1, <1>2 DEF Hand
<1>5. ASSUME NEW v, GoesOn(v), Rows(v) = Rows(Current) PROVE RunKnown'
  <2>1. Ids(v) = Ids(Current)
    <3>1. Sound(v) /\ Sound(Current)
      BY <1>5, GoingOn, CurrentSound
    <3> QED BY <1>5, <3>1, JobList DEF Sound
  <2>2. Hand' \subseteq Ids(v)
    BY <1>4, <2>1 DEF Typed, RunKnown
  <2>3. run.pc \in Clubs <=> run'.pc \in Clubs
    BY <1>2 DEF Calling, Clubs
  <2>4. run'.job \notin run'.todo
    BY <1>2
  <2> QED BY <1>4, <1>5, <2>2, <2>3, <2>4, StillKnown
<1> QED BY <1>2, <1>3, <1>4, <1>5

LEMMA CheckClubStep ==
  ASSUME ResourcesInv, CheckClub
  PROVE  ResourcesInv'
<1>1. run.pc = "club" /\ run.todo # {} /\ Typed
  BY DEF CheckClub, ResourcesInv
<1>2. Taken \in Rows(Current) /\ Taken \in Job /\ Taken.kind = "club"
  BY <1>1, TakenRow
<1>3. PICK u \in Users : u = Taken.user
  BY <1>2 DEF Job
<1>4. PICK pc, allowed : /\ run' = InHand(pc, allowed)
                         /\ \/ Barred(Current.user[u]) /\ pc = "licences" /\ allowed = FALSE
                            \/ ~Barred(Current.user[u]) /\ pc = "asking" /\ allowed = TRUE
  BY <1>3 DEF CheckClub, Current, Row
<1>5. /\ ReadOnly
      /\ UNCHANGED <<ask, group, updates, site, replay, licence, seen, second, silent, failures>>
  BY DEF CheckClub, outside, bans
<1>6. /\ run'.pc = pc /\ run'.job = Taken.id /\ run'.allowed = allowed /\ run' \in Run
      /\ \A v : GoesOn(v) /\ Rows(v) = Rows(Current) => RunKnown'
  <2>1. pc \in Calling /\ pc \in {"asking", "licences"} /\ allowed \in BOOLEAN
    BY <1>4 DEF Calling
  <2> QED BY <1>1, <1>4, <2>1, HandKnown
<1>7. PICK v : v = Current
  OBVIOUS
<1>8. GoesOn(v)
  BY <1>4, <1>5, <1>6, <1>7 DEF GoesOn
<1>9. /\ Tables' /\ Locks' /\ db' = db /\ Current' = v /\ Rows(Current') = Rows(Current)
      /\ Sound(Current) /\ SameRights(db, Current)
  BY <1>1, <1>7, <1>8, GoingOn, CurrentSound
<1>10. Services'
  BY <1>5 DEF ResourcesInv, Typed, Services
<1>11. \A j \in Rows(Current)' : j.id = run'.job => j.user = u
  BY <1>2, <1>3, <1>6, <1>9, KeyTellsRow
<1>12. Granted'
  BY <1>4, <1>5, <1>6, <1>9 DEF ResourcesInv, Granted
<1>13. Answering'
  <2>1. Right(u)' <=> Right(u)
    BY <1>5, <1>3, <1>9, RightKept, SameRightsSelf
  <2>2. Barred(Current.user[u]) <=> Barred(db.user[u])
    BY <1>9, SameBars
  <2>3. Told(u)'
    BY <1>4, <1>5, <1>6, <2>1, <2>2 DEF Told, Right, Allowed
  <2> QED BY <1>11, <2>3 DEF Answering
<1>14. Owed'
  BY <1>5, <1>7, <1>8, OwedStill
<1> QED BY <1>6, <1>7, <1>8, <1>9, <1>10, <1>12, <1>13, <1>14 DEF ResourcesInv, Typed

\* Telegram has answered about the row in hand.
LEMMA AnswerKnown ==
  ASSUME Typed, run.pc \in {"asking", "verifying"}, NEW pc \in {"licences", "wordpress"},
         run.pc = "asking" <=> pc = "licences", run' = WithAnswer(pc)
  PROVE  /\ run'.pc = pc /\ run'.todo = run.todo /\ run'.job = run.job
         /\ run'.allowed = IsMember /\ run'.late = Barred(Current.user[This.user])
         /\ run' \in Run
         /\ \A v : GoesOn(v) /\ Rows(v) = Rows(Current) => RunKnown'
<1>1. PICK allowed \in BOOLEAN, late \in BOOLEAN :
        allowed = IsMember /\ late = Barred(Current.user[This.user])
  BY DEF IsMember, Barred
<1>2. run' = [run EXCEPT !.pc = pc, !.allowed = allowed, !.late = late]
  BY <1>1 DEF WithAnswer, Current
<1>3. run \in [pc : {"asking", "verifying"}, todo : SUBSET (1 .. MaxPending),
               job : 1 .. MaxPending, allowed : BOOLEAN, known : BOOLEAN, late : BOOLEAN]
  BY DEF Typed, RunKnown, Run
<1>4. /\ run'.pc = pc /\ run'.todo = run.todo /\ run'.job = run.job
      /\ run'.allowed = allowed /\ run'.late = late
  BY <1>2, <1>3
<1>5. run' \in Run
  BY <1>2, <1>3 DEF Run
<1>6. ASSUME NEW v, GoesOn(v), Rows(v) = Rows(Current) PROVE RunKnown'
  <2>1. Ids(v) = Ids(Current)
    <3>1. Sound(v) /\ Sound(Current)
      BY <1>6, GoingOn, CurrentSound
    <3> QED BY <1>6, <3>1, JobList DEF Sound
  <2>2. Hand' = Hand /\ Hand' \subseteq Ids(v)
    BY <1>4, <2>1, ThisRow DEF Typed, RunKnown, Hand, Calling
  <2>3. run.pc \in Clubs <=> run'.pc \in Clubs
    BY <1>4 DEF Clubs
  <2>4. run.pc # "idle" /\ run'.job \notin run'.todo
    BY <1>4, ThisRow DEF Calling
  <2> QED BY <1>6, <2>2, <2>3, <2>4, StillKnown
<1> QED BY <1>1, <1>4, <1>5, <1>6

\* The answer in the row leaves jobs and rights alone.
LEMMA NotedIs ==
  ASSUME Typed, run.pc \in {"asking", "verifying"}
  PROVE  /\ This.user \in Users /\ Sound(Noted)
         /\ Rows(Noted) = Rows(Current) /\ SameRights(Current, Noted)
<1>1. This.user \in Users
  BY ThisRow DEF Calling, Job
<1>2. Sound(Current) /\ group[This.user] \in Membership \cup {"unknown"}
  BY <1>1, CurrentSound DEF Typed, Services
<1> QED BY <1>1, <1>2, StatusNoted DEF Noted, Current

LEMMA ClubAnswerStep ==
  ASSUME ResourcesInv, ClubAnswer
  PROVE  ResourcesInv'
<1>1. /\ run.pc = "asking" /\ Write("run", Noted) /\ run' = WithAnswer("licences") /\ Typed
      /\ UNCHANGED <<ask, group, updates, site, replay, licence, seen, second, silent, failures>>
  BY DEF ClubAnswer, ResourcesInv, outside, bans
<1>2. PICK u \in Users : u = This.user
  BY <1>1, NotedIs
<1>3. PICK v : v = Noted
  OBVIOUS
<1>4. Sound(v) /\ Rows(v) = Rows(Current) /\ SameRights(Current, v)
  BY <1>1, <1>3, NotedIs
<1>5. /\ run'.pc = "licences" /\ run'.job = run.job /\ run' \in Run
      /\ run'.allowed = IsMember /\ run'.late = Barred(Current.user[u])
      /\ GoesOn(v) => RunKnown'
  BY <1>1, <1>2, <1>4, AnswerKnown
<1>6. GoesOn(v) /\ holder' = "run"
  BY <1>1, <1>3, <1>4, <1>5 DEF GoesOn, Write
<1>7. /\ Tables' /\ Locks' /\ db' = db /\ Current' = v /\ Rows(Current') = Rows(Current)
      /\ SameRights(db, Current)
  BY <1>1, <1>4, <1>6, GoingOn, CurrentSound
<1>8. Services'
  BY <1>1 DEF Typed, Services
<1>9. \A j \in Rows(Current)' : j.id = run'.job => j \in Rows(Current) /\ j.user = u
  BY <1>1, <1>2, <1>5, <1>7, ThisRow DEF Calling
<1>10. Granted'
  <2>1. ~run'.late => ~Barred(db'.user[u])
    BY <1>5, <1>7, SameBars
  <2>2. ask.pc = "calling" => ~Barred(db'.user[ask.user])
    BY <1>7 DEF ResourcesInv, Granted
  <2> QED BY <1>1, <1>5, <1>6, <1>9, <2>1, <2>2 DEF Granted
<1>11. Answering'
  <2>1. Right(u)' <=> Right(u)
    BY <1>1, <1>7, RightKept, SameRightsSelf
  <2>2. ASSUME NEW j \in Rows(Current)', j.id = run'.job, u \notin silent
        PROVE  \/ updates[u] # << >>
               \/ \E k \in Rows(Current)' : k.id # run.job /\ ClubJob(k, u)
               \/ Told(u)'
    <3>1. \/ updates[u] # << >>
          \/ \E k \in Rows(Current) : k.id # run.job /\ ClubJob(k, u)
          \/ Told(u)
      BY <1>1, <1>5, <1>9, <2>2 DEF ResourcesInv, Answering
    <3>2. Told(u) => Told(u)'
      BY <1>1, <1>2, <1>5, <2>1 DEF Told, IsMember, Right, Allowed
    <3> QED BY <1>7, <3>1, <3>2
  <2> QED BY <1>1, <1>5, <1>9, <2>2 DEF Answering
<1>12. Owed'
  BY <1>1, <1>4, <1>6, OwedStill
<1> QED BY <1>5, <1>6, <1>7, <1>8, <1>10, <1>11, <1>12 DEF ResourcesInv, Typed


\* Between two jobs nothing is about to be opened, and no answer is out.
LEMMA BetweenJobs ==
  ASSUME ResourcesInv, NEW v, GoesOn(v), Services', Owed', run.pc # "idle",
         NEW pc \in {"club", "site"}, NEW todo, run' = Phase(pc, todo),
         todo \subseteq Hand, todo \subseteq Ids(v),
         run.pc \in Clubs <=> pc = "club"
  PROVE  ResourcesInv'
<1>1. run'.pc = pc /\ run'.todo = todo
  BY DEF Phase
<1>2. Tables' /\ Locks' /\ db' = db /\ Current' = v /\ ask' = ask
  BY GoingOn DEF ResourcesInv, GoesOn
<1>3. RunKnown'
  <2>1. Hand' = todo
    BY <1>1 DEF Hand, Calling
  <2>2. run'.pc \notin Calling /\ (run'.pc \in Clubs <=> pc = "club")
    BY <1>1 DEF Calling, Clubs
  <2> QED BY <2>1, <2>2, StillKnown DEF ResourcesInv
<1>4. Granted'
  <2>1. run'.pc # "licences" /\ run'.pc # "wordpress"
    BY <1>1
  <2>2. ask.pc = "calling" => ~Barred(db'.user[ask.user])
    BY <1>2 DEF ResourcesInv, Granted
  <2> QED BY <1>2, <2>1, <2>2 DEF Granted
<1>5. Answering'
  BY <1>1 DEF Answering
<1> QED BY <1>2, <1>3, <1>4, <1>5 DEF ResourcesInv, Typed

LEMMA PhaseIs ==
  ASSUME Typed, run.pc # "idle", NEW pc \in {"club", "site"}, NEW todo,
         todo \subseteq Ids(Current), run' = Phase(pc, todo)
  PROVE  run' \in Run /\ run'.pc # "idle"
<1>1. todo \in SUBSET (1 .. MaxPending)
  BY CurrentSound, JobList DEF Sound
<1> QED BY <1>1 DEF Phase, Run

\* The run ends a job in hand.
LEMMA EndedView ==
  ASSUME Typed, NEW n \in Ids(Current), NEW w, Sound(w), Rows(w) = Rows(Current),
         SameRights(Current, w)
  PROVE  /\ Sound(Ended(w, n)) /\ SameRights(Current, Ended(w, n))
         /\ Rows(Ended(w, n)) = {j \in Rows(Current) : j.id # n}
         /\ Ids(Ended(w, n)) = Ids(Current) \ {n}
<1>1. Sound(Current)
  BY CurrentSound
<1>2. n \in Ids(w)
  BY <1>1, JobList DEF Sound
<1>3. PICK v : v = Ended(w, n)
  OBVIOUS
<1>4. Shrunk(w, v, n) /\ v.user = w.user
  BY <1>2, <1>3, EndedRow
<1>5. Sound(v) /\ Rows(v) = {j \in Rows(Current) : j.id # n}
  BY <1>4 DEF Shrunk
<1>6. Ids(v) = {j.id : j \in Rows(v)} /\ Ids(Current) = {j.id : j \in Rows(Current)}
  BY <1>1, <1>5, JobList DEF Sound
<1>7. Ids(v) = Ids(Current) \ {n}
  BY <1>5, <1>6
<1>8. SameRights(Current, v)
  BY <1>4 DEF SameRights
<1> QED BY <1>3, <1>5, <1>7, <1>8

LEMMA CheckClubFailsStep ==
  ASSUME ResourcesInv, CheckClubFails
  PROVE  ResourcesInv'
<1>1. /\ run.pc = "asking" /\ Write("run", Current)
      /\ run' = Phase("club", run.todo) /\ failures' = failures + 1 /\ failures < MaxFailures
      /\ UNCHANGED <<ask, group, updates, site, replay, licence, seen, second, silent>>
  BY DEF CheckClubFails, outside, bans, Current, Fails
<1>2. Typed
  BY DEF ResourcesInv
<1>3. Sound(Current) /\ SameRights(Current, Current)
  BY <1>2, CurrentSound, SameRightsSelf
<1>4. run.todo \subseteq Hand /\ run.todo \subseteq Ids(Current)
  BY <1>1, <1>2, ThisRow DEF Calling, Typed, RunKnown
<1>5. run' \in Run /\ run'.pc # "idle"
  BY <1>1, <1>2, <1>4, PhaseIs
<1>6. GoesOn(Current)
  BY <1>1, <1>3, <1>5 DEF GoesOn
<1>7. Services'
  BY <1>1, <1>2, BoundsAssumption DEF Typed, Services
<1>8. Owed'
  BY <1>1, <1>6, OwedStill
<1> QED BY <1>1, <1>4, <1>6, <1>7, <1>8, BetweenJobs DEF Clubs

\* What the licence service may have after a call about a row.
LEMMA SwitchedFor ==
  ASSUME Typed, run.pc = "licences"
  PROVE  /\ This.user \in Users
         /\ Switched \in [Users -> {"active", "suspended"}]
         /\ Switched[This.user] = "active" <=> run.allowed
         /\ \A u \in Users : u # This.user => Switched[u] = licence[u]
<1>1. This.user \in Users
  BY ThisRow DEF Job, Calling
<1>2. licence \in [Users -> {"active", "suspended"}]
  BY DEF Typed, Services
<1> QED BY <1>1, <1>2 DEF Switched

LEMMA CallLicencesStep ==
  ASSUME ResourcesInv, CallLicences
  PROVE  ResourcesInv'
<1>1. /\ run.pc = "licences" /\ Write("run", Ended(Current, run.job))
      /\ run' = Phase("club", run.todo) /\ licence' = Switched
      /\ UNCHANGED <<ask, group, updates, site, replay, seen, second, silent, failures>>
  BY DEF CallLicences, Current, bans
<1>2. Typed
  BY DEF ResourcesInv
<1>3. Sound(Current) /\ SameRights(Current, Current) /\ Rows(Current) \subseteq Rows(db)
  BY <1>2, CurrentSound, SameRightsSelf
<1>4. /\ This \in Rows(Current) /\ This.id = run.job /\ This.kind = "club"
      /\ run.job \in Ids(Current) /\ run.job \notin run.todo
      /\ Hand = run.todo \cup {run.job} /\ run.todo \subseteq Ids(Current)
      /\ \A j \in Rows(Current) : j.id = run.job => j = This
  BY <1>1, <1>2, ThisRow DEF Calling, Typed, RunKnown
<1>5. PICK v : v = Ended(Current, run.job)
  OBVIOUS
<1>6. /\ Sound(v) /\ SameRights(Current, v)
      /\ Rows(v) = {j \in Rows(Current) : j.id # run.job}
      /\ Ids(v) = Ids(Current) \ {run.job}
  BY <1>2, <1>3, <1>4, <1>5, EndedView
<1>7. run' \in Run /\ run'.pc # "idle"
  BY <1>1, <1>2, <1>4, PhaseIs
<1>8. GoesOn(v)
  BY <1>1, <1>5, <1>6, <1>7 DEF GoesOn
<1>9. db' = db /\ Current' = v
  BY <1>2, <1>8, GoingOn
<1>10. /\ This.user \in Users
       /\ Switched \in [Users -> {"active", "suspended"}]
       /\ Switched[This.user] = "active" <=> run.allowed
       /\ \A u \in Users : u # This.user => Switched[u] = licence[u]
  BY <1>1, <1>2, SwitchedFor
<1>11. Services'
  BY <1>1, <1>2, <1>10 DEF Typed, Services
<1>12. ASSUME NEW u \in Users \ silent PROVE Settled(u, db)' /\ Settled(u, Current)'
  <2>1. Right(u)' <=> Right(u)
    BY <1>1, <1>9, RightKept, SameRightsSelf
  <2>2. Rows(db)' = Rows(db) /\ Rows(Current)' = Rows(v)
    BY <1>9
  <2>3. CASE u = This.user
    <3>1. Settled(u, db)'
      BY <1>3, <1>4, <2>2, <2>3 DEF Settled, ClubJob
    <3>2. \/ updates[u] # << >>
          \/ \E k \in Rows(Current) : k.id # run.job /\ ClubJob(k, u)
          \/ run.allowed <=> Right(u)
      BY <1>1, <1>4, <2>3 DEF ResourcesInv, Answering, Told
    <3>3. licence'[u] = "active" <=> run.allowed
      BY <1>1, <1>10, <2>3
    <3>4. (\E k \in Rows(Current) : k.id # run.job /\ ClubJob(k, u))
            => (\E k \in Rows(Current)' : ClubJob(k, u))
      BY <1>6, <2>2
    <3>5. \/ updates'[u] # << >>
          \/ \E k \in Rows(Current)' : ClubJob(k, u)
          \/ licence'[u] = "active" <=> Right(u)'
      BY <1>1, <2>1, <3>2, <3>3, <3>4
    <3> QED BY <3>1, <3>5 DEF Settled
  <2>4. CASE u # This.user
    <3>1. licence'[u] = licence[u]
      BY <1>1, <1>10, <2>4
    <3>2. Settled(u, db) /\ Settled(u, Current)
      BY DEF ResourcesInv, Owed
    <3>3. \A j \in Rows(Current) : ClubJob(j, u) => j \in Rows(v)
      BY <1>4, <1>6, <2>4 DEF ClubJob
    <3>4. Settled(u, db)'
      BY <1>1, <2>1, <2>2, <3>1, <3>2 DEF Settled
    <3>5. Settled(u, Current)'
      BY <1>1, <2>1, <2>2, <3>1, <3>2, <3>3 DEF Settled
    <3> QED BY <3>4, <3>5
  <2> QED BY <2>3, <2>4
<1>13. Owed'
  BY <1>1, <1>12 DEF Owed
<1> QED BY <1>1, <1>4, <1>6, <1>8, <1>11, <1>13, BetweenJobs DEF Clubs

LEMMA LicencesFailStep ==
  ASSUME ResourcesInv, LicencesFail
  PROVE  ResourcesInv'
<1>1. /\ run.pc = "licences" /\ Write("run", Current)
      /\ run' = Phase("club", run.todo) /\ licence' \in {licence, Switched}
      /\ failures' = failures + 1 /\ failures < MaxFailures
      /\ UNCHANGED <<ask, group, updates, site, replay, seen, second, silent>>
  BY DEF LicencesFail, Current, Fails, bans
<1>2. Typed
  BY DEF ResourcesInv
<1>3. Sound(Current) /\ SameRights(Current, Current) /\ Rows(Current) \subseteq Rows(db)
  BY <1>2, CurrentSound, SameRightsSelf
<1>4. /\ This \in Rows(Current) /\ This.kind = "club"
      /\ run.todo \subseteq Hand /\ run.todo \subseteq Ids(Current)
  BY <1>1, <1>2, ThisRow DEF Calling, Typed, RunKnown
<1>5. run' \in Run /\ run'.pc # "idle"
  BY <1>1, <1>2, <1>4, PhaseIs
<1>6. GoesOn(Current)
  BY <1>1, <1>3, <1>5 DEF GoesOn
<1>7. PICK v : v = Current
  OBVIOUS
<1>8. db' = db /\ Current' = v
  BY <1>2, <1>6, <1>7, GoingOn
<1>9. /\ Switched \in [Users -> {"active", "suspended"}]
      /\ \A u \in Users : u # This.user => Switched[u] = licence[u]
  BY <1>1, <1>2, SwitchedFor
<1>10. Services'
  BY <1>1, <1>2, <1>9, BoundsAssumption DEF Typed, Services
<1>11. ASSUME NEW u \in Users \ silent PROVE Settled(u, db)' /\ Settled(u, Current)'
  <2>1. Right(u)' <=> Right(u)
    BY <1>1, <1>8, RightKept, SameRightsSelf
  <2>2. Rows(db)' = Rows(db) /\ Rows(Current)' = Rows(Current)
    BY <1>7, <1>8
  <2>3. CASE u = This.user
    BY <1>3, <1>4, <2>2, <2>3 DEF Settled, ClubJob
  <2>4. CASE u # This.user
    <3>1. licence'[u] = licence[u]
      BY <1>1, <1>9, <2>4
    <3>2. Settled(u, db) /\ Settled(u, Current)
      BY DEF ResourcesInv, Owed
    <3> QED BY <1>1, <2>1, <2>2, <3>1, <3>2 DEF Settled
  <2> QED BY <2>3, <2>4
<1>12. Owed'
  BY <1>1, <1>11 DEF Owed
<1> QED BY <1>1, <1>4, <1>6, <1>10, <1>12, BetweenJobs DEF Clubs


LEMMA TurnToSiteStep ==
  ASSUME ResourcesInv, TurnToSite
  PROVE  ResourcesInv'
<1> DEFINE sites == Kind \ {"club"}
<1>1. /\ run.pc = "club" /\ run' = Phase("site", IdsOf(Current, sites)) /\ ReadOnly
      /\ UNCHANGED <<ask, group, updates, site, replay, licence, seen, second, silent, failures>>
  BY DEF TurnToSite, outside, bans, Current
<1>2. Typed /\ Sound(Current)
  BY CurrentSound DEF ResourcesInv
<1>3. PICK todo : todo = IdsOf(Current, sites)
  OBVIOUS
<1>4. /\ todo \subseteq Ids(Current)
      /\ \A j \in Rows(Current) : j.id \in todo => j.kind # "club"
  BY <1>2, <1>3, IdsOfRows
<1>5. /\ run' \in Run /\ run'.pc # "idle" /\ run'.pc = "site" /\ run'.todo = todo
  BY <1>1, <1>2, <1>3, <1>4, PhaseIs DEF Phase
<1>6. PICK v : v = Current
  OBVIOUS
<1>7. GoesOn(v)
  BY <1>1, <1>5, <1>6 DEF GoesOn
<1>8. Tables' /\ Locks' /\ db' = db /\ Current' = v
  BY <1>2, <1>7, GoingOn
<1>9. Services'
  BY <1>1 DEF ResourcesInv, Typed, Services
<1>10. RunKnown'
  <2>1. Hand' = todo
    BY <1>5 DEF Hand, Calling
  <2>2. Rows(Current)' = Rows(Current) /\ Ids(Current)' = Ids(Current)
    BY <1>6, <1>8
  <2> QED BY <1>4, <1>5, <2>1, <2>2 DEF RunKnown, Calling, Clubs
<1>11. Granted' /\ Answering'
  BY <1>1, <1>5, <1>8 DEF ResourcesInv, Granted, Answering
<1>12. Owed'
  BY <1>1, <1>6, <1>7, OwedStill
<1> QED BY <1>8, <1>9, <1>10, <1>11, <1>12 DEF ResourcesInv, Typed

\* A job for the site is taken in hand, and nothing is about to be opened.
LEMMA JobBegins ==
  ASSUME ResourcesInv, SiteTurn, NEW pc \in {"verifying", "wordpress"},
         NEW allowed \in BOOLEAN, run' = InHand(pc, allowed), ReadOnly,
         UNCHANGED <<ask, group, updates, site, replay, licence, seen, second, silent, failures>>,
         pc = "verifying" \/ Taken.manual \/ Taken.kind = "deactivate"
  PROVE  ResourcesInv'
<1>1. run.pc = "site" /\ run.todo # {} /\ Typed
  BY DEF SiteTurn, ResourcesInv
<1>2. /\ Taken \in Rows(Current) /\ Taken \in Job
  BY <1>1, TakenRow
<1>3. /\ run'.pc = pc /\ run'.job = Taken.id /\ run' \in Run
      /\ \A v : GoesOn(v) /\ Rows(v) = Rows(Current) => RunKnown'
  BY <1>1, HandKnown DEF Calling
<1>4. PICK v : v = Current
  OBVIOUS
<1>5. GoesOn(v)
  BY <1>3, <1>4 DEF GoesOn
<1>6. /\ Tables' /\ Locks' /\ db' = db /\ Current' = v /\ Rows(Current') = Rows(Current)
      /\ Sound(Current)
  BY <1>1, <1>4, <1>5, GoingOn, CurrentSound
<1>7. Services'
  BY DEF ResourcesInv, Typed, Services
<1>8. PICK taken : taken = Taken
  OBVIOUS
<1>9. \A j \in Rows(Current)' : j.id = run'.job => j = taken
  BY <1>2, <1>3, <1>6, <1>8, KeyTellsRow
<1>10. Granted'
  <2>1. ask'.pc = "calling" => ~Barred(db'.user[ask'.user])
    BY <1>6 DEF ResourcesInv, Granted
  <2>2. pc = "verifying" \/ taken.manual \/ taken.kind = "deactivate"
    BY <1>8
  <2> QED BY <1>3, <1>9, <2>1, <2>2 DEF Granted
<1>11. Answering'
  BY <1>3 DEF Answering
<1>12. Owed'
  BY <1>4, <1>5, OwedStill
<1> QED BY <1>3, <1>4, <1>5, <1>6, <1>7, <1>10, <1>11, <1>12 DEF ResourcesInv, Typed

LEMMA TakeCommandStep ==
  ASSUME ResourcesInv, TakeCommand
  PROVE  ResourcesInv'
<1>1. /\ SiteTurn /\ Taken.manual /\ ReadOnly /\ run' = InHand("wordpress", TRUE)
      /\ UNCHANGED <<ask, group, updates, site, replay, licence, seen, second, silent, failures>>
  BY DEF TakeCommand, outside, bans
<1> QED BY <1>1, JobBegins

\* A job for the site ends between two calls.
LEMMA SiteJobEnds ==
  ASSUME ResourcesInv, run.pc \in {"site", "verifying", "wordpress"}, NEW n \in Hand,
         NEW v, Write("run", v), Sound(v), SameRights(Current, v),
         Rows(v) = {j \in Rows(Current) : j.id # n},
         NEW todo \in SUBSET (Hand \ {n}), run' = Phase("site", todo),
         UNCHANGED <<ask, group, updates, licence, second, silent>>, Services'
  PROVE  ResourcesInv'
<1>1. Typed /\ Sound(Current)
  BY CurrentSound DEF ResourcesInv
<1>2. Ids(v) = Ids(Current) \ {n}
  <2>1. Ids(v) = {j.id : j \in Rows(v)} /\ Ids(Current) = {j.id : j \in Rows(Current)}
    BY <1>1, JobList DEF Sound
  <2> QED BY <2>1
<1>3. /\ Hand \subseteq Ids(Current)
      /\ \A j \in Rows(Current) : j.id \in Hand => j.kind # "club"
  BY <1>1 DEF Typed, RunKnown, Clubs
<1>4. todo \subseteq Ids(Current) /\ todo \subseteq Ids(v)
  BY <1>2, <1>3
<1>5. run' \in Run /\ run'.pc # "idle"
  BY <1>1, <1>4, PhaseIs
<1>6. GoesOn(v)
  BY <1>5 DEF GoesOn
<1>7. Owed'
  BY <1>3, <1>6, OwedStill
<1> QED BY <1>4, <1>6, <1>7, BetweenJobs DEF Clubs

LEMMA TakenInHand ==
  ASSUME Typed, SiteTurn
  PROVE  /\ Taken \in Rows(Current) /\ Taken \in Job /\ Taken.id \in Hand
         /\ Taken.id \in Ids(Current) /\ Rest \in SUBSET (Hand \ {Taken.id})
BY TakenRow DEF SiteTurn, Rest

LEMMA CheckSiteStep ==
  ASSUME ResourcesInv, CheckSite
  PROVE  ResourcesInv'
<1>1. /\ SiteTurn /\ Typed
      /\ UNCHANGED <<ask, group, updates, site, replay, licence, seen, second, silent, failures>>
  BY DEF CheckSite, ResourcesInv, outside, bans
<1>2. CASE ReadOnly /\ run' = InHand("verifying", TRUE)
  BY <1>1, <1>2, JobBegins
<1>3. CASE ReadOnly /\ run' = InHand("wordpress", FALSE) /\ Wanted(Taken.kind, FALSE)
  <2>1. Taken.kind = "deactivate"
    BY <1>3 DEF Wanted
  <2> QED BY <1>1, <1>3, <2>1, JobBegins
<1>4. CASE Write("run", Ended(Current, Taken.id)) /\ run' = Phase("site", Rest)
  <2>1. /\ Taken.id \in Hand /\ Taken.id \in Ids(Current)
        /\ Rest \in SUBSET (Hand \ {Taken.id})
    BY <1>1, TakenInHand
  <2>2. Sound(Current) /\ SameRights(Current, Current)
    BY <1>1, CurrentSound, SameRightsSelf
  <2>3. /\ Sound(Ended(Current, Taken.id)) /\ SameRights(Current, Ended(Current, Taken.id))
        /\ Rows(Ended(Current, Taken.id)) = {j \in Rows(Current) : j.id # Taken.id}
    BY <1>1, <2>1, <2>2, EndedView
  <2>4. Services'
    BY <1>1 DEF Typed, Services
  <2> QED BY <1>1, <1>4, <2>1, <2>3, <2>4, SiteJobEnds DEF SiteTurn
<1> QED BY <1>2, <1>3, <1>4 DEF CheckSite, Current

LEMMA SiteAnswerStep ==
  ASSUME ResourcesInv, SiteAnswer
  PROVE  ResourcesInv'
<1>1. /\ run.pc = "verifying" /\ Typed
      /\ UNCHANGED <<ask, group, updates, site, replay, licence, seen, second, silent, failures>>
  BY DEF SiteAnswer, ResourcesInv, outside, bans
<1>2. PICK v : v = Noted
  OBVIOUS
<1>3. Sound(v) /\ Rows(v) = Rows(Current) /\ SameRights(Current, v) /\ This.user \in Users
  BY <1>1, <1>2, NotedIs
<1>4. Services'
  BY <1>1 DEF Typed, Services
<1>5. CASE Write("run", v) /\ run' = WithAnswer("wordpress")
  <2>1. /\ run'.pc = "wordpress" /\ run'.job = run.job /\ run' \in Run
        /\ run'.late = Barred(Current.user[This.user])
        /\ GoesOn(v) => RunKnown'
    BY <1>1, <1>3, <1>5, AnswerKnown
  <2>2. GoesOn(v) /\ holder' = "run"
    BY <1>1, <1>3, <1>5, <2>1 DEF GoesOn, Write
  <2>3. /\ Tables' /\ Locks' /\ db' = db /\ Current' = v /\ Rows(Current') = Rows(Current)
        /\ SameRights(db, Current)
    BY <1>1, <1>3, <2>2, GoingOn, CurrentSound
  <2>4. PICK u \in Users : u = This.user
    BY <1>3
  <2>5. \A j \in Rows(Current)' : j.id = run'.job => j.user = u
    BY <1>1, <2>1, <2>3, <2>4, ThisRow DEF Calling
  <2>6. Granted'
    <3>1. ~run'.late => ~Barred(db'.user[u])
      BY <2>1, <2>3, <2>4, SameBars
    <3>2. ask'.pc = "calling" => ~Barred(db'.user[ask'.user])
      BY <1>1, <2>3 DEF ResourcesInv, Granted
    <3> QED BY <2>1, <2>2, <2>5, <3>1, <3>2 DEF Granted
  <2>7. Answering'
    BY <2>1 DEF Answering
  <2>8. Owed'
    BY <1>1, <1>3, <2>2, OwedStill
  <2> QED BY <1>4, <2>1, <2>2, <2>3, <2>6, <2>7, <2>8 DEF ResourcesInv, Typed
<1>6. CASE Write("run", Ended(v, run.job)) /\ run' = Phase("site", run.todo)
  <2>1. /\ run.job \in Hand /\ run.job \in Ids(Current)
        /\ run.todo \in SUBSET (Hand \ {run.job})
    BY <1>1, ThisRow DEF Calling
  <2>2. /\ Sound(Ended(v, run.job)) /\ SameRights(Current, Ended(v, run.job))
        /\ Rows(Ended(v, run.job)) = {j \in Rows(Current) : j.id # run.job}
    BY <1>1, <1>3, <2>1, EndedView
  <2> QED BY <1>1, <1>4, <1>6, <2>1, <2>2, SiteJobEnds
<1> QED BY <1>2, <1>5, <1>6 DEF SiteAnswer

LEMMA CheckSiteFailsStep ==
  ASSUME ResourcesInv, CheckSiteFails
  PROVE  ResourcesInv'
<1>1. /\ run.pc = "verifying" /\ Typed /\ Write("run", Ended(Current, run.job))
      /\ run' = Phase("site", run.todo) /\ failures' = failures + 1 /\ failures < MaxFailures
      /\ UNCHANGED <<ask, group, updates, site, replay, licence, seen, second, silent>>
  BY DEF CheckSiteFails, ResourcesInv, outside, bans, Fails, Current
<1>2. /\ run.job \in Hand /\ run.job \in Ids(Current)
      /\ run.todo \in SUBSET (Hand \ {run.job})
  BY <1>1, ThisRow DEF Calling
<1>3. Sound(Current) /\ SameRights(Current, Current)
  BY <1>1, CurrentSound, SameRightsSelf
<1>4. /\ Sound(Ended(Current, run.job)) /\ SameRights(Current, Ended(Current, run.job))
      /\ Rows(Ended(Current, run.job)) = {j \in Rows(Current) : j.id # run.job}
  BY <1>1, <1>2, <1>3, EndedView
<1>5. Services'
  BY <1>1, BoundsAssumption DEF Typed, Services
<1> QED BY <1>1, <1>2, <1>4, <1>5, SiteJobEnds

\* What WordPress may have after a call.
LEMMA AppliedIs ==
  ASSUME Typed, run.pc = "wordpress"
  PROVE  /\ This.user \in Users
         /\ Applied \in [Users -> {"open", "blocked"}]
         /\ Answered \subseteq 1 .. MaxPending
         /\ \A u \in Users : u # This.user => Applied[u] = site[u]
         /\ Applied[This.user] = "open" => site[This.user] = "open" \/ This.kind # "deactivate"
<1>1. This.user \in Users /\ This.id \in 1 .. MaxPending
  BY ThisRow DEF Job, Calling
<1>2. site \in [Users -> {"open", "blocked"}] /\ replay \subseteq 1 .. MaxPending
  BY DEF Typed, Services
<1> QED BY <1>1, <1>2 DEF Applied, Answered

LEMMA CallWordPressStep ==
  ASSUME ResourcesInv, CallWordPress
  PROVE  ResourcesInv'
<1> DEFINE ended == Ended(Current, run.job)
           v == IF This.kind = "credentials"
                  THEN [ended EXCEPT !.user[This.user].delivered = TRUE] ELSE ended
<1>1. /\ run.pc = "wordpress" /\ Typed /\ Write("run", v)
      /\ run' = Phase("site", run.todo) /\ site' = Applied /\ replay' = Answered
      /\ UNCHANGED <<ask, group, updates, licence, seen, second, silent, failures>>
  BY DEF CallWordPress, ResourcesInv, Current, bans
<1>2. /\ run.job \in Hand /\ run.job \in Ids(Current)
      /\ run.todo \in SUBSET (Hand \ {run.job})
  BY <1>1, ThisRow DEF Calling
<1>3. Sound(Current) /\ SameRights(Current, Current)
  BY <1>1, CurrentSound, SameRightsSelf
<1>4. /\ Sound(ended) /\ SameRights(Current, ended)
      /\ Rows(ended) = {j \in Rows(Current) : j.id # run.job}
  BY <1>1, <1>2, <1>3, EndedView
<1>5. /\ Applied \in [Users -> {"open", "blocked"}] /\ Answered \subseteq 1 .. MaxPending
      /\ This.user \in Users
  BY <1>1, AppliedIs
<1> HIDE DEF ended
<1>6. /\ Sound(v) /\ Rows(v) = Rows(ended) /\ SameRights(ended, v)
  BY <1>4, <1>5, AccountNoted, SameRightsSelf
<1> HIDE DEF v
<1>7. SameRights(Current, v)
  BY <1>4, <1>6 DEF SameRights
<1>8. Services'
  BY <1>1, <1>5 DEF Typed, Services
<1> QED BY <1>1, <1>2, <1>4, <1>6, <1>7, <1>8, SiteJobEnds

LEMMA WordPressRefusesStep ==
  ASSUME ResourcesInv, WordPressRefuses
  PROVE  ResourcesInv'
<1>1. /\ run.pc = "wordpress" /\ Typed /\ Write("run", Ended(Current, run.job))
      /\ run' = Phase("site", run.todo) /\ site' \in {site, Applied}
      /\ UNCHANGED <<ask, group, updates, replay, licence, seen, second, silent>>
      /\ failures' = failures \/ (failures' = failures + 1 /\ failures < MaxFailures)
  BY DEF WordPressRefuses, ResourcesInv, Current, Fails, bans
<1>2. /\ run.job \in Hand /\ run.job \in Ids(Current)
      /\ run.todo \in SUBSET (Hand \ {run.job})
  BY <1>1, ThisRow DEF Calling
<1>3. Sound(Current) /\ SameRights(Current, Current)
  BY <1>1, CurrentSound, SameRightsSelf
<1>4. /\ Sound(Ended(Current, run.job)) /\ SameRights(Current, Ended(Current, run.job))
      /\ Rows(Ended(Current, run.job)) = {j \in Rows(Current) : j.id # run.job}
  BY <1>1, <1>2, <1>3, EndedView
<1>5. Applied \in [Users -> {"open", "blocked"}]
  BY <1>1, AppliedIs
<1>6. Services'
  BY <1>1, <1>5, BoundsAssumption DEF Typed, Services
<1> QED BY <1>1, <1>2, <1>4, <1>6, SiteJobEnds


---------------------------------------------------------------------------
(* The run ends, /site-access, and restarts. *)

LEMMA OneMoreFailure ==
  ASSUME Typed, failures' = failures + 1, failures < MaxFailures
  PROVE  failures' \in 0 .. MaxFailures
BY BoundsAssumption DEF Typed, Services

LEMMA UndoneTables ==
  ASSUME Typed, NEW h \in {"run", "ask"}, Undo(h)
  PROVE  /\ Tables' /\ db' = db /\ SameRights(db', work') /\ holder' # h
         /\ holder' = "none" => work' = db' /\ holder \in {"none", h}
         /\ holder' # "none" => UNCHANGED <<work, holder>>
<1>1. CASE holder = h
  <2>1. db' = db /\ work' = db /\ holder' = "none"
    BY <1>1 DEF Undo, Commit
  <2> QED BY <1>1, <2>1, SameRightsSelf DEF Typed, Tables, Sound, Rows
<1>2. CASE holder # h
  <2>1. UNCHANGED <<db, work, holder>>
    BY <1>2 DEF Undo
  <2> QED BY <1>2, <2>1 DEF Typed, Tables, Locks, Sound, Rows, SameRights
<1> QED BY <1>1, <1>2

\* No run.
LEMMA NoRun ==
  ASSUME run' = Resting
  PROVE  /\ RunKnown' /\ Answering' /\ run'.pc = "idle"
         /\ ask'.pc # "calling" => Granted'
BY DEF Resting, RunKnown, Run, Calling, Answering, Granted

LEMMA RunAbortsStep ==
  ASSUME ResourcesInv, RunAborts
  PROVE  ResourcesInv'
<1>1. /\ run.pc # "idle" /\ Undo("run") /\ run' = Resting
      /\ UNCHANGED <<ask, group, updates, seen, second, silent>>
      /\ failures' = failures + 1 /\ failures < MaxFailures
      /\ \/ UNCHANGED <<site, replay, licence>>
         \/ run.pc = "wordpress" /\ site' = Applied /\ replay' = Answered /\ UNCHANGED licence
         \/ run.pc = "licences" /\ licence' = Switched /\ UNCHANGED <<site, replay>>
  BY DEF RunAborts, Fails, bans
<1>2. Typed /\ Sound(Current) /\ Rows(Current) \subseteq Rows(db)
  BY CurrentSound DEF ResourcesInv
<1>3. /\ Tables' /\ db' = db /\ SameRights(db', work') /\ holder' # "run"
      /\ holder' = "none" => work' = db' /\ holder \in {"none", "run"}
      /\ holder' # "none" => UNCHANGED <<work, holder>>
  BY <1>1, <1>2, UndoneTables
<1>4. Current' = db'
  BY <1>3 DEF Current, Visible
<1>5. Services'
  <2>1. failures' \in 0 .. MaxFailures
    BY <1>1, <1>2, OneMoreFailure
  <2>2. run.pc = "wordpress" => /\ Applied \in [Users -> {"open", "blocked"}]
                                /\ Answered \subseteq 1 .. MaxPending
    BY <1>2, AppliedIs
  <2>3. run.pc = "licences" => Switched \in [Users -> {"active", "suspended"}]
    BY <1>2, SwitchedFor
  <2> QED BY <1>1, <1>2, <2>1, <2>2, <2>3 DEF Typed, Services
<1>6. Locks'
  BY <1>1, <1>2, <1>3 DEF Typed, Locks, Tables
<1>7. RunKnown' /\ Answering' /\ run'.pc = "idle"
  BY <1>1, NoRun
<1>8. Granted'
  <2>1. ask'.pc = "calling" => ~Barred(db'.user[ask'.user])
    BY <1>1, <1>3 DEF ResourcesInv, Granted
  <2> QED BY <1>7, <2>1 DEF Granted
<1>9. ASSUME NEW u \in Users \ silent PROVE Settled(u, db)'
  <2>1. Right(u)' <=> Right(u)
    BY <1>1, <1>3, RightKept, SameRightsSelf
  <2>2. Settled(u, db) /\ Rows(db)' = Rows(db)
    BY <1>3 DEF ResourcesInv, Owed
  <2>3. CASE licence'[u] = licence[u]
    BY <1>1, <2>1, <2>2, <2>3 DEF Settled
  <2>4. CASE licence'[u] # licence[u]
    <3>1. run.pc = "licences" /\ u = This.user
      BY <1>1, <1>2, <2>4, SwitchedFor
    <3>2. This \in Rows(db) /\ This.kind = "club"
      BY <1>2, <3>1, ThisRow DEF Calling
    <3> QED BY <2>2, <3>1, <3>2 DEF Settled, ClubJob
  <2> QED BY <2>3, <2>4
<1>10. Owed'
  BY <1>1, <1>4, <1>9 DEF Owed, Settled
<1> QED BY <1>3, <1>5, <1>6, <1>7, <1>8, <1>10 DEF ResourcesInv, Typed

LEMMA FinishRunStep ==
  ASSUME ResourcesInv, FinishRun
  PROVE  ResourcesInv'
<1>1. /\ run.pc = "site" /\ Finish("run") /\ run' = Resting
      /\ replay' = replay \cap Ids(Current)
      /\ UNCHANGED <<ask, group, updates, site, licence, seen, second, silent, failures>>
  BY DEF FinishRun, Current, bans
<1>2. Typed /\ Sound(Current) /\ SameRights(db, Current)
  BY CurrentSound DEF ResourcesInv
<1>3. /\ db' = Current /\ Tables' /\ SameRights(db', work') /\ Current' = db' /\ holder' # "run"
      /\ holder' = "none" => work' = db' /\ holder # "ask"
      /\ holder' = "ask" => UNCHANGED <<db, work, holder>>
  <2>1. CASE holder = "run"
    <3>1. db' = work /\ work' = work /\ holder' = "none" /\ Current = work
      BY <1>1, <2>1 DEF Finish, Commit, Current, Visible
    <3>2. Current' = db'
      BY <3>1 DEF Current, Visible
    <3> QED BY <1>2, <2>1, <3>1, <3>2, SameRightsSelf DEF Typed, Tables, Sound, Rows
  <2>2. CASE holder # "run"
    <3>1. UNCHANGED <<db, work, holder>> /\ Current = db
      BY <1>1, <2>2 DEF Finish, Current, Visible
    <3>2. Current' = db'
      BY <2>2, <3>1 DEF Current, Visible
    <3> QED BY <1>2, <2>2, <3>1, <3>2 DEF Typed, Tables, Locks, Sound, Rows, SameRights
  <2> QED BY <2>1, <2>2
<1>4. Services'
  BY <1>1, <1>2 DEF Typed, Services
<1>5. Locks'
  BY <1>1, <1>2, <1>3 DEF Typed, Locks, Tables
<1>6. RunKnown' /\ Answering' /\ run'.pc = "idle"
  BY <1>1, NoRun
<1>7. Granted'
  <2>1. ask'.pc = "calling" => ~Barred(db'.user[ask'.user])
    BY <1>1, <1>2, <1>3, <1>5 DEF ResourcesInv, Granted, Typed, Locks
  <2> QED BY <1>6, <2>1 DEF Granted
<1>8. ASSUME NEW u \in Users \ silent PROVE Settled(u, db)'
  <2>1. Right(u)' <=> Right(u)
    <3>1. SameRights(db, db')
      BY <1>2, <1>3
    <3> QED BY <1>1, <3>1, RightKept
  <2>2. Settled(u, Current) /\ Rows(db)' = Rows(Current)
    BY <1>3 DEF ResourcesInv, Owed
  <2> QED BY <1>1, <2>1, <2>2 DEF Settled
<1>9. Owed'
  BY <1>1, <1>3, <1>8 DEF Owed, Settled
<1> QED BY <1>3, <1>4, <1>5, <1>6, <1>7, <1>9 DEF ResourcesInv, Typed

LEMMA CrashStep ==
  ASSUME ResourcesInv, Crash
  PROVE  ResourcesInv'
<1>1. /\ db' = db /\ work' = db /\ holder' = "none" /\ run' = Resting /\ ask' = Resting
      /\ seen' = {}
      /\ failures' = failures + 1 /\ failures < MaxFailures
      /\ UNCHANGED <<group, updates, site, replay, licence, second, silent>>
  BY DEF Crash, Commit, Fails, outside, bans
<1>2. Typed
  BY DEF ResourcesInv
<1>3. Tables'
  BY <1>1, <1>2 DEF Typed, Tables, Sound, Rows
<1>4. Services'
  BY <1>1, <1>2, BoundsAssumption DEF Typed, Services
<1>5. ask' \in Ask /\ ask'.pc = "idle"
  BY <1>1 DEF Ask, Resting
<1>6. Locks'
  BY <1>1, <1>5, SameRightsSelf DEF Locks
<1>7. RunKnown' /\ Answering' /\ Granted'
  BY <1>1, <1>5, NoRun
<1>8. Current' = db'
  BY <1>1 DEF Current, Visible
<1>9. ASSUME NEW u \in Users \ silent PROVE Settled(u, db)'
  <2>1. Right(u)' <=> Right(u)
    BY <1>1, RightKept, SameRightsSelf
  <2>2. Settled(u, db) /\ Rows(db)' = Rows(db)
    BY <1>1 DEF ResourcesInv, Owed
  <2> QED BY <1>1, <2>1, <2>2 DEF Settled
<1>10. Owed'
  BY <1>1, <1>8, <1>9 DEF Owed, Settled
<1> QED BY <1>3, <1>4, <1>6, <1>7, <1>10 DEF ResourcesInv, Typed

\* /site-access leaves the jobs and the rights alone.
LEMMA AskStep ==
  ASSUME ResourcesInv, UNCHANGED <<run, group, updates, replay, licence, seen, second, silent>>,
         holder # "run", holder' # "run", Sound(db'), Sound(work'),
         db'.jobs = db.jobs, work'.jobs = db.jobs, SameRights(db, db'), SameRights(db', work'),
         holder' = "none" => work' = db', holder' \in {"none", "ask"},
         ask' \in Ask, ask'.pc = "calling" <=> holder' = "ask",
         ask'.pc = "calling" => ~Barred(db'.user[ask'.user]), Services'
  PROVE  ResourcesInv'
<1>1. Typed /\ Current = db /\ Current' = db'
  BY CurrentSound DEF ResourcesInv, Current, Visible
<1>2. Rows(db)' = Rows(db) /\ Rows(Current)' = Rows(Current) /\ Ids(Current)' = Ids(Current)
  BY <1>1 DEF Rows, Ids
<1>3. Tables'
  BY <1>1, <1>2 DEF Tables, Rows
<1>4. Locks'
  BY DEF Locks
<1>5. RunKnown'
  BY <1>1, <1>2 DEF Typed, RunKnown, Hand, Calling
<1>6. Granted'
  BY <1>1, <1>2 DEF ResourcesInv, Granted
<1>7. \A u \in Users : Right(u)' <=> Right(u)
  BY RightKept
<1>8. ASSUME NEW u \in Users \ silent PROVE Settled(u, db)' /\ Settled(u, Current)'
  <2>1. Settled(u, db) /\ Settled(u, Current)
    BY DEF ResourcesInv, Owed
  <2>2. Right(u)' <=> Right(u)
    BY <1>7
  <2> QED BY <1>2, <2>1, <2>2 DEF Settled
<1>9. Owed'
  BY <1>8 DEF Owed
<1>10. Answering'
  <2>1. \A j \in Rows(Current) : Right(j.user)' <=> Right(j.user)
    BY <1>1, <1>7, JobList, CurrentSound DEF Sound, Job
  <2> QED BY <1>2, <2>1 DEF ResourcesInv, Answering, Told
<1> QED BY <1>3, <1>4, <1>5, <1>6, <1>9, <1>10 DEF ResourcesInv, Typed

LEMMA AskSiteStep ==
  ASSUME ResourcesInv, NEW u \in Users, AskSite(u)
  PROVE  ResourcesInv'
<1> DEFINE noted == [db EXCEPT !.user[u].status = group[u]]
<1>1. /\ ask.pc = "idle" /\ holder = "none"
      /\ UNCHANGED <<run, group, updates, site, replay, licence, seen, second, silent, failures>>
  BY DEF AskSite, outside, bans
<1>2. Typed /\ Sound(db) /\ work = db /\ ask \in Ask
  BY <1>1 DEF ResourcesInv, Typed, Tables, Locks
<1>3. Services'
  BY <1>1, <1>2 DEF Typed, Services
<1>4. group[u] \in Membership \cup {"unknown"}
  BY <1>2 DEF Typed, Services
<1>5. Sound(noted) /\ noted.jobs = db.jobs /\ SameRights(db, noted)
  BY <1>2, <1>4, StatusNoted
<1> HIDE DEF noted
<1>6. CASE Allowed(db, u)
  <2>1. /\ holder' = "ask" /\ work' = noted /\ db' = db
        /\ ask' = [pc |-> "calling", user |-> u]
    BY <1>6 DEF AskSite, Write, noted
  <2>2. ask' \in Ask /\ ask'.pc = "calling" /\ ask'.user = u
    BY <2>1 DEF Ask
  <2>3. ~Barred(db.user[u])
    BY <1>6 DEF Allowed
  <2> QED BY <1>1, <1>2, <1>3, <1>5, <2>1, <2>2, <2>3, AskStep, SameRightsSelf
<1>7. CASE ~Allowed(db, u)
  <2>1. PICK v \in {db, noted} : OneStep(v) /\ ask' = ask
    BY <1>7 DEF AskSite, noted
  <2>2. db' = v /\ work' = v /\ holder' = "none"
    BY <2>1 DEF OneStep, Commit
  <2>3. Sound(v) /\ v.jobs = db.jobs /\ SameRights(db, v)
    BY <1>2, <1>5, <2>1, SameRightsSelf
  <2> QED BY <1>1, <1>2, <1>3, <2>1, <2>2, <2>3, AskStep, SameRightsSelf
<1> QED BY <1>6, <1>7

LEMMA AskEnds ==
  ASSUME ResourcesInv, ask.pc = "calling", NEW v, Commit(v), Sound(v), v.jobs = db.jobs,
         SameRights(db, v), ask' = Resting, Services',
         UNCHANGED <<run, group, updates, replay, licence, seen, second, silent>>
  PROVE  ResourcesInv'
<1>1. holder = "ask"
  BY DEF ResourcesInv, Typed, Locks
<1>2. db' = v /\ work' = v /\ holder' = "none"
  BY DEF Commit
<1>3. ask' \in Ask /\ ask'.pc = "idle"
  BY DEF Ask, Resting
<1> QED BY <1>1, <1>2, <1>3, AskStep, SameRightsSelf

LEMMA SiteGivenStep ==
  ASSUME ResourcesInv, SiteGiven
  PROVE  ResourcesInv'
<1>1. /\ ask.pc = "calling" /\ ask' = Resting
      /\ Commit([work EXCEPT !.user[ask.user].delivered = TRUE])
      /\ site' \in {site, [site EXCEPT ![ask.user] = "open"]}
      /\ UNCHANGED <<run, group, updates, replay, licence, seen, second, silent, failures>>
  BY DEF SiteGiven, bans
<1>2. /\ Typed /\ Sound(work) /\ ask.user \in Users /\ work.jobs = db.jobs
      /\ SameRights(db, work)
  BY <1>1 DEF ResourcesInv, Typed, Tables, Locks, Ask
<1>3. PICK v : v = [work EXCEPT !.user[ask.user].delivered = TRUE]
  OBVIOUS
<1>4. Sound(v) /\ v.jobs = work.jobs /\ SameRights(work, v)
  BY <1>2, <1>3, AccountNoted
<1>5. SameRights(db, v)
  BY <1>2, <1>4 DEF SameRights
<1>6. Services'
  BY <1>1, <1>2 DEF Typed, Services
<1> QED BY <1>1, <1>2, <1>3, <1>4, <1>5, <1>6, AskEnds

LEMMA SiteNotGivenStep ==
  ASSUME ResourcesInv, SiteNotGiven
  PROVE  ResourcesInv'
<1>1. /\ ask.pc = "calling" /\ ask' = Resting
      /\ Commit(work) \/ Undo("ask")
      /\ site' \in {site, [site EXCEPT ![ask.user] = "open"]}
      /\ failures' = failures + 1 /\ failures < MaxFailures
      /\ UNCHANGED <<run, group, updates, replay, licence, seen, second, silent>>
  BY DEF SiteNotGiven, Fails, bans
<1>2. /\ Typed /\ Sound(work) /\ Sound(db) /\ ask.user \in Users /\ work.jobs = db.jobs
      /\ SameRights(db, work) /\ holder = "ask"
  BY <1>1 DEF ResourcesInv, Typed, Tables, Locks, Ask
<1>3. Commit(work) \/ Commit(db)
  BY <1>1, <1>2 DEF Undo
<1>4. Services'
  <2>1. failures' \in 0 .. MaxFailures
    BY <1>1, <1>2, OneMoreFailure
  <2>2. site' \in [Users -> {"open", "blocked"}]
    BY <1>1, <1>2 DEF Typed, Services
  <2> QED BY <1>1, <1>2, <2>1, <2>2 DEF Typed, Services
<1> QED BY <1>1, <1>2, <1>3, <1>4, AskEnds, SameRightsSelf


---------------------------------------------------------------------------
(* Steps of everybody else. *)

\* A job for the licences is queued for u.
ClubQueued(u, v) == \E j \in Rows(v) : j.id \notin Ids(db) /\ ClubJob(j, u)

\* Nothing happened to a member's right that the licences will not hear of.
Heard(u) ==
  \/ updates'[u] # << >>
  \/ u \in silent'
  \/ ClubQueued(u, db')
  \/ /\ updates[u] = << >> /\ u \notin silent /\ group'[u] = group[u]
     /\ Right(u)' <=> Right(u)

LEMMA WorldStep ==
  ASSUME ResourcesInv, UNCHANGED <<run, ask, licence>>, Services',
         ReadOnly \/ \E v : OneStep(v) /\ Grown(db, v),
         \A u \in Users : Heard(u)
  PROVE  ResourcesInv'
<1>1. Typed /\ Sound(db) /\ Sound(Current) /\ Rows(Current) \subseteq Rows(db)
  BY CurrentSound DEF ResourcesInv, Typed, Tables
<1>2. /\ Sound(db') /\ Sound(work') /\ Rows(db) \subseteq Rows(db')
      /\ \A j \in Rows(db') : j \in Rows(db) \/ j.id \notin Ids(db)
      /\ \/ UNCHANGED <<db, work, holder>> /\ Current' = Current
         \/ holder = "none" /\ holder' = "none" /\ work' = db' /\ Current = db /\ Current' = db'
  <2>1. CASE ReadOnly
    <3>1. UNCHANGED <<db, work, holder>>
      BY <2>1 DEF ReadOnly
    <3>2. Current' = Current
      BY <3>1 DEF Current, Visible
    <3> QED BY <1>1, <3>1, <3>2 DEF Sound, Rows, Typed, Tables
  <2>2. ASSUME NEW v, OneStep(v), Grown(db, v)
        PROVE  /\ Sound(db') /\ Sound(work') /\ Rows(db) \subseteq Rows(db')
               /\ \A j \in Rows(db') : j \in Rows(db) \/ j.id \notin Ids(db)
               /\ holder = "none" /\ holder' = "none" /\ work' = db' /\ Current = db
               /\ Current' = db'
    <3>1. /\ db' = v /\ work' = v /\ holder = "none" /\ holder' = "none"
      BY <2>2 DEF OneStep, Commit
    <3>2. Current = db /\ Current' = db'
      BY <3>1 DEF Current, Visible
    <3> QED BY <2>2, <3>1, <3>2 DEF Grown
  <2> QED BY <2>1, <2>2
<1>3. /\ Rows(Current) \subseteq Rows(Current')
      /\ \A j \in Rows(Current') : j \in Rows(Current) \/ j.id \notin Ids(Current)
      /\ Ids(Current) \subseteq Ids(Current')
      /\ Sound(Current')
  <2>1. /\ Rows(Current) \subseteq Rows(Current') /\ Sound(Current')
        /\ \A j \in Rows(Current') : j \in Rows(Current) \/ j.id \notin Ids(Current)
    BY <1>1, <1>2
  <2>2. Grown(Current, Current')
    BY <2>1 DEF Grown
  <2> QED BY <2>1, <2>2, GrownIds
<1>4. Tables'
  BY <1>1, <1>2 DEF Typed, Tables, Rows, Sound
<1>5. Locks'
  <2>1. CASE UNCHANGED <<db, work, holder>>
    BY <1>1, <2>1 DEF Typed, Locks, SameRights
  <2>2. CASE holder = "none" /\ holder' = "none" /\ work' = db'
    BY <1>1, <2>2, SameRightsSelf DEF Typed, Locks
  <2> QED BY <1>2, <2>1, <2>2
<1>6. RunKnown'
  <2>1. Hand' = Hand
    BY DEF Hand
  <2>2. run.pc # "idle" => Hand \subseteq Ids(Current)
    BY <1>1 DEF Typed, RunKnown
  <2>3. ASSUME run.pc # "idle", NEW j \in Rows(Current'), j.id \in Hand
        PROVE  j.kind = "club" <=> run.pc \in Clubs
    <3>1. j \in Rows(Current)
      BY <1>3, <2>2, <2>3
    <3> QED BY <1>1, <2>3, <3>1 DEF Typed, RunKnown
  <2>4. run.pc # "idle" => Hand \subseteq Ids(Current')
    BY <1>3, <2>2
  <2> QED BY <1>1, <2>1, <2>3, <2>4 DEF Typed, RunKnown
<1>7. Granted'
  <2>1. run.pc \in Calling => run.job \in Ids(Current)
    BY <1>1 DEF Typed, RunKnown, Hand, Calling
  <2>2. \A j \in Rows(Current') : run.pc \in Calling /\ j.id = run.job => j \in Rows(Current)
    BY <1>3, <2>1
  <2>3. CASE UNCHANGED <<db, work, holder>>
    BY <2>2, <2>3 DEF ResourcesInv, Granted, Calling
  <2>4. CASE holder = "none"
    <3>1. ask.pc # "calling"
      BY <1>1, <2>4 DEF Typed, Locks
    <3> QED BY <2>2, <2>4, <3>1 DEF ResourcesInv, Granted, Calling
  <2> QED BY <1>2, <2>3, <2>4
<1>8. ASSUME NEW u \in Users, ClubQueued(u, db')
      PROVE  \E j \in Rows(Current') : j \in Rows(db') /\ j.id \notin Ids(Current) /\ ClubJob(j, u)
  <2>1. PICK j \in Rows(db') : j.id \notin Ids(db) /\ ClubJob(j, u)
    BY <1>8 DEF ClubQueued
  <2>2. ~UNCHANGED <<db, work, holder>>
    <3>1. j.id \in Ids(db')
      BY <1>2, <2>1, JobList DEF Sound
    <3> QED BY <2>1, <3>1 DEF Ids
  <2> QED BY <1>2, <2>1, <2>2
<1>9. ASSUME NEW u \in Users \ silent' PROVE Settled(u, db)' /\ Settled(u, Current)'
  <2>1. CASE updates'[u] # << >>
    BY <2>1 DEF Settled
  <2>2. CASE ClubQueued(u, db')
    <3>1. PICK j \in Rows(Current') : j \in Rows(db') /\ ClubJob(j, u)
      BY <1>8, <2>2
    <3> QED BY <3>1 DEF Settled, ClubJob
  <2>3. CASE /\ updates[u] = << >> /\ u \notin silent /\ group'[u] = group[u]
             /\ Right(u)' <=> Right(u)
    <3>1. Settled(u, db) /\ Settled(u, Current)
      BY <2>3 DEF ResourcesInv, Owed
    <3>2. Settled(u, db)'
      BY <1>2, <2>3, <3>1 DEF Settled, ClubJob
    <3>3. Settled(u, Current)'
      BY <1>3, <2>3, <3>1 DEF Settled, ClubJob
    <3> QED BY <3>2, <3>3
  <2> QED BY <1>9, <2>1, <2>2, <2>3 DEF Heard
<1>10. Owed'
  BY <1>9 DEF Owed
<1>11. Answering'
  <2> SUFFICES ASSUME run.pc \in {"asking", "licences"}, NEW j \in Rows(Current'),
                      j.id = run.job, j.user \notin silent'
               PROVE  \/ updates'[j.user] # << >>
                      \/ \E k \in Rows(Current') : k.id # run.job /\ ClubJob(k, j.user)
                      \/ Told(j.user)'
    BY DEF Answering, ClubJob
  <2>1. run.job \in Ids(Current)
    BY <1>1 DEF Typed, RunKnown, Hand, Calling
  <2>2. j \in Rows(Current) /\ j.user \in Users
    BY <1>1, <1>3, <2>1, JobList DEF Sound, Job
  <2>3. CASE ClubQueued(j.user, db')
    BY <1>8, <2>1, <2>2, <2>3
  <2>4. CASE /\ updates[j.user] = << >> /\ j.user \notin silent /\ group'[j.user] = group[j.user]
             /\ Right(j.user)' <=> Right(j.user)
    <3>1. \/ \E k \in Rows(Current) : k.id # run.job /\ ClubJob(k, j.user)
          \/ Told(j.user)
      BY <2>2, <2>4 DEF ResourcesInv, Answering
    <3>2. Told(j.user) => Told(j.user)'
      BY <2>4 DEF Told
    <3> QED BY <1>3, <3>1, <3>2
  <2> QED BY <2>2, <2>3, <2>4 DEF Heard
<1> QED BY <1>4, <1>5, <1>6, <1>7, <1>10, <1>11 DEF ResourcesInv, Typed

\* What is queued for u, and for nobody else.
Only(u, v) == Grown(db, v) /\ \A x \in Users \ {u} : v.user[x] = db.user[x]

LEMMA RowPut ==
  ASSUME NEW u \in Users, NEW w, Only(u, w), NEW r \in UserRow,
         NEW v, v = [w EXCEPT !.user = [w.user EXCEPT ![u] = r]]
  PROVE  Only(u, v) /\ v.jobs = w.jobs /\ Rows(v) = Rows(w) /\ v.user[u] = r
<1>1. Sound(w) /\ w.user \in [Users -> UserRow]
  BY DEF Only, Grown, Sound, Database
<1>2. PICK table : table = [w.user EXCEPT ![u] = r]
  OBVIOUS
<1>3. /\ table \in [Users -> UserRow] /\ table[u] = r
      /\ \A x \in Users \ {u} : table[x] = w.user[x]
  BY <1>1, <1>2
<1>4. v = [w EXCEPT !.user = table]
  BY <1>2
<1>5. Sound(v) /\ v.jobs = w.jobs /\ v.user = table /\ Rows(v) = Rows(w)
  BY <1>1, <1>3, <1>4, RowSet
<1> QED BY <1>3, <1>5 DEF Only, Grown

LEMMA OnlySelf ==
  ASSUME ResourcesInv, NEW u \in Users
  PROVE  Only(u, db) /\ Sound(db) /\ db.user[u] \in UserRow
BY DEF ResourcesInv, Typed, Tables, Only, Grown, Sound, Database

\* A job for u is queued.
LEMMA OneMore ==
  ASSUME NEW u \in Users, NEW w, Only(u, w), Room(w, 1), NEW kind \in Kind,
         NEW manual \in BOOLEAN
  PROVE  /\ Only(u, Queued(w, kind, u, manual))
         /\ Queued(w, kind, u, manual).user = w.user
         /\ Len(Queued(w, kind, u, manual).jobs) = Len(w.jobs) + 1
         /\ kind = "club" => ClubQueued(u, Queued(w, kind, u, manual))
         /\ ClubQueued(u, w) => ClubQueued(u, Queued(w, kind, u, manual))
<1>1. Sound(w) /\ Ids(db) \subseteq Ids(w)
  BY GrownIds DEF Only, Grown
<1>2. PICK v : v = Queued(w, kind, u, manual)
  OBVIOUS
<1>3. /\ Grown(w, v) /\ v.user = w.user /\ Len(v.jobs) = Len(w.jobs) + 1
      /\ \E j \in Rows(v) : j.id \notin Ids(w) /\ j.kind = kind /\ j.user = u
  BY <1>1, <1>2, QueuedRow
<1>4. Only(u, v)
  BY <1>3, GrownFurther DEF Only
<1>5. kind = "club" => ClubQueued(u, v)
  BY <1>1, <1>3 DEF ClubQueued, ClubJob
<1>6. ClubQueued(u, w) => ClubQueued(u, v)
  BY <1>3 DEF ClubQueued, Grown
<1> QED BY <1>2, <1>3, <1>4, <1>5, <1>6

\* As long as the rows of others stay, so do their rights.
LEMMA OthersKept ==
  ASSUME NEW u \in Users, NEW v, Only(u, v), db' = v, NEW x \in Users \ {u},
         group'[x] = group[x]
  PROVE  Right(x)' <=> Right(x)
BY DEF Only, Right, Allowed, Barred

LEMMA SameHeard ==
  ASSUME NEW x \in Users, updates'[x] = updates[x], group'[x] = group[x],
         x \in silent => x \in silent',
         Right(x)' <=> Right(x)
  PROVE  Heard(x)
BY DEF Heard


\* A step that commits v, in which only u's row and jobs change.
LEMMA OnlyStep ==
  ASSUME ResourcesInv, NEW u \in Users, NEW v, Only(u, v), OneStep(v), Heard(u),
         UNCHANGED <<run, ask, licence>>, Services',
         \A x \in Users \ {u} : /\ group'[x] = group[x] /\ updates'[x] = updates[x]
                                /\ x \in silent => x \in silent'
  PROVE  ResourcesInv'
<1>1. db' = v
  BY DEF OneStep, Commit
<1>2. ASSUME NEW x \in Users \ {u} PROVE Heard(x)
  BY <1>1, OthersKept, SameHeard
<1>3. \A x \in Users : Heard(x)
  BY <1>2
<1> QED BY <1>3, WorldStep DEF Only

\* A row for u, then the job for the licences.
Put(w, u, r) == [w EXCEPT !.user = [w.user EXCEPT ![u] = r]]

LEMMA ClubNoted ==
  ASSUME ResourcesInv, NEW u \in Users, NEW r \in UserRow, Room(db, 1),
         NEW club, club = JobFor(Put(db, u, r), "club", u)
  PROVE  /\ Only(u, club) /\ ClubQueued(u, club) /\ club.user[u] = r
         /\ Len(club.jobs) = Len(db.jobs) + 1
<1>1. PICK w : w = Put(db, u, r)
  OBVIOUS
<1>2. Only(u, w) /\ w.jobs = db.jobs /\ w.user[u] = r
  BY <1>1, OnlySelf, RowPut DEF Put
<1>3. PICK kind \in Kind, manual \in BOOLEAN : kind = "club" /\ manual = FALSE
  BY DEF Kind
<1>4. club = Queued(w, kind, u, manual) /\ Room(w, 1)
  BY <1>1, <1>2, <1>3 DEF JobFor, Room
<1>5. /\ Only(u, club) /\ club.user = w.user /\ Len(club.jobs) = Len(w.jobs) + 1
      /\ kind = "club" => ClubQueued(u, club)
  BY <1>2, <1>4, OneMore
<1> QED BY <1>2, <1>3, <1>5

\* Another job after it.
LEMMA AndMore ==
  ASSUME NEW u \in Users, NEW w, Only(u, w), ClubQueued(u, w), Room(w, 1), NEW kind \in Kind,
         NEW v, v = JobFor(w, kind, u)
  PROVE  Only(u, v) /\ ClubQueued(u, v) /\ Len(v.jobs) = Len(w.jobs) + 1
<1>1. PICK manual \in BOOLEAN : manual = FALSE
  OBVIOUS
<1>2. v = Queued(w, kind, u, manual)
  BY <1>1 DEF JobFor
<1>3. Only(u, v) /\ Len(v.jobs) = Len(w.jobs) + 1
  BY <1>2, OneMore
<1>4. ClubQueued(u, v)
  BY <1>2, OneMore
<1> QED BY <1>3, <1>4

LEMMA RoomFor ==
  ASSUME NEW w, Sound(w), NEW n \in Nat, Room(w, n), NEW m \in 0 .. n
  PROVE  /\ Room(w, m)
         /\ \A v : Len(v.jobs) = Len(w.jobs) + 1 /\ m + 1 <= n => Room(v, m)
BY JobList, BoundsAssumption DEF Room, Sound

LEMMA RecordedIs ==
  ASSUME ResourcesInv, NEW u \in Users, NEW s \in Membership, Room(db, 2)
  PROVE  Only(u, Recorded(u, s)) /\ ClubQueued(u, Recorded(u, s))
<1>1. /\ Only(u, db) /\ Sound(db) /\ db.user[u] \in UserRow
      /\ Room(db, 1) /\ \A v : Len(v.jobs) = Len(db.jobs) + 1 => Room(v, 1)
  BY OnlySelf, RoomFor
<1>2. PICK r : r = [db.user[u] EXCEPT !.status = s]
  OBVIOUS
<1>3. r \in UserRow
  BY <1>1, <1>2 DEF UserRow
<1>4. PICK club : club = JobFor(Put(db, u, r), "club", u)
  OBVIOUS
<1>5. /\ Only(u, club) /\ ClubQueued(u, club) /\ club.user[u] = r
      /\ Len(club.jobs) = Len(db.jobs) + 1
  BY <1>1, <1>3, <1>4, ClubNoted
<1>6. Room(club, 1)
  BY <1>1, <1>5
<1>7. PICK banned, row : /\ row = [club.user[u] EXCEPT !.banned = TRUE]
                         /\ banned = Put(club, u, row)
  OBVIOUS
<1>8. /\ Only(u, banned) /\ banned.jobs = club.jobs /\ Rows(banned) = Rows(club)
  <2>1. row \in UserRow
    BY <1>3, <1>5, <1>7 DEF UserRow
  <2>2. banned = [club EXCEPT !.user = [club.user EXCEPT ![u] = row]]
    BY <1>7 DEF Put
  <2> QED BY <1>5, <2>1, <2>2, RowPut
<1>9. ClubQueued(u, banned) /\ Room(banned, 1)
  BY <1>5, <1>6, <1>8 DEF ClubQueued, Room
<1>10. {"deactivate", "restore"} \subseteq Kind
  BY DEF Kind
<1>11. \/ Recorded(u, s) = club
       \/ Recorded(u, s) \in {JobFor(club, "deactivate", u), JobFor(club, "restore", u)}
       \/ Recorded(u, s) = JobFor(banned, "deactivate", u)
  BY <1>2, <1>4, <1>7 DEF Recorded, Put
<1> QED BY <1>5, <1>6, <1>8, <1>9, <1>10, <1>11, AndMore

LEMMA DeliverStep ==
  ASSUME ResourcesInv, NEW u \in Users, Deliver(u)
  PROVE  ResourcesInv'
<1>1. /\ updates[u] # << >> /\ Room(db, 2) /\ OneStep(Recorded(u, Head(updates[u])))
      /\ updates' = [updates EXCEPT ![u] = Tail(updates[u])]
      /\ silent' = silent \ {u}
      /\ UNCHANGED <<run, ask, group, site, replay, licence, seen, second, failures>>
  BY DEF Deliver
<1>2. updates \in [Users -> Seq(Membership)]
  BY DEF ResourcesInv, Typed, Services
<1>3. updates[u] \in Seq(Membership)
  BY <1>2
<1>4. Head(updates[u]) \in Membership /\ Tail(updates[u]) \in Seq(Membership)
  BY <1>1, <1>3, HeadTailProperties
<1>5. PICK v : v = Recorded(u, Head(updates[u]))
  OBVIOUS
<1>6. Only(u, v) /\ ClubQueued(u, v)
  BY <1>1, <1>4, <1>5, RecordedIs
<1>7. db' = v
  BY <1>1, <1>5 DEF OneStep, Commit
<1>8. Heard(u)
  BY <1>6, <1>7 DEF Heard
<1>9. updates' \in [Users -> Seq(Membership)]
  BY <1>1, <1>2, <1>4
<1>10. Services'
  BY <1>1, <1>9 DEF ResourcesInv, Typed, Services
<1>11. \A x \in Users \ {u} : updates'[x] = updates[x]
  BY <1>1, <1>2
<1> QED BY <1>1, <1>5, <1>6, <1>8, <1>10, <1>11, OnlyStep

Denied(u, deny) == [db EXCEPT !.user[u].deny = deny]

LEMMA DecideStep ==
  ASSUME ResourcesInv, NEW u \in Users, Decide(u)
  PROVE  ResourcesInv'
<1>1. PICK command :
        OneStep(IF command = "deny"
                  THEN JobFor(JobFor(Denied(u, command = "deny"), "club", u), "deactivate", u)
                  ELSE JobFor(Denied(u, command = "deny"), "club", u))
  BY DEF Decide, Denied
<1>2. /\ Room(db, 2) /\ silent' = silent \ {u}
      /\ UNCHANGED <<run, ask, group, updates, site, replay, licence, seen, second, failures>>
  BY DEF Decide, outside
<1>3. /\ Only(u, db) /\ Sound(db) /\ db.user[u] \in UserRow
      /\ Room(db, 1) /\ \A v : Len(v.jobs) = Len(db.jobs) + 1 => Room(v, 1)
  BY <1>2, OnlySelf, RoomFor
<1>4. PICK r : r = [db.user[u] EXCEPT !.deny = (command = "deny")]
  OBVIOUS
<1>5. r \in UserRow
  BY <1>3, <1>4 DEF UserRow
<1>6. PICK club : club = JobFor(Put(db, u, r), "club", u)
  OBVIOUS
<1>7. /\ Only(u, club) /\ ClubQueued(u, club)
      /\ Len(club.jobs) = Len(db.jobs) + 1
  BY <1>3, <1>5, <1>6, ClubNoted
<1>8. Room(club, 1) /\ "deactivate" \in Kind
  BY <1>3, <1>7 DEF Kind
<1>9. OneStep(club) \/ OneStep(JobFor(club, "deactivate", u))
  <2>1. Denied(u, command = "deny") = Put(db, u, r)
    BY <1>4 DEF Denied, Put
  <2> QED BY <1>1, <1>6, <2>1
<1>10. PICK v : OneStep(v) /\ Only(u, v) /\ ClubQueued(u, v)
  BY <1>7, <1>8, <1>9, AndMore
<1>11. Heard(u)
  BY <1>10 DEF Heard, OneStep, Commit
<1>12. Services'
  BY <1>2 DEF ResourcesInv, Typed, Services
<1> QED BY <1>2, <1>10, <1>11, <1>12, OnlyStep

\* Only u's row and jobs change, and not u's right.
LEMMA RightStays ==
  ASSUME ResourcesInv, NEW u \in Users, NEW v, Only(u, v), OneStep(v),
         Right(u)' <=> Right(u),
         UNCHANGED <<run, ask, group, updates, site, replay, licence, seen, second, silent, failures>>
  PROVE  ResourcesInv'
<1>1. Heard(u)
  BY SameHeard
<1>2. Services'
  BY DEF ResourcesInv, Typed, Services
<1> QED BY <1>1, <1>2, OnlyStep

LEMMA SiteCommandStep ==
  ASSUME ResourcesInv, NEW u \in Users, SiteCommand(u)
  PROVE  ResourcesInv'
<1>1. PICK command \in DOMAIN SiteKind : OneStep(Queued(db, SiteKind[command], u, TRUE))
  BY DEF SiteCommand
<1>2. /\ Room(db, 1)
      /\ UNCHANGED <<run, ask, group, updates, site, replay, licence, seen, second, silent, failures>>
  BY DEF SiteCommand, outside, bans
<1>3. SiteKind[command] \in Kind
  BY DEF SiteKind, Kind
<1>4. PICK v : v = Queued(db, SiteKind[command], u, TRUE)
  OBVIOUS
<1>5. Only(u, v) /\ v.user = db.user
  BY <1>2, <1>3, <1>4, OnlySelf, OneMore
<1>6. Right(u)' <=> Right(u)
  BY <1>1, <1>2, <1>4, <1>5 DEF OneStep, Commit, Right, Allowed, Barred
<1> QED BY <1>1, <1>2, <1>4, <1>5, <1>6, RightStays

\* Nobody's row, job, update or right changes.
LEMMA QuietStep ==
  ASSUME ResourcesInv, ReadOnly, Services',
         UNCHANGED <<run, ask, group, updates, site, replay, licence, second, silent>>
  PROVE  ResourcesInv'
<1>1. db' = db
  BY DEF ReadOnly
<1>2. \A u \in Users : Heard(u)
  BY <1>1, SameHeard, RightKept, SameRightsSelf
<1> QED BY <1>2, WorldStep

LEMMA StartReconcileStep ==
  ASSUME ResourcesInv, StartReconcile
  PROVE  ResourcesInv'
<1>1. \A u \in Users : db.user[u].delivered \in BOOLEAN
  BY DEF ResourcesInv, Typed, Tables, Sound, Database, UserRow
<1>2. seen' \subseteq SeenRow
  <2>1. ASSUME NEW u \in Users
        PROVE  [user |-> u, barred |-> Barred(db.user[u]), delivered |-> db.user[u].delivered]
                 \in SeenRow
    <3>1. PICK barred \in BOOLEAN : barred = Barred(db.user[u])
      BY DEF Barred
    <3> QED BY <1>1, <3>1 DEF SeenRow
  <2> QED BY <2>1 DEF StartReconcile
<1>3. Services'
  BY <1>2 DEF StartReconcile, outside, bans, ResourcesInv, Typed, Services
<1> QED BY <1>3, QuietStep DEF StartReconcile, outside, bans

LEMMA ReconcileFailsStep ==
  ASSUME ResourcesInv, NEW u \in Users, ReconcileFails(u)
  PROVE  ResourcesInv'
<1>1. seen' \subseteq SeenRow
  BY DEF ReconcileFails, ResourcesInv, Typed, Services
<1>2. failures' \in 0 .. MaxFailures
  BY OneMoreFailure DEF ReconcileFails, Fails, ResourcesInv
<1>3. Services'
  BY <1>1, <1>2 DEF ReconcileFails, outside, bans, ResourcesInv, Typed, Services
<1> QED BY <1>3, QuietStep DEF ReconcileFails, outside, bans

LEMMA CheckedIs ==
  ASSUME ResourcesInv, NEW row, NEW u \in Users, u = row.user, Room(db, 2),
         NEW c, c = Checked(row)
  PROVE  /\ Only(u, c) /\ ClubQueued(u, c)
         /\ Room(db, 3) => Room(c, 1)
<1>1. /\ Only(u, db) /\ Sound(db) /\ db.user[u] \in UserRow
      /\ Room(db, 1) /\ \A v : Len(v.jobs) = Len(db.jobs) + 1 => Room(v, 1)
  BY OnlySelf, RoomFor
<1>2. PICK r : r = [db.user[u] EXCEPT !.status = group[u]]
  OBVIOUS
<1>3. r \in UserRow
  <2>1. group[u] \in Membership
    BY DEF ResourcesInv, Typed, Services
  <2> QED BY <1>1, <1>2, <2>1 DEF UserRow
<1>4. PICK club : club = JobFor(Put(db, u, r), "club", u)
  OBVIOUS
<1>5. /\ Only(u, club) /\ ClubQueued(u, club) /\ Len(club.jobs) = Len(db.jobs) + 1
  BY <1>1, <1>3, <1>4, ClubNoted
<1>6. Room(club, 1) /\ {"deactivate", "restore"} \subseteq Kind
  BY <1>1, <1>5 DEF Kind
<1>7. PICK kind \in Kind : c \in {club, JobFor(club, kind, u)}
  BY <1>2, <1>4, <1>6 DEF Checked, Put
<1>8. CASE c = club
  BY <1>1, <1>5, <1>8, JobList, BoundsAssumption DEF Room, Sound
<1>9. CASE c = JobFor(club, kind, u)
  <2>1. Only(u, c) /\ ClubQueued(u, c) /\ Len(c.jobs) = Len(club.jobs) + 1
    BY <1>5, <1>6, <1>9, AndMore
  <2> QED BY <1>1, <1>5, <2>1, JobList, BoundsAssumption DEF Room, Sound
<1> QED BY <1>7, <1>8, <1>9

LEMMA ReconcileStep ==
  ASSUME ResourcesInv, NEW u \in Users, Reconcile(u)
  PROVE  ResourcesInv'
<1>1. PICK row \in seen : row.user = u /\ Queues(row) /\ seen' = seen \ {row}
  BY DEF Reconcile
<1>2. /\ silent' = silent \ {u}
      /\ UNCHANGED <<run, ask, group, updates, site, replay, licence, second, failures>>
  BY DEF Reconcile, outside
<1>3. PICK c : c = Checked(row)
  OBVIOUS
<1>4. PICK v : OneStep(v) /\ Only(u, v) /\ ClubQueued(u, v)
  <2>1. CASE Room(db, 2) /\ OneStep(c)
    BY <1>1, <1>3, <2>1, CheckedIs
  <2>2. CASE Room(db, 3) /\ OneStep(JobFor(c, "deactivate", u))
    <3>1. Room(db, 2)
      BY <2>2, OnlySelf, RoomFor
    <3>2. Only(u, c) /\ ClubQueued(u, c) /\ Room(c, 1) /\ "deactivate" \in Kind
      BY <1>1, <1>3, <2>2, <3>1, CheckedIs DEF Kind
    <3>3. PICK v : v = JobFor(c, "deactivate", u)
      OBVIOUS
    <3> QED BY <2>2, <3>2, <3>3, AndMore
  <2> QED BY <1>1, <1>3, <2>1, <2>2 DEF Queues
<1>5. Heard(u)
  BY <1>4 DEF Heard, OneStep, Commit
<1>6. Services'
  BY <1>1, <1>2 DEF ResourcesInv, Typed, Services
<1> QED BY <1>2, <1>4, <1>5, <1>6, OnlyStep

\* A membership changes: an update is on its way.
LEMMA MovesHeard ==
  ASSUME Typed, NEW u \in Users, NEW m \in Membership, Moves(u, m)
  PROVE  /\ Heard(u) /\ UNCHANGED <<site, replay, licence>>
         /\ group' \in [Users -> Membership] /\ updates' \in [Users -> Seq(Membership)]
         /\ \A x \in Users \ {u} : group'[x] = group[x] /\ updates'[x] = updates[x]
<1>1. /\ group \in [Users -> Membership] /\ updates \in [Users -> Seq(Membership)]
      /\ group' = [group EXCEPT ![u] = m]
      /\ updates' = [updates EXCEPT ![u] = Append(updates[u], m)]
      /\ UNCHANGED <<site, replay, licence>>
  BY DEF Typed, Services, Moves
<1>2. updates[u] \in Seq(Membership)
  BY <1>1
<1>3. Append(updates[u], m) \in Seq(Membership) /\ Append(updates[u], m) # << >>
  BY <1>2, AppendProperties
<1>4. updates'[u] # << >> /\ updates' \in [Users -> Seq(Membership)]
  BY <1>1, <1>3
<1> QED BY <1>1, <1>4 DEF Heard

LEMMA MoveStep ==
  ASSUME ResourcesInv, NEW u \in Users, Move(u)
  PROVE  ResourcesInv'
<1>1. PICK m \in Membership : Moves(u, m)
  BY DEF Move
<1>2. ReadOnly /\ UNCHANGED <<run, ask, seen, second, silent, failures>> /\ db' = db
  BY DEF Move, ReadOnly, bans
<1>3. /\ Heard(u) /\ UNCHANGED <<site, replay, licence>>
      /\ group' \in [Users -> Membership] /\ updates' \in [Users -> Seq(Membership)]
      /\ \A x \in Users \ {u} : group'[x] = group[x] /\ updates'[x] = updates[x]
  BY <1>1, MovesHeard DEF ResourcesInv
<1>4. ASSUME NEW x \in Users \ {u} PROVE Heard(x)
  <2>1. Right(x)' <=> Right(x)
    BY <1>2, <1>3 DEF Right, Allowed
  <2> QED BY <1>2, <1>3, <2>1, SameHeard
<1>5. \A x \in Users : Heard(x)
  BY <1>3, <1>4
<1>6. Services'
  BY <1>2, <1>3 DEF ResourcesInv, Typed, Services
<1> QED BY <1>2, <1>3, <1>5, <1>6, WorldStep

\* A membership changes, and u's row with it.
LEMMA MovesRow ==
  ASSUME ResourcesInv, NEW u \in Users, NEW m \in Membership, Moves(u, m),
         NEW v, Only(u, v), OneStep(v), UNCHANGED <<run, ask, seen>>,
         second' \subseteq Users, silent' \subseteq Users, silent \subseteq silent',
         failures' \in 0 .. MaxFailures
  PROVE  ResourcesInv'
<1>1. /\ Heard(u) /\ UNCHANGED <<site, replay, licence>>
      /\ group' \in [Users -> Membership] /\ updates' \in [Users -> Seq(Membership)]
      /\ \A x \in Users \ {u} : group'[x] = group[x] /\ updates'[x] = updates[x]
  BY MovesHeard DEF ResourcesInv
<1>2. Services'
  BY <1>1 DEF ResourcesInv, Typed, Services
<1>3. \A x \in Users \ {u} : x \in silent => x \in silent'
  OBVIOUS
<1> QED BY <1>1, <1>2, <1>3, OnlyStep

LEMMA ApprovedStep ==
  ASSUME ResourcesInv, NEW u \in Users, Approved(u)
  PROVE  ResourcesInv'
<1>1. PICK r : r = [db.user[u] EXCEPT !.status = "in"]
  OBVIOUS
<1>2. PICK v : v = [db EXCEPT !.user = [db.user EXCEPT ![u] = r]]
  OBVIOUS
<1>3. Only(u, db) /\ r \in UserRow
  <2>1. Only(u, db) /\ db.user[u] \in UserRow
    BY OnlySelf
  <2> QED BY <1>1, <2>1 DEF UserRow, Membership
<1>4. Only(u, v)
  BY <1>2, <1>3, RowPut
<1>5. OneStep(v)
  BY <1>1, <1>2 DEF Approved
<1>6. /\ Moves(u, "in") /\ "in" \in Membership /\ UNCHANGED <<run, ask, seen, second, silent>>
      /\ second \subseteq Users /\ silent \subseteq Users /\ failures' \in 0 .. MaxFailures
  BY DEF Approved, Membership, ResourcesInv, Typed, Services, bans
<1> QED BY <1>4, <1>5, <1>6, MovesRow

LEMMA BotRemovesStep ==
  ASSUME ResourcesInv, NEW u \in Users, BotRemoves(u)
  PROVE  ResourcesInv'
<1>1. PICK r : r = [db.user[u] EXCEPT !.system = TRUE]
  OBVIOUS
<1>2. PICK marked : marked = [db EXCEPT !.user = [db.user EXCEPT ![u] = r]]
  OBVIOUS
<1>3. Only(u, db) /\ r \in UserRow
  <2>1. Only(u, db) /\ db.user[u] \in UserRow
    BY OnlySelf
  <2> QED BY <1>1, <2>1 DEF UserRow
<1>4. Only(u, marked) /\ marked.jobs = db.jobs
  BY <1>2, <1>3, RowPut
<1>5. OneStep(marked) \/ (Room(db, 1) /\ OneStep(JobFor(marked, "deactivate", u)))
  BY <1>1, <1>2 DEF BotRemoves
<1>6. /\ Moves(u, "kicked") /\ "kicked" \in Membership /\ UNCHANGED <<run, ask, seen, second, silent>>
      /\ second \subseteq Users /\ silent \subseteq Users /\ failures' \in 0 .. MaxFailures
  BY DEF BotRemoves, Membership, ResourcesInv, Typed, Services, bans
<1>7. PICK v : OneStep(v) /\ Only(u, v)
  <2>1. CASE OneStep(marked)
    BY <1>4, <2>1
  <2>2. CASE Room(db, 1) /\ OneStep(JobFor(marked, "deactivate", u))
    <3>1. PICK kind \in Kind, manual \in BOOLEAN : kind = "deactivate" /\ manual = FALSE
      BY DEF Kind
    <3>2. PICK v : v = Queued(marked, kind, u, manual)
      OBVIOUS
    <3>3. Room(marked, 1)
      BY <1>4, <2>2 DEF Room
    <3>4. Only(u, v)
      BY <1>4, <3>2, <3>3, OneMore
    <3> QED BY <2>2, <3>1, <3>2, <3>4 DEF JobFor
  <2> QED BY <1>5, <2>1, <2>2
<1> QED BY <1>6, <1>7, MovesRow

\* A ban is lifted or put back: silently, when the member is in the group.
LEMMA BanSet ==
  ASSUME ResourcesInv, NEW u \in Users, NEW banned \in BOOLEAN, NEW system \in BOOLEAN,
         NEW status \in Membership \cup {"unknown"}, NEW v,
         v = Put(db, u, [db.user[u] EXCEPT !.banned = banned, !.system = system,
                                           !.status = status]),
         OneStep(v), UNCHANGED <<run, ask, seen>>,
         second' \subseteq Users, failures' \in 0 .. MaxFailures,
         silent' = IF group[u] = "in" THEN silent \cup {u} ELSE silent,
         (group[u] = "kicked" /\ Moves(u, "left")) \/ UNCHANGED outside
  PROVE  ResourcesInv'
<1>1. PICK r : r = [db.user[u] EXCEPT !.banned = banned, !.system = system, !.status = status]
  OBVIOUS
<1>2. Only(u, db) /\ db.user[u] \in UserRow
  BY OnlySelf
<1>3. r \in UserRow
  BY <1>1, <1>2 DEF UserRow
<1>4. Only(u, v) /\ db' = v
  BY <1>1, <1>2, <1>3, RowPut DEF Put, OneStep, Commit
<1>5. silent \subseteq silent' /\ silent' \subseteq Users
  BY DEF ResourcesInv, Typed, Services
<1>6. CASE Moves(u, "left")
  BY <1>4, <1>5, <1>6, MovesRow DEF Membership
<1>7. CASE UNCHANGED outside
  <2>1. UNCHANGED <<group, updates, site, replay, licence>>
    BY <1>7 DEF outside
  <2>2. Services'
    BY <1>5, <2>1 DEF ResourcesInv, Typed, Services
  <2>3. Heard(u)
    <3>1. CASE group[u] = "in"
      BY <3>1 DEF Heard
    <3>2. CASE group[u] # "in"
      <4>1. Right(u)' <=> Right(u)
        BY <2>1, <3>2 DEF Right, Allowed
      <4> QED BY <1>5, <2>1, <4>1, SameHeard
    <3> QED BY <3>1, <3>2
  <2> QED BY <1>4, <1>5, <2>1, <2>2, <2>3, OnlyStep
<1> QED BY <1>6, <1>7

LEMMA BanLiftedStep ==
  ASSUME ResourcesInv, NEW u \in Users, BanLifted(u)
  PROVE  ResourcesInv'
<1>1. PICK r : r = [db.user[u] EXCEPT !.banned = FALSE, !.system = FALSE, !.status = "unknown"]
  OBVIOUS
<1>2. db.user[u] \in UserRow /\ db.user \in [Users -> UserRow]
  BY OnlySelf DEF Sound, Database
<1>3. [db EXCEPT !.user[u].banned = FALSE, !.user[u].system = FALSE,
                 !.user[u].status = "unknown"] = Put(db, u, r)
  <2>1. db = [user |-> db.user, jobs |-> db.jobs]
    BY OnlySelf DEF Sound, Database
  <2> QED BY <1>1, <1>2, <2>1, Zenon DEF UserRow, Put
<1>4. OneStep(Put(db, u, r))
  BY <1>3 DEF BanLifted
<1>5. second' \subseteq Users /\ failures' \in 0 .. MaxFailures
  BY OneMoreFailure DEF BanLifted, Fails, ResourcesInv, Typed, Services
<1>6. /\ UNCHANGED <<run, ask, seen>>
      /\ silent' = IF group[u] = "in" THEN silent \cup {u} ELSE silent
      /\ (group[u] = "kicked" /\ Moves(u, "left")) \/ UNCHANGED outside
  BY DEF BanLifted
<1>7. PICK banned \in BOOLEAN, system \in BOOLEAN, status \in Membership \cup {"unknown"} :
        banned = FALSE /\ system = FALSE /\ status = "unknown"
  OBVIOUS
<1>8. r = [db.user[u] EXCEPT !.banned = banned, !.system = system, !.status = status]
  BY <1>1, <1>7
<1>9. PICK v : v = Put(db, u, r)
  OBVIOUS
<1> QED BY <1>4, <1>5, <1>6, <1>8, <1>9, BanSet

LEMMA BannedAgainStep ==
  ASSUME ResourcesInv, NEW u \in Users, BannedAgain(u)
  PROVE  ResourcesInv'
<1>1. PICK status \in {db.user[u].status, "unknown"} :
        OneStep([db EXCEPT !.user[u].banned = TRUE, !.user[u].status = status])
  BY DEF BannedAgain
<1>2. /\ db.user[u] \in UserRow /\ db.user \in [Users -> UserRow]
      /\ db = [user |-> db.user, jobs |-> db.jobs]
  BY OnlySelf DEF Sound, Database
<1>3. PICK system \in BOOLEAN : system = db.user[u].system
  BY <1>2 DEF UserRow
<1>4. status \in Membership \cup {"unknown"}
  BY <1>1, <1>2 DEF UserRow
<1>5. PICK banned \in BOOLEAN : banned = TRUE
  OBVIOUS
<1>6. PICK r : r = [db.user[u] EXCEPT !.banned = banned, !.system = system, !.status = status]
  OBVIOUS
<1>7. [db EXCEPT !.user[u].banned = TRUE, !.user[u].status = status] = Put(db, u, r)
  <2>1. r = [db.user[u] EXCEPT !.banned = TRUE, !.status = status]
    BY <1>2, <1>3, <1>5, <1>6 DEF UserRow
  <2> QED BY <1>2, <2>1, Zenon DEF Put
<1>8. PICK v : v = Put(db, u, r) /\ OneStep(v)
  BY <1>1, <1>7
<1>9. /\ UNCHANGED <<run, ask, seen>> /\ UNCHANGED outside
      /\ second' \subseteq Users /\ failures' \in 0 .. MaxFailures
      /\ silent' = IF group[u] = "in" THEN silent \cup {u} ELSE silent
  BY DEF BannedAgain, ResourcesInv, Typed, Services
<1> QED BY <1>4, <1>6, <1>8, <1>9, BanSet


---------------------------------------------------------------------------
(* The theorems. *)

LEMMA InitInv ==
  ASSUME Init
  PROVE  ResourcesInv
<1>1. /\ db = [user |-> [u \in Users |-> [deny |-> FALSE, banned |-> FALSE,
                    system |-> FALSE, status |-> "in", delivered |-> u \in Accounts]],
                jobs |-> << >>]
      /\ site = [u \in Users |-> IF u \in Accounts THEN "open" ELSE "blocked"]
  BY DEF Init
<1>2. /\ work = db /\ holder = "none" /\ run = Resting /\ ask = Resting
      /\ group = [u \in Users |-> "in"] /\ updates = [u \in Users |-> << >>]
      /\ replay = {} /\ licence = [u \in Users |-> "active"]
      /\ seen = {} /\ second = {} /\ silent = {} /\ failures = 0
  BY DEF Init
<1>3. /\ db.jobs = << >>
      /\ \A u \in Users : db.user[u].deny = FALSE /\ db.user[u].banned = FALSE
  BY <1>1
<1>4. db \in Database
  BY <1>1 DEF Database, UserRow, Membership
<1>5. Sound(db)
  BY <1>3, <1>4 DEF Sound, KeysDiffer
<1>6. Tables
  BY <1>2, <1>5 DEF Tables
<1>7. Services
  BY <1>1, <1>2, BoundsAssumption DEF Services, Membership
<1>8. Locks
  BY <1>2, SameRightsSelf DEF Locks, Ask, Resting
<1>9. RunKnown
  BY <1>2 DEF RunKnown, Run, Calling, Resting
<1>10. Granted /\ Answering
  BY <1>2 DEF Granted, Answering, Resting
<1>11. ASSUME NEW u \in Users PROVE licence[u] = "active" /\ Right(u)
  BY <1>2, <1>3 DEF Right, Allowed, Barred
<1>12. Owed
  BY <1>11 DEF Owed, Settled
<1> QED BY <1>6, <1>7, <1>8, <1>9, <1>10, <1>12 DEF ResourcesInv, Typed

LEMMA StutterStep ==
  ASSUME ResourcesInv, UNCHANGED vars
  PROVE  ResourcesInv'
<1>1. /\ ReadOnly
      /\ UNCHANGED <<run, ask, group, updates, site, replay, licence, seen, second, silent, failures>>
  BY DEF vars, outside, bans, ReadOnly
<1>2. Services'
  BY <1>1 DEF ResourcesInv, Typed, Services
<1> QED BY <1>1, <1>2, QuietStep

LEMMA NextInv ==
  ASSUME ResourcesInv, [Next]_vars
  PROVE  ResourcesInv'
<1>1. CASE HourlyRun
  BY <1>1, StartRunStep, CheckClubStep, ClubAnswerStep, SiteAnswerStep, CheckClubFailsStep, CallLicencesStep, LicencesFailStep,
     TurnToSiteStep, TakeCommandStep, CheckSiteStep, CheckSiteFailsStep, CallWordPressStep,
     WordPressRefusesStep, RunAbortsStep, FinishRunStep DEF HourlyRun
<1>2. CASE SiteAccess
  BY <1>2, SiteGivenStep, SiteNotGivenStep, AskSiteStep DEF SiteAccess
<1>3. CASE World
  BY <1>3, DeliverStep, DecideStep, SiteCommandStep, ReconcileStep, ReconcileFailsStep, MoveStep,
     ApprovedStep, BotRemovesStep, BanLiftedStep, BannedAgainStep, StartReconcileStep, CrashStep DEF World
<1>4. CASE UNCHANGED vars
  BY <1>4, StutterStep
<1> QED BY <1>1, <1>2, <1>3, <1>4 DEF Next

\* The inductive invariant: what the holder of the lock keeps to itself, who is
\* about to open something, and where each change of a right is on its way.
THEOREM ResourcesInvariant == Spec => []ResourcesInv
<1>1. Init => ResourcesInv
  BY InitInv
<1>2. ResourcesInv /\ [Next]_vars => ResourcesInv'
  BY NextInv
<1> QED BY <1>1, <1>2, PTL DEF Spec

\* The tables, the run and the two services keep their types; no two pending
\* jobs share a key, and a run never has a job in hand that is not pending.
THEOREM TypeCorrect == Spec => []TypeOK
<1>1. ResourcesInv => TypeOK
  BY TypeOKIs DEF ResourcesInv
<1> QED BY <1>1, ResourcesInvariant, PTL

\* When nothing is under way for a member, the licences agree with the right to
\* them: no failure, restart or order of events loses a change of the group or
\* of the row that queued a job (club_licenses.process_club_jobs keeps what it
\* could not do); a ban lifted or put back for a member of the group queues none.
THEOREM LicencesFollow == Spec => []LicenceFollowsGroup
<1>1. ResourcesInv => LicenceFollowsGroup
  <2> SUFFICES ASSUME ResourcesInv, NEW u \in Users \ silent, Quiet(u)
               PROVE  licence[u] = "active" <=> Allowed(db, u)
    BY DEF LicenceFollowsGroup
  <2>1. Settled(u, db) /\ updates[u] = << >>
    BY DEF ResourcesInv, Owed, Quiet
  <2>2. \A j \in Rows(db) : ~ClubJob(j, u)
    BY DEF Quiet, Rows, Range, ClubJob
  <2> QED BY <2>1, <2>2 DEF Settled, Right
<1> QED BY <1>1, ResourcesInvariant, PTL

\* Which step opens something, and for whom.
LEMMA WhoReopens ==
  ASSUME ResourcesInv, [Next]_vars, NEW u \in Users, Reopened(u)
  PROVE  \/ run.pc = "licences" /\ run' # run /\ run.allowed /\ u = This.user
         \/ run.pc = "wordpress" /\ run' # run /\ This.kind # "deactivate" /\ u = This.user
         \/ ask.pc = "calling" /\ u = ask.user
<1>1. Typed
  BY DEF ResourcesInv
<1>2. licence'[u] # licence[u] \/ (site'[u] # site[u] /\ site'[u] = "open")
  BY DEF Reopened
<1>3. CASE /\ run.pc = "licences" /\ licence' \in {licence, Switched} /\ site' = site
           /\ run' # run
  BY <1>1, <1>2, <1>3, SwitchedFor DEF Reopened
<1>4. CASE /\ run.pc = "wordpress" /\ site' \in {site, Applied} /\ licence' = licence
           /\ run' # run
  BY <1>1, <1>2, <1>4, AppliedIs
<1>5. CASE /\ ask.pc = "calling" /\ licence' = licence
           /\ site' \in {site, [site EXCEPT ![ask.user] = "open"]}
  BY <1>1, <1>2, <1>5 DEF Typed, Services
<1>6. CASE UNCHANGED <<licence, site>>
  BY <1>2, <1>6
<1>7. CASE HourlyRun
  <2>1. CASE CallLicences \/ LicencesFail
    <3>1. run'.pc = "club"
      BY <2>1 DEF CallLicences, LicencesFail, Phase
    <3>2. run.pc = "licences" /\ licence' \in {licence, Switched} /\ site' = site
      BY <2>1 DEF CallLicences, LicencesFail
    <3> QED BY <1>3, <3>1, <3>2
  <2>2. CASE CallWordPress \/ WordPressRefuses
    <3>1. run'.pc = "site"
      BY <2>2 DEF CallWordPress, WordPressRefuses, Phase
    <3>2. run.pc = "wordpress" /\ site' \in {site, Applied} /\ licence' = licence
      BY <2>2 DEF CallWordPress, WordPressRefuses
    <3> QED BY <1>4, <3>1, <3>2
  <2>3. CASE RunAborts
    <3>1. run' # run
      BY <2>3 DEF RunAborts, Resting
    <3> QED BY <1>3, <1>4, <1>6, <2>3, <3>1 DEF RunAborts
  <2>4. CASE \/ StartRun \/ CheckClub \/ ClubAnswer \/ CheckClubFails \/ TurnToSite \/ TakeCommand
             \/ CheckSite \/ SiteAnswer \/ CheckSiteFails \/ FinishRun
    BY <1>6, <2>4, Zenon DEF StartRun, CheckClub, ClubAnswer, CheckClubFails, TurnToSite,
       TakeCommand, CheckSite, SiteAnswer, CheckSiteFails, FinishRun, outside
  <2> QED BY <1>7, <2>1, <2>2, <2>3, <2>4 DEF HourlyRun
<1>8. CASE SiteAccess
  <2>1. CASE SiteGiven \/ SiteNotGiven
    BY <1>5, <2>1 DEF SiteGiven, SiteNotGiven
  <2>2. CASE \E x \in Users : AskSite(x)
    BY <1>6, <2>2, Zenon DEF AskSite, outside
  <2> QED BY <1>8, <2>1, <2>2 DEF SiteAccess
<1>9. CASE World
  BY <1>6, <1>9, Zenon DEF World, Deliver, Decide, SiteCommand, Reconcile, ReconcileFails, Move,
     Approved, BotRemoves, BanLifted, BannedAgain, Moves, StartReconcile, Crash, outside
<1>10. CASE UNCHANGED vars
  BY <1>6, <1>10 DEF vars, outside
<1> QED BY <1>7, <1>8, <1>9, <1>10 DEF Next

\* A ban or deny that is recorded is not undone by a job or a request that was
\* checked before it, except by the operator's own site command and by a run
\* that held no lock while it asked Telegram (club_access.refresh_club_member,
\* before the first write of main.process_site_access_jobs).
THEOREM BarredMembersStayOut == Spec => BarredStaysOut
<1>1. ASSUME ResourcesInv, [Next]_vars
      PROVE  \A u \in Users : Reopened(u) =>
               ByCommand(u) \/ Overtaken(u) \/ ~Barred(db.user[u])
  <2> SUFFICES ASSUME NEW u \in Users, Reopened(u), ~ByCommand(u), ~Overtaken(u)
               PROVE  ~Barred(db.user[u])
    OBVIOUS
  <2>1. CASE run.pc = "licences" /\ run' # run /\ run.allowed /\ u = This.user
    <3>1. This \in Rows(Current) /\ This.id = run.job
      BY <1>1, <2>1, ThisRow DEF ResourcesInv, Calling
    <3>2. ~run.late
      BY <2>1 DEF Overtaken, OfRun
    <3> QED BY <1>1, <2>1, <3>1, <3>2 DEF ResourcesInv, Granted
  <2>2. CASE run.pc = "wordpress" /\ run' # run /\ This.kind # "deactivate" /\ u = This.user
    <3>1. This \in Rows(Current) /\ This.id = run.job
      BY <1>1, <2>2, ThisRow DEF ResourcesInv, Calling
    <3>2. ~This.manual /\ ~run.late
      BY <2>2 DEF ByCommand, Overtaken, OfRun
    <3> QED BY <1>1, <2>2, <3>1, <3>2 DEF ResourcesInv, Granted
  <2>3. CASE ask.pc = "calling" /\ u = ask.user
    BY <1>1, <2>3 DEF ResourcesInv, Granted
  <2> QED BY <1>1, <2>1, <2>2, <2>3, WhoReopens
<1>2. ResourcesInv /\ [Next]_vars
        => [\A u \in Users : Reopened(u) =>
              ByCommand(u) \/ Overtaken(u) \/ ~Barred(db.user[u])]_vars
  BY <1>1
<1> QED BY <1>2, ResourcesInvariant, PTL DEF Spec, BarredStaysOut
=============================================================================
