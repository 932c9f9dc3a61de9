------------------------ MODULE SubscriptionsProofs ------------------------
(***************************************************************************)
(* Proofs about Subscriptions, for any set of subscriptions, any number of *)
(* events, any size of a batch and any number of overlapping runs of       *)
(* either job.                                                             *)
(***************************************************************************)
EXTENDS Subscriptions, FiniteSetTheorems, WellFoundedInduction, TLAPS

\* Induction over Nat, for a set S that is closed under successors.
LEMMA CountingSet ==
  ASSUME NEW S, 0 \in S, \A n \in Nat : n \in S => n + 1 \in S
  PROVE  \A n \in Nat : n \in S
<1> SUFFICES ASSUME Nat \ S # {} PROVE FALSE
  OBVIOUS
<1> DEFINE R == {ss \in Nat \X Nat : ss[1] < ss[2]}
<1>1. R = OpToRel(<, Nat)
  BY Zenon DEF OpToRel
<1>2. IsWellFoundedOn(R, Nat)
  BY <1>1, NatLessThanWellFounded
<1>3. PICK x \in Nat \ S : \A y \in Nat \ S : ~(<<y, x>> \in R)
  <2>1. Nat \ S \subseteq Nat
    OBVIOUS
  <2> HIDE DEF R
  <2> QED BY <1>2, <2>1, WFMin
<1>a. \A y \in Nat \ S : ~(y < x)
  BY <1>3
<1> HIDE DEF R
<1>4. x - 1 \in Nat /\ x = (x - 1) + 1
  BY <1>3
<1>5. x - 1 \in S
  BY <1>a, <1>4
<1> QED BY <1>4, <1>5

(***************************************************************************)
(* Stripe and its events.                                                  *)

StripeTyped ==
  /\ stripe \in [Subs -> [status : Statuses \cup {"pending"}, period : Term]]
  /\ events \in Seq(Event) /\ Len(events) <= MaxEvents

Of(es, i, s) == es[i].sub = s
Changes(es, i, s) == es[i].sub = s /\ es[i].type # "completed"
Dates(es, i, s) == Changes(es, i, s) /\ es[i].until # None

\* What the first m events say of subscription s.
SaysStatus(es, m, s, status) ==
  \/ status = "pending" /\ \A i \in 1 .. m : ~Changes(es, i, s)
  \/ \E i \in 1 .. m : /\ Changes(es, i, s) /\ status = es[i].status
                       /\ \A j \in 1 .. m : j > i => ~Changes(es, j, s)
SaysUntil(es, m, s, until) ==
  \/ until = None /\ \A i \in 1 .. m : ~Dates(es, i, s)
  \/ \E i \in 1 .. m : /\ Dates(es, i, s) /\ until = es[i].until
                       /\ \A j \in 1 .. m : j > i => ~Dates(es, j, s)
Says(es, m, s, status, until) == SaysStatus(es, m, s, status) /\ SaysUntil(es, m, s, until)

LEMMA SaysUnique ==
  ASSUME NEW es, NEW m \in Nat, NEW s, NEW a, NEW b, NEW c, NEW d,
         Says(es, m, s, a, c), Says(es, m, s, b, d)
  PROVE  a = b /\ c = d
<1>1. \A i \in 1 .. m, j \in 1 .. m : i > j \/ j > i \/ i = j
  OBVIOUS
<1>2. a = b
  BY <1>1 DEF Says, SaysStatus
<1>3. c = d
  BY <1>1 DEF Says, SaysUntil
<1> QED BY <1>2, <1>3

LEMMA SaysFirst ==
  ASSUME NEW es, NEW m \in Nat, NEW s, \A i \in 1 .. m : ~Of(es, i, s)
  PROVE  Says(es, m, s, "pending", None)
BY DEF Says, SaysStatus, SaysUntil, Changes, Dates, Of

LEMMA SaysSame ==
  ASSUME NEW es, NEW fs, NEW m \in Nat, \A i \in 1 .. m : es[i] = fs[i],
         NEW s, NEW status, NEW until, Says(es, m, s, status, until)
  PROVE  Says(fs, m, s, status, until)
<1>1. \A i \in 1 .. m : Changes(es, i, s) <=> Changes(fs, i, s)
  BY DEF Changes
<1>2. \A i \in 1 .. m : Dates(es, i, s) <=> Dates(fs, i, s)
  BY <1>1 DEF Dates
<1>3. SaysStatus(fs, m, s, status)
  BY <1>1 DEF Says, SaysStatus
<1>4. SaysUntil(fs, m, s, until)
  BY <1>2 DEF Says, SaysUntil
<1> QED BY <1>3, <1>4 DEF Says

LEMMA SaysNext ==
  ASSUME NEW es, NEW m \in Nat, NEW s, NEW status, NEW until, Says(es, m, s, status, until)
  PROVE  /\ ~Changes(es, m + 1, s) => Says(es, m + 1, s, status, until)
         /\ Changes(es, m + 1, s) =>
              Says(es, m + 1, s, es[m + 1].status,
                   IF es[m + 1].until = None THEN until ELSE es[m + 1].until)
<1>1. \A i \in 1 .. m + 1 : i \in 1 .. m \/ i = m + 1
  OBVIOUS
<1>2. 1 .. m \subseteq 1 .. m + 1 /\ m + 1 \in 1 .. m + 1 /\ \A i \in 1 .. m : m + 1 > i /\ ~(i > m + 1)
  OBVIOUS
<1>3. ASSUME ~Changes(es, m + 1, s) PROVE SaysStatus(es, m + 1, s, status)
  BY <1>1, <1>2, <1>3 DEF Says, SaysStatus
<1>4. ASSUME ~Dates(es, m + 1, s) PROVE SaysUntil(es, m + 1, s, until)
  BY <1>1, <1>2, <1>4 DEF Says, SaysUntil
<1>5. ASSUME Changes(es, m + 1, s) PROVE SaysStatus(es, m + 1, s, es[m + 1].status)
  <2>1. \A j \in 1 .. m + 1 : j > m + 1 => ~Changes(es, j, s)
    OBVIOUS
  <2> QED BY <1>2, <1>5, <2>1 DEF SaysStatus
<1>6. ASSUME Dates(es, m + 1, s) PROVE SaysUntil(es, m + 1, s, es[m + 1].until)
  <2>1. \A j \in 1 .. m + 1 : j > m + 1 => ~Dates(es, j, s)
    OBVIOUS
  <2> QED BY <1>2, <1>6, <2>1 DEF SaysUntil
<1>7. Dates(es, m + 1, s) <=> Changes(es, m + 1, s) /\ es[m + 1].until # None
  BY DEF Dates
<1> QED BY <1>3, <1>4, <1>5, <1>6, <1>7 DEF Says

\* Every event about an invoice follows another of its subscription, and a
\* completed checkout says nothing of status or term.
EventsFollow ==
  /\ \A i \in 1 .. Len(events) : events[i].type \in {"paid", "failed"} =>
       \E j \in 1 .. i - 1 : Of(events, j, events[i].sub)
  /\ \A i \in 1 .. Len(events) : events[i].type = "completed" =>
       events[i].status = "pending" /\ events[i].until = None

StripeSays ==
  \A s \in Subs : Says(events, Len(events), s, stripe[s].status, stripe[s].period)

StripeInv == StripeTyped /\ EventsFollow /\ StripeSays

LEMMA Appended ==
  ASSUME NEW T, NEW q \in Seq(T), NEW x \in T, NEW r, r = Append(q, x)
  PROVE  /\ r \in Seq(T) /\ Len(r) = Len(q) + 1 /\ Len(q) \in Nat /\ r[Len(r)] = x
         /\ \A i \in 1 .. Len(q) : r[i] = q[i]
         /\ \A i \in 1 .. Len(r) : i \in 1 .. Len(q) \/ i = Len(r)
OBVIOUS

LEMMA StripeInvInit == Init => StripeInv
<1> SUFFICES ASSUME Init PROVE StripeInv
  OBVIOUS
<1>1. events = <<>> /\ stripe = [s \in Subs |-> [status |-> "pending", period |-> None]]
  BY DEF Init
<1>2. Len(events) = 0 /\ events \in Seq(Event)
  BY <1>1
<1>3. StripeTyped
  BY <1>1, <1>2, BoundAssumption DEF StripeTyped, Term
<1>4. \A s \in Subs : Says(events, 0, s, "pending", None)
  BY SaysFirst
<1>5. StripeSays
  BY <1>1, <1>2, <1>4 DEF StripeSays
<1>6. EventsFollow
  BY <1>2 DEF EventsFollow
<1> QED BY <1>3, <1>5, <1>6 DEF StripeInv

LEMMA StripeInvEmits ==
  ASSUME StripeInv, NEW s \in Subs, NEW type \in Types, NEW status \in Statuses \cup {"pending"},
         NEW until \in Term, Emits(s, type, status, until),
         type \in {"paid", "failed"} => Begun(s),
         type = "completed" => status = "pending" /\ until = None
  PROVE  StripeInv'
<1> DEFINE e == [sub |-> s, type |-> type, status |-> status, until |-> until]
           n == Len(events)
<1>1. StripeTyped /\ EventsFollow /\ StripeSays
  BY DEF StripeInv
<1>2. e \in Event /\ events \in Seq(Event) /\ events' = Append(events, e) /\ n < MaxEvents
  BY <1>1 DEF StripeTyped, Event, Emits
<1>e. /\ e.sub = s /\ e.type = type /\ e.status = status /\ e.until = until
  OBVIOUS
<1> HIDE DEF e
<1>3. /\ events' \in Seq(Event) /\ Len(events') = n + 1 /\ n \in Nat /\ events'[n + 1] = e
      /\ \A i \in 1 .. n : events'[i] = events[i]
      /\ \A i \in 1 .. n + 1 : i \in 1 .. n \/ i = n + 1
  BY <1>2, Appended
<1>4. stripe' = IF type = "completed" THEN stripe
               ELSE [stripe EXCEPT ![s] = [status |-> status,
                                           period |-> IF until = None THEN @.period ELSE until]]
  BY DEF Emits
<1>5. StripeTyped'
  <2>1. stripe' \in [Subs -> [status : Statuses \cup {"pending"}, period : Term]]
    BY <1>1, <1>4 DEF StripeTyped
  <2>2. Len(events') <= MaxEvents
    BY <1>2, <1>3, BoundAssumption
  <2> QED BY <1>3, <2>1, <2>2 DEF StripeTyped
<1>6. EventsFollow'
  <2>1. \A i \in 1 .. n : events'[i].type \in {"paid", "failed"} =>
          \E j \in 1 .. i - 1 : Of(events', j, events'[i].sub)
    <3> SUFFICES ASSUME NEW i \in 1 .. n, events'[i].type \in {"paid", "failed"}
                 PROVE  \E j \in 1 .. i - 1 : Of(events', j, events'[i].sub)
      OBVIOUS
    <3>1. events'[i] = events[i]
      BY <1>3
    <3>2. PICK j \in 1 .. i - 1 : Of(events, j, events[i].sub)
      BY <1>1, <3>1 DEF EventsFollow
    <3>3. j \in 1 .. n
      BY <1>3
    <3>4. events'[j] = events[j]
      BY <1>3, <3>3
    <3> QED BY <3>1, <3>2, <3>4 DEF Of
  <2>2. type \in {"paid", "failed"} => \E j \in 1 .. n : Of(events', j, s)
    BY <1>3 DEF Begun, Of
  <2>3. (n + 1) - 1 = n
    BY <1>3
  <2>4. \A i \in 1 .. n + 1 : events'[i].type \in {"paid", "failed"} =>
          \E j \in 1 .. i - 1 : Of(events', j, events'[i].sub)
    <3> SUFFICES ASSUME NEW i \in 1 .. n + 1, events'[i].type \in {"paid", "failed"}
                 PROVE  \E j \in 1 .. i - 1 : Of(events', j, events'[i].sub)
      OBVIOUS
    <3>1. CASE i \in 1 .. n
      BY <2>1, <3>1
    <3>2. CASE i = n + 1
      BY <1>3, <1>e, <2>2, <2>3, <3>2
    <3> QED BY <1>3, <3>1, <3>2
  <2>5. \A i \in 1 .. n + 1 : events'[i].type = "completed" =>
          events'[i].status = "pending" /\ events'[i].until = None
    BY <1>1, <1>3, <1>e DEF EventsFollow
  <2> QED BY <1>3, <2>4, <2>5 DEF EventsFollow
<1>7. StripeSays'
  <2> SUFFICES ASSUME NEW t \in Subs
               PROVE  Says(events', n + 1, t, stripe'[t].status, stripe'[t].period)
    BY <1>3 DEF StripeSays
  <2>1. Says(events', n, t, stripe[t].status, stripe[t].period)
    BY <1>1, <1>3, SaysSame DEF StripeSays
  <2>2. Changes(events', n + 1, t) <=> t = s /\ type # "completed"
    BY <1>3, <1>e DEF Changes
  <2>3. CASE ~(t = s /\ type # "completed")
    <3>1. stripe'[t] = stripe[t]
      BY <1>1, <1>4, <2>3 DEF StripeTyped
    <3> QED BY <1>3, <2>1, <2>2, <2>3, <3>1, SaysNext
  <2>4. CASE t = s /\ type # "completed"
    <3>1. /\ stripe'[t].status = status
          /\ stripe'[t].period = IF until = None THEN stripe[t].period ELSE until
      BY <1>1, <1>4, <2>4 DEF StripeTyped
    <3>2. Says(events', n + 1, t, events'[n + 1].status,
               IF events'[n + 1].until = None THEN stripe[t].period ELSE events'[n + 1].until)
      BY <1>3, <2>1, <2>2, <2>4, SaysNext
    <3> QED BY <1>3, <1>e, <3>1, <3>2
  <2> QED BY <2>3, <2>4
<1> QED BY <1>5, <1>6, <1>7 DEF StripeInv

(***************************************************************************)
(* The rows.                                                               *)

RowsTyped(rs) == rs \in [Subs -> Row \cup {None}]

LEMMA SubsCounted ==
  ASSUME NEW rs, NEW s \in Subs, rs[s] = None
  PROVE  1 + Cardinality({t \in Subs : rs[t] # None}) \in 1 .. Cardinality(Subs)
<1> DEFINE T == {t \in Subs : rs[t] # None}
<1>1. IsFiniteSet(Subs) /\ T \in SUBSET Subs /\ s \notin T
  BY SubsAssumption
<1>2. /\ IsFiniteSet(T) /\ Cardinality(T) <= Cardinality(Subs)
      /\ Cardinality(Subs) = Cardinality(T) => Subs = T
  BY <1>1, FS_Subset
<1>3. Cardinality(T) \in Nat /\ Cardinality(Subs) \in Nat
  BY <1>1, <1>2, FS_CardinalityType
<1>4. Cardinality(T) # Cardinality(Subs)
  BY <1>1, <1>2
<1> HIDE DEF T
<1>5. 1 + Cardinality(T) \in 1 .. Cardinality(Subs)
  BY <1>2, <1>3, <1>4
<1> QED BY <1>5 DEF T

\* One row of rs becomes one with this status and term.
Put(rs, s, status, until, r) ==
  /\ RowsTyped(r) /\ r[s] # None /\ r[s].status = status /\ r[s].until = until
  /\ \A t \in Subs : t # s => r[t] = rs[t]

LEMMA PutRow ==
  ASSUME NEW rs, RowsTyped(rs), NEW s \in Subs, NEW x \in Row
  PROVE  Put(rs, s, x.status, x.until, [rs EXCEPT ![s] = x])
<1> DEFINE r == [rs EXCEPT ![s] = x]
<1>1. RowsTyped(r) /\ r[s] = x /\ \A t \in Subs : t # s => r[t] = rs[t]
  BY DEF RowsTyped
<1> HIDE DEF r
<1>2. Put(rs, s, x.status, x.until, r)
  BY <1>1, NoneAssumption DEF Put
<1> QED BY <1>2 DEF r

LEMMA EventParts ==
  ASSUME NEW e \in Event
  PROVE  /\ e.sub \in Subs /\ e.type \in Types /\ e.until \in Term
         /\ e.status \in Statuses \cup {"pending"}
BY DEF Event

LEMMA InsertRow ==
  ASSUME NEW rs, RowsTyped(rs), NEW e \in Event, rs[e.sub] = None
  PROVE  Put(rs, e.sub, e.status, e.until, Insert(rs, e))
<1> DEFINE n == 1 + Cardinality({t \in Subs : rs[t] # None})
           x == [id |-> n, status |-> e.status, until |-> e.until]
<1>1. n \in 1 .. Cardinality(Subs)
  BY EventParts, SubsCounted
<1>2. Insert(rs, e) = [rs EXCEPT ![e.sub] = x]
  BY DEF Insert
<1> HIDE DEF n
<1>3. x \in Row /\ x.status = e.status /\ x.until = e.until
  BY <1>1, EventParts DEF Row
<1> HIDE DEF x
<1>4. Put(rs, e.sub, x.status, x.until, [rs EXCEPT ![e.sub] = x])
  BY <1>3, EventParts, PutRow
<1> QED BY <1>2, <1>3, <1>4

LEMMA UpsertRow ==
  ASSUME NEW rs, RowsTyped(rs), NEW e \in Event, rs[e.sub] # None
  PROVE  Put(rs, e.sub, e.status, IF e.until = None THEN rs[e.sub].until ELSE e.until,
             Upsert(rs, e))
<1> DEFINE u == IF e.until = None THEN rs[e.sub].until ELSE e.until
           x == [id |-> rs[e.sub].id, status |-> e.status, until |-> u]
<1>1. rs[e.sub] \in Row
  BY EventParts DEF RowsTyped
<1>2. x \in Row /\ x.status = e.status /\ x.until = u
  BY <1>1, EventParts DEF Row
<1>3. Upsert(rs, e) = [rs EXCEPT ![e.sub] = x]
  <2> DEFINE y == [rs EXCEPT ![e.sub].status = e.status]
             z == [y EXCEPT ![e.sub].until = IF e.until = None THEN @ ELSE e.until]
  <2>1. rs[e.sub] = [id |-> rs[e.sub].id, status |-> rs[e.sub].status, until |-> rs[e.sub].until]
    BY <1>1 DEF Row
  <2>2. Upsert(rs, e) = z
    BY Zenon DEF Upsert
  <2>3. e.sub \in Subs /\ rs = [t \in Subs |-> rs[t]]
    BY EventParts DEF RowsTyped
  <2>4. y = [t \in Subs |-> IF t = e.sub THEN [rs[t] EXCEPT !.status = e.status] ELSE rs[t]]
    BY <2>3
  <2>5. y[e.sub] = [id |-> rs[e.sub].id, status |-> e.status, until |-> rs[e.sub].until]
    BY <2>1, <2>3, <2>4
  <2>6. y = [t \in Subs |-> IF t = e.sub
                            THEN [id |-> rs[e.sub].id, status |-> e.status, until |-> rs[e.sub].until]
                            ELSE rs[t]]
    BY <2>3, <2>4, <2>5
  <2> HIDE DEF y
  <2>7. z = [t \in Subs |-> IF t = e.sub THEN x ELSE rs[t]]
    <3>1. y = [t \in Subs |-> y[t]]
      BY <2>6
    <3>2. z = [y EXCEPT ![e.sub] = [y[e.sub] EXCEPT !.until = u]]
      BY <2>3, <2>5, <3>1
    <3>3. [y[e.sub] EXCEPT !.until = u] = x
      BY <2>5
    <3>4. \A t \in Subs : t # e.sub => y[t] = rs[t]
      BY <2>6
    <3> HIDE DEF x, u
    <3> QED BY <2>3, <3>1, <3>2, <3>3, <3>4
  <2>8. [rs EXCEPT ![e.sub] = x] = [t \in Subs |-> IF t = e.sub THEN x ELSE rs[t]]
    BY <2>3
  <2> QED BY <2>2, <2>7, <2>8
<1> HIDE DEF x, u
<1>4. Put(rs, e.sub, x.status, x.until, [rs EXCEPT ![e.sub] = x])
  BY <1>2, EventParts, PutRow
<1>5. Put(rs, e.sub, e.status, u, Upsert(rs, e))
  BY <1>2, <1>3, <1>4
<1> QED BY <1>5 DEF u

(***************************************************************************)
(* One job.                                                                *)

SameJobs(jobs) ==
  /\ jobs \in Seq(Job) /\ Len(jobs) = Len(queue)
  /\ \A p \in 1 .. Len(queue) : jobs[p].event = queue[p].event

QueueTyped == queue \in Seq(Job) /\ RowsTyped(rows) /\ invited \subseteq 1 .. MaxEvents
Arrived ==
  /\ \A p \in 1 .. Len(queue) : queue[p].event \in 1 .. Len(events)
  /\ \A p \in 1 .. Len(queue), q \in 1 .. Len(queue) : p # q => queue[p].event # queue[q].event

Written(st) ==
  /\ st = [queue |-> st.queue, rows |-> st.rows, invited |-> st.invited]
  /\ SameJobs(st.queue) /\ RowsTyped(st.rows) /\ st.invited \subseteq 1 .. MaxEvents

\* The status of job p becomes x.
Marked(jobs, p, x, new) ==
  /\ SameJobs(new) /\ new[p].status = x
  /\ \A q \in 1 .. Len(queue) : q # p => new[q] = jobs[q]

LEMMA JobMarked ==
  ASSUME NEW jobs, SameJobs(jobs), NEW p \in 1 .. Len(queue), NEW x \in {"done", "failed"}
  PROVE  Marked(jobs, p, x, [jobs EXCEPT ![p].status = x])
<1> DEFINE new == [jobs EXCEPT ![p].status = x]
           n == Len(queue)
<1>1. /\ jobs \in Seq(Job) /\ Len(jobs) = n /\ n \in Nat /\ p \in 1 .. n
      /\ \A q \in 1 .. n : jobs[q] \in Job /\ jobs[q].event = queue[q].event
  BY DEF SameJobs
<1> HIDE DEF n
<1>2. \A q \in 1 .. n : new[q] = IF q = p THEN [jobs[p] EXCEPT !.status = x] ELSE jobs[q]
  BY <1>1
<1>3. [jobs[p] EXCEPT !.status = x] \in Job /\ [jobs[p] EXCEPT !.status = x].status = x
      /\ [jobs[p] EXCEPT !.status = x].event = queue[p].event
  BY <1>1 DEF Job
<1>4. new \in Seq(Job) /\ Len(new) = n
  BY <1>1, <1>3
<1> HIDE DEF new
<1>5. \A q \in 1 .. n : new[q].event = queue[q].event
  BY <1>1, <1>2, <1>3
<1>6. Marked(jobs, p, x, new)
  BY <1>1, <1>2, <1>3, <1>4, <1>5 DEF Marked, SameJobs, n
<1> QED BY <1>6 DEF new

\* What applying job p to st writes, when its member is known or not.
Keeps(st, e) == e.type = "completed" /\ st.rows[e.sub] # None
NewTerm(st, e) == IF e.until = None /\ st.rows[e.sub] # None THEN st.rows[e.sub].until ELSE e.until

Applied(st, p, e, known, u) ==
  /\ Written(u) /\ u.queue[p].status # "pending"
  /\ \A q \in 1 .. Len(queue) : q # p => u.queue[q] = st.queue[q]
  /\ known =>
       /\ u.queue[p].status = "done"
       /\ u.invited = IF e.type = "paid" THEN st.invited \cup {queue[p].event} ELSE st.invited
       /\ IF Keeps(st, e) THEN u.rows = st.rows
          ELSE Put(st.rows, e.sub, e.status, NewTerm(st, e), u.rows)

LEMMA JobApplied ==
  ASSUME StripeTyped, QueueTyped, Arrived, NEW st, Written(st), NEW p \in 1 .. Len(queue),
         NEW known
  PROVE  /\ events[queue[p].event] \in Event
         /\ Applied(st, p, events[queue[p].event], known, Apply(st, p, known))
<1> DEFINE e == events[queue[p].event]
<1>1. e \in Event /\ queue[p].event \in 1 .. MaxEvents
  BY BoundAssumption DEF StripeTyped, QueueTyped, Arrived, Job
<1>2. SameJobs(st.queue) /\ RowsTyped(st.rows) /\ st.invited \subseteq 1 .. MaxEvents
  BY DEF Written
<1>3. CASE ~known
  <2> DEFINE new == [st.queue EXCEPT ![p].status = "failed"]
             u == [queue |-> new, rows |-> st.rows, invited |-> st.invited]
  <2>1. Apply(st, p, known) = [st EXCEPT !.queue[p].status = "failed"]
    BY <1>3, Zenon DEF Apply
  <2>2. Marked(st.queue, p, "failed", new)
    BY <1>2, JobMarked
  <2>3. Apply(st, p, known) = u
    BY <2>1 DEF Written
  <2> HIDE DEF new
  <2>4. u.queue = new /\ u.rows = st.rows /\ u.invited = st.invited
        /\ u = [queue |-> u.queue, rows |-> u.rows, invited |-> u.invited]
    OBVIOUS
  <2> HIDE DEF u, e
  <2>5. Applied(st, p, e, known, u)
    BY <1>2, <1>3, <2>2, <2>4 DEF Applied, Marked, Written
  <2> QED BY <1>1, <2>3, <2>5 DEF e
<1>4. CASE known
  <2> DEFINE new == [st.queue EXCEPT ![p].status = "done"]
             rs == IF e.type # "completed" THEN Upsert(st.rows, e)
                   ELSE IF st.rows[e.sub] = None THEN Insert(st.rows, e) ELSE st.rows
             paid == IF e.type = "paid" THEN st.invited \cup {queue[p].event} ELSE st.invited
             u == [queue |-> new, rows |-> rs, invited |-> paid]
  <2>1. Apply(st, p, known) = u
    BY <1>4, Zenon DEF Apply
  <2>2. Marked(st.queue, p, "done", new)
    BY <1>2, JobMarked
  <2>3. paid \subseteq 1 .. MaxEvents
    BY <1>1, <1>2
  <2>4. IF Keeps(st, e) THEN rs = st.rows
        ELSE Put(st.rows, e.sub, e.status, NewTerm(st, e), rs)
    <3> HIDE DEF e
    <3>1. CASE e.type # "completed" /\ st.rows[e.sub] = None
      <4>1. rs = Insert(st.rows, e)
        BY <3>1, Zenon DEF Upsert
      <4>2. NewTerm(st, e) = e.until /\ ~Keeps(st, e)
        BY <3>1, Zenon DEF NewTerm, Keeps
      <4>3. Put(st.rows, e.sub, e.status, e.until, Insert(st.rows, e))
        BY <1>1, <1>2, <3>1, InsertRow
      <4> QED BY <4>1, <4>2, <4>3, Zenon
    <3>2. CASE e.type # "completed" /\ st.rows[e.sub] # None
      <4>1. rs = Upsert(st.rows, e)
        BY <3>2
      <4>2. NewTerm(st, e) = (IF e.until = None THEN st.rows[e.sub].until ELSE e.until) /\ ~Keeps(st, e)
        BY <3>2 DEF NewTerm, Keeps
      <4>3. Put(st.rows, e.sub, e.status, IF e.until = None THEN st.rows[e.sub].until ELSE e.until,
                Upsert(st.rows, e))
        BY <1>1, <1>2, <3>2, UpsertRow
      <4> QED BY <4>1, <4>2, <4>3, Zenon
    <3>3. CASE e.type = "completed" /\ st.rows[e.sub] = None
      <4>1. rs = Insert(st.rows, e)
        BY <3>3
      <4>2. NewTerm(st, e) = e.until /\ ~Keeps(st, e)
        BY <3>3, Zenon DEF NewTerm, Keeps
      <4>3. Put(st.rows, e.sub, e.status, e.until, Insert(st.rows, e))
        BY <1>1, <1>2, <3>3, InsertRow
      <4> QED BY <4>1, <4>2, <4>3, Zenon
    <3>4. CASE e.type = "completed" /\ st.rows[e.sub] # None
      BY <3>4 DEF Keeps
    <3> QED BY <3>1, <3>2, <3>3, <3>4
  <2>5. RowsTyped(rs)
    BY <1>2, <2>4 DEF Put
  <2>8. (e.type = "paid" => paid = st.invited \cup {queue[p].event})
        /\ (e.type # "paid" => paid = st.invited)
    OBVIOUS
  <2> HIDE DEF new, rs, paid, e
  <2>6. u.queue = new /\ u.rows = rs /\ u.invited = paid
        /\ u = [queue |-> u.queue, rows |-> u.rows, invited |-> u.invited]
    OBVIOUS
  <2> HIDE DEF u
  <2>9. Written(u)
    BY <2>2, <2>3, <2>5, <2>6 DEF Marked, Written
  <2>7. Applied(st, p, e, known, u)
    BY <2>2, <2>4, <2>6, <2>8, <2>9 DEF Applied, Marked
  <2> QED BY <1>1, <2>1, <2>7 DEF e
<1> QED BY <1>3, <1>4

(***************************************************************************)
(* One run of the hourly job that applies the jobs in todo, with this      *)
(* answer about the first: f[p] is what it has written after job p.        *)

Start == [queue |-> queue, rows |-> rows, invited |-> invited]
KnownAt(f, p, todo, known) ==
  IF p = First(todo) THEN known ELSE Knows(f[p - 1].rows, events[queue[p].event])
AfterJob(f, p, todo, known) ==
  IF p \notin todo THEN f[p - 1] ELSE Apply(f[p - 1], p, KnownAt(f, p, todo, known))
Works(f, n, todo, known) ==
  /\ f = [p \in 0 .. n |-> f[p]] /\ f[0] = Start
  /\ \A p \in 1 .. n : f[p] = AfterJob(f, p, todo, known)

LEMMA WorkExists ==
  ASSUME NEW todo, NEW known
  PROVE  \A n \in Nat : \E f : Works(f, n, todo, known)
<1> DEFINE S == {n \in Nat : \E f : Works(f, n, todo, known)}
<1>1. 0 \in S
  <2>1. Works([p \in 0 .. 0 |-> Start], 0, todo, known)
    BY DEF Works
  <2> QED BY <2>1
<1>2. ASSUME NEW n \in Nat, n \in S PROVE n + 1 \in S
  <2>1. PICK f : Works(f, n, todo, known)
    BY <1>2
  <2> DEFINE g == [p \in 0 .. n + 1 |-> IF p = n + 1 THEN AfterJob(f, n + 1, todo, known) ELSE f[p]]
  <2>2. g = [p \in 0 .. n + 1 |-> g[p]]
    OBVIOUS
  <2>3. (\A p \in 0 .. n : g[p] = f[p]) /\ g[n + 1] = AfterJob(f, n + 1, todo, known)
    OBVIOUS
  <2> HIDE DEF g
  <2>4. \A p \in 1 .. n + 1 : p - 1 \in 0 .. n /\ (p \in 1 .. n \/ p = n + 1)
    OBVIOUS
  <2>5. \A p \in 1 .. n + 1 : AfterJob(g, p, todo, known) = AfterJob(f, p, todo, known)
    BY <2>3, <2>4 DEF AfterJob, KnownAt
  <2>6. \A p \in 1 .. n : g[p] = AfterJob(f, p, todo, known)
    BY <2>1, <2>3 DEF Works
  <2>7. \A p \in 1 .. n + 1 : g[p] = AfterJob(g, p, todo, known)
    BY <2>3, <2>4, <2>5, <2>6
  <2>8. g[0] = Start
    BY <2>1, <2>3 DEF Works
  <2>9. Works(g, n + 1, todo, known)
    BY <2>2, <2>7, <2>8 DEF Works
  <2> QED BY <2>9
<1> HIDE DEF S
<1>3. \A n \in Nat : n \in S
  BY <1>1, <1>2, CountingSet
<1> QED BY <1>3 DEF S

Done(todo, known) ==
  LET done[p \in 0 .. Len(queue)] ==
        IF p = 0 THEN [queue |-> queue, rows |-> rows, invited |-> invited]
        ELSE IF p \notin todo THEN done[p - 1]
        ELSE Apply(done[p - 1], p,
                   IF p = First(todo) THEN known
                   ELSE Knows(done[p - 1].rows, events[queue[p].event]))
  IN  done

LEMMA DoneWorks ==
  ASSUME queue \in Seq(Job), NEW todo, NEW known
  PROVE  Works(Done(todo, known), Len(queue), todo, known)
<1> DEFINE n == Len(queue)
           Rule(f) == [p \in 0 .. n |->
                        IF p = 0 THEN [queue |-> queue, rows |-> rows, invited |-> invited]
                        ELSE IF p \notin todo THEN f[p - 1]
                        ELSE Apply(f[p - 1], p,
                                   IF p = First(todo) THEN known
                                   ELSE Knows(f[p - 1].rows, events[queue[p].event]))]
<1>0. n \in Nat
  OBVIOUS
<1> HIDE DEF n
<1>1. PICK f : Works(f, n, todo, known)
  BY <1>0, WorkExists
<1>2. f = Rule(f)
  <2>1. \A p \in 1 .. n : f[p] = Rule(f)[p]
    <3>1. \A p \in 1 .. n : f[p] =
            IF p \notin todo THEN f[p - 1]
            ELSE Apply(f[p - 1], p,
                       IF p = First(todo) THEN known
                       ELSE Knows(f[p - 1].rows, events[queue[p].event]))
      BY <1>1 DEF Works, AfterJob, KnownAt
    <3>2. \A p \in 1 .. n : p # 0 /\ p \in 0 .. n
      BY <1>0
    <3> QED BY <3>1, <3>2
  <2>2. f[0] = Rule(f)[0]
    BY <1>0, <1>1 DEF Works, Start
  <2>3. \A p \in 0 .. n : p = 0 \/ p \in 1 .. n
    BY <1>0
  <2>4. f = [p \in 0 .. n |-> f[p]]
    BY <1>1 DEF Works
  <2>5. Rule(f) = [p \in 0 .. n |-> Rule(f)[p]]
    OBVIOUS
  <2> HIDE DEF Rule
  <2> QED BY <2>1, <2>2, <2>3, <2>4, <2>5
<1>3. Done(todo, known) = CHOOSE g : g = Rule(g)
  BY Zenon DEF Done, n
<1>4. Done(todo, known) = Rule(Done(todo, known))
  <2> HIDE DEF Rule
  <2> QED BY <1>2, <1>3
<1> DEFINE v == Done(todo, known)
<1>5. v = Rule(v)
  BY <1>4
<1> HIDE DEF v
<1>6. /\ v = [p \in 0 .. n |-> v[p]] /\ v[0] = Start
      /\ \A p \in 1 .. n : v[p] = AfterJob(v, p, todo, known)
  BY <1>0, <1>5 DEF AfterJob, KnownAt, Start
<1> QED BY <1>6 DEF v, Works, n

\* What a run that takes the lock writes.
Writes(todo, known) ==
  \E f : /\ Works(f, Len(queue), todo, known)
         /\ queue' = f[Len(queue)].queue /\ rows' = f[Len(queue)].rows
         /\ invited' = f[Len(queue)].invited

LEMMA ApplyDoes ==
  ASSUME NEW r \in Runs, ApplyStripe(r), queue \in Seq(Job)
  PROVE  /\ \E known \in {batch[r].known, FirstKnown(batch[r].todo)} : Writes(batch[r].todo, known)
         /\ again' = (again \/ ~(batch[r].todo \subseteq Pending))
         /\ batch[r] # NoBatch /\ batch' = [batch EXCEPT ![r] = NoBatch]
         /\ UNCHANGED <<stripeVars, reminderVars>>
<1> DEFINE todo == batch[r].todo
<1>1. \E known \in {batch[r].known, FirstKnown(todo)} :
        /\ queue' = Done(todo, known)[Len(queue)].queue
        /\ rows' = Done(todo, known)[Len(queue)].rows
        /\ invited' = Done(todo, known)[Len(queue)].invited
  BY Zenon DEF ApplyStripe, Done
<1>2. PICK known \in {batch[r].known, FirstKnown(todo)} :
        /\ queue' = Done(todo, known)[Len(queue)].queue
        /\ rows' = Done(todo, known)[Len(queue)].rows
        /\ invited' = Done(todo, known)[Len(queue)].invited
  BY <1>1
<1>3. Writes(todo, known)
  BY <1>2, DoneWorks DEF Writes
<1>4. /\ again' = (again \/ ~(batch[r].todo \subseteq Pending))
      /\ batch[r] # NoBatch /\ batch' = [batch EXCEPT ![r] = NoBatch]
      /\ UNCHANGED <<stripeVars, reminderVars>>
  BY Zenon DEF ApplyStripe
<1> QED BY <1>2, <1>3, <1>4

\* What the transaction has written is well formed after every job.
LEMMA WorkWritten ==
  ASSUME StripeTyped, QueueTyped, Arrived, NEW n, n = Len(queue), NEW f,
         NEW todo, NEW known, Works(f, n, todo, known)
  PROVE  \A p \in 0 .. n : Written(f[p])
<1> DEFINE S == {p \in Nat : p <= n => Written(f[p])}
<1>0. n \in Nat
  BY DEF QueueTyped
<1>1. 0 \in S
  <2>1. Written(Start)
    BY DEF Written, Start, SameJobs, QueueTyped
  <2> QED BY <2>1 DEF Works
<1>2. ASSUME NEW p \in Nat, p \in S PROVE p + 1 \in S
  <2> SUFFICES ASSUME p + 1 <= n PROVE Written(f[p + 1])
    OBVIOUS
  <2>1. Written(f[p]) /\ p + 1 \in 1 .. n /\ (p + 1) - 1 = p
    BY <1>0, <1>2
  <2>2. f[p + 1] = IF p + 1 \notin todo THEN f[p]
                   ELSE Apply(f[p], p + 1, KnownAt(f, p + 1, todo, known))
    BY <2>1 DEF Works, AfterJob
  <2>3. Written(Apply(f[p], p + 1, KnownAt(f, p + 1, todo, known)))
    BY <2>1, JobApplied DEF Applied
  <2> QED BY <2>1, <2>2, <2>3
<1> HIDE DEF S
<1>3. \A p \in Nat : p \in S
  BY <1>1, <1>2, CountingSet
<1> QED BY <1>0, <1>3 DEF S

-----------------------------------------------------------------------------
(* Events that arrived in their order.                                     *)

\* The rows say what the first k events say, and know the others' subscriptions
\* not yet.
RowsSay(rs, k) ==
  \A s \in Subs : IF \E i \in 1 .. k : Of(events, i, s)
                  THEN rs[s] # None /\ Says(events, k, s, rs[s].status, rs[s].until)
                  ELSE rs[s] = None

\* The jobs stand in the order of the events they are about.
InStep == \A p \in 1 .. Len(queue) : queue[p].event = p

\* The first k jobs are done, the others pending, and the rows are up to that.
DonePrefix(st, k) ==
  /\ k \in 0 .. Len(queue)
  /\ \A p \in 1 .. Len(queue) : st.queue[p].status = IF p <= k THEN "done" ELSE "pending"
  /\ RowsSay(st.rows, k)
  /\ st.invited = {i \in 1 .. k : events[i].type = "paid"}

RowsFollow == InStep /\ ~again => \E k : DonePrefix(Start, k)

LEMMA NextRow ==
  ASSUME StripeInv, NEW k \in Nat, k + 1 <= Len(events), NEW rs, RowsSay(rs, k),
         NEW e, e = events[k + 1], e \in Event, NEW u,
         IF e.type = "completed" /\ rs[e.sub] # None THEN u = rs
         ELSE Put(rs, e.sub, e.status,
                  IF e.until = None /\ rs[e.sub] # None THEN rs[e.sub].until ELSE e.until, u)
  PROVE  RowsSay(u, k + 1)
<1>1. /\ e.type = "completed" => e.status = "pending" /\ e.until = None
      /\ e.sub \in Subs
  BY EventParts DEF StripeInv, EventsFollow
<1>2. \A i \in 1 .. k + 1 : i \in 1 .. k \/ i = k + 1
  OBVIOUS
<1>3. 1 .. k \subseteq 1 .. k + 1 /\ k + 1 \in 1 .. k + 1
  OBVIOUS
<1> SUFFICES ASSUME NEW s \in Subs
             PROVE  IF \E i \in 1 .. k + 1 : Of(events, i, s)
                    THEN u[s] # None /\ Says(events, k + 1, s, u[s].status, u[s].until)
                    ELSE u[s] = None
  BY DEF RowsSay
<1>4. Changes(events, k + 1, s) <=> e.sub = s /\ e.type # "completed"
  BY DEF Changes
<1>5. CASE s # e.sub
  <2>1. u[s] = rs[s]
    BY <1>5 DEF Put
  <2>2. (\E i \in 1 .. k + 1 : Of(events, i, s)) <=> \E i \in 1 .. k : Of(events, i, s)
    BY <1>2, <1>3, <1>5 DEF Of
  <2>3. Says(events, k, s, rs[s].status, rs[s].until) => Says(events, k + 1, s, rs[s].status, rs[s].until)
    BY <1>4, <1>5, SaysNext
  <2> QED BY <2>1, <2>2, <2>3 DEF RowsSay
<1>6. CASE s = e.sub
  <2>1. \E i \in 1 .. k + 1 : Of(events, i, s)
    BY <1>3, <1>6 DEF Of
  <2>2. CASE rs[s] # None
    <3>1. Says(events, k, s, rs[s].status, rs[s].until)
      BY <2>2 DEF RowsSay
    <3>2. CASE e.type = "completed"
      <4>1. Says(events, k + 1, s, rs[s].status, rs[s].until)
        BY <1>4, <3>1, <3>2, SaysNext
      <4>2. u = rs
        BY <1>6, <2>2, <3>2
      <4> QED BY <2>1, <2>2, <4>1, <4>2
    <3>3. CASE e.type # "completed"
      <4>1. Says(events, k + 1, s, e.status, IF e.until = None THEN rs[s].until ELSE e.until)
        BY <1>4, <1>6, <3>1, <3>3, SaysNext
      <4>2. Put(rs, s, e.status, IF e.until = None THEN rs[s].until ELSE e.until, u)
        BY <1>6, <2>2, <3>3
      <4> QED BY <2>1, <4>1, <4>2 DEF Put
    <3> QED BY <3>2, <3>3
  <2>3. CASE rs[s] = None
    <3>1. Says(events, k, s, "pending", None)
      BY <2>3, SaysFirst DEF RowsSay
    <3>2. Put(rs, s, e.status, e.until, u)
      BY <1>6, <2>3
    <3>3. CASE e.type = "completed"
      <4>1. Says(events, k + 1, s, "pending", None)
        BY <1>4, <3>1, <3>3, SaysNext
      <4> QED BY <1>1, <2>1, <3>2, <3>3, <4>1 DEF Put
    <3>4. CASE e.type # "completed"
      <4>1. Says(events, k + 1, s, e.status, IF e.until = None THEN None ELSE e.until)
        BY <1>4, <1>6, <3>1, <3>4, SaysNext
      <4>2. (IF e.until = None THEN None ELSE e.until) = e.until
        OBVIOUS
      <4>3. Says(events, k + 1, s, e.status, e.until)
        BY <4>1, <4>2
      <4> QED BY <2>1, <3>2, <4>3 DEF Put
    <3> QED BY <3>3, <3>4
  <2> QED BY <2>2, <2>3
<1> QED BY <1>5, <1>6

LEMMA NextKnown ==
  ASSUME StripeInv, QueueTyped, Arrived, InStep, NEW st, NEW k \in Nat,
         k + 1 \in 1 .. Len(queue), DonePrefix(st, k)
  PROVE  Knows(st.rows, events[k + 1]) /\ events[k + 1] \in Event
<1> DEFINE e == events[k + 1]
<1>0. StripeTyped /\ EventsFollow /\ Len(queue) \in Nat
  BY DEF StripeInv, QueueTyped
<1>1. k + 1 \in 1 .. Len(events)
  BY DEF InStep, Arrived
<1>2. e \in Event
  BY <1>0, <1>1 DEF StripeTyped
<1>3. RowsSay(st.rows, k)
  BY DEF DonePrefix
<1>4. CASE e.type \in {"paid", "failed"}
  <2>1. (k + 1) - 1 = k
    OBVIOUS
  <2>2. \E j \in 1 .. k : Of(events, j, e.sub)
    BY <1>0, <1>1, <1>4, <2>1 DEF EventsFollow
  <2>3. st.rows[e.sub] # None
    BY <1>2, <1>3, <2>2, EventParts DEF RowsSay
  <2> QED BY <1>2, <2>3 DEF Knows
<1>5. CASE e.type \notin {"paid", "failed"}
  <2>1. e.type \in Types
    BY <1>2, EventParts
  <2>2. e.type \in {"completed", "changed", "deleted"}
    BY <1>5, <2>1 DEF Types
  <2> QED BY <1>2, <2>2 DEF Knows
<1> QED BY <1>4, <1>5

LEMMA NextJobInStep ==
  ASSUME StripeInv, QueueTyped, Arrived, InStep, NEW st, Written(st),
         NEW k \in Nat, k + 1 \in 1 .. Len(queue), DonePrefix(st, k), NEW known, known
  PROVE  DonePrefix(Apply(st, k + 1, known), k + 1)
<1> DEFINE e == events[k + 1]
           u == Apply(st, k + 1, known)
<1>0. StripeTyped /\ Len(queue) \in Nat
  BY DEF StripeInv, QueueTyped
<1>1. queue[k + 1].event = k + 1 /\ k + 1 <= Len(events)
  BY DEF InStep, Arrived
<1>2. e \in Event /\ Applied(st, k + 1, e, known, u)
  BY <1>0, <1>1, JobApplied
<1> HIDE DEF u
<1>3. RowsSay(st.rows, k) /\ st.invited = {i \in 1 .. k : events[i].type = "paid"}
  BY DEF DonePrefix
<1> HIDE DEF e
<1>5. /\ u.queue[k + 1].status = "done"
      /\ \A q \in 1 .. Len(queue) : q # k + 1 => u.queue[q] = st.queue[q]
      /\ u.invited = IF e.type = "paid" THEN st.invited \cup {k + 1} ELSE st.invited
      /\ IF e.type = "completed" /\ st.rows[e.sub] # None THEN u.rows = st.rows
         ELSE Put(st.rows, e.sub, e.status,
                  IF e.until = None /\ st.rows[e.sub] # None THEN st.rows[e.sub].until ELSE e.until,
                  u.rows)
  BY <1>1, <1>2 DEF Applied, Keeps, NewTerm
<1>6. RowsSay(u.rows, k + 1)
  BY <1>1, <1>2, <1>3, <1>5, NextRow DEF e
<1>7. u.invited = {i \in 1 .. k + 1 : events[i].type = "paid"}
  <2>1. \A i : i \in 1 .. k + 1 <=> i \in 1 .. k \/ i = k + 1
    OBVIOUS
  <2>2. events[k + 1] = e
    BY DEF e
  <2> QED BY <1>3, <1>5, <2>1, <2>2
<1>8. \A p \in 1 .. Len(queue) : u.queue[p].status = IF p <= k + 1 THEN "done" ELSE "pending"
  <2>1. \A p \in 1 .. Len(queue) : p # k + 1 => (p <= k <=> p <= k + 1)
    OBVIOUS
  <2> QED BY <1>5, <2>1 DEF DonePrefix
<1>9. k + 1 \in 0 .. Len(queue)
  OBVIOUS
<1> QED BY <1>6, <1>7, <1>8, <1>9 DEF DonePrefix, u

LEMMA BatchIsFirst ==
  ASSUME QueueTyped, NEW p \in Batch, NEW q \in Pending, q < p
  PROVE  q \in Batch
<1> DEFINE A == {r \in Pending : r < p}
           B == {r \in Pending : r < q}
<1>0. Pending \subseteq 1 .. Len(queue) /\ Len(queue) \in Nat /\ p \in Pending
  BY DEF Pending, QueueTyped, Batch
<1>r. \A r \in Pending : r < q => r < p
  BY <1>0
<1>1. B \in SUBSET A
  BY <1>r
<1>2. A \subseteq 1 .. Len(queue)
  BY <1>0
<1>3. IsFiniteSet(1 .. Len(queue))
  BY <1>0, FS_Interval
<1>4. IsFiniteSet(A)
  BY <1>2, <1>3, FS_Subset
<1>5. IsFiniteSet(B) /\ Cardinality(B) <= Cardinality(A)
  BY <1>1, <1>4, FS_Subset
<1>6. Cardinality(A) \in Nat /\ Cardinality(B) \in Nat
  BY <1>4, <1>5, FS_CardinalityType
<1>7. Cardinality(A) < Window
  BY DEF Batch
<1> HIDE DEF A, B
<1>8. Cardinality(B) < Window
  BY <1>5, <1>6, <1>7, BoundAssumption
<1> QED BY <1>8 DEF Batch, B

\* The jobs of a list are the first of those pending.
Leading(todo) == \A p \in todo, q \in Pending : q < p => q \in todo

LEMMA BatchLeads ==
  ASSUME QueueTyped
  PROVE  Leading(Batch) /\ Batch \subseteq Pending /\ Pending \subseteq 1 .. Len(queue)
<1>1. Batch \subseteq Pending /\ Pending \subseteq 1 .. Len(queue)
  BY DEF Batch, Pending
<1>2. Leading(Batch)
  BY BatchIsFirst DEF Leading
<1> QED BY <1>1, <1>2

\* A set of numbers with a member has a least one.
LEMMA FirstIs ==
  ASSUME NEW todo \in SUBSET Nat, todo # {}
  PROVE  First(todo) \in todo /\ \A q \in todo : First(todo) <= q
<1> DEFINE S == {n \in Nat : \A m \in todo : n <= m}
           Least(p) == \A q \in todo : p <= q
<1>1. \E p \in todo : Least(p)
  <2> SUFFICES ASSUME ~\E p \in todo : Least(p) PROVE FALSE
    OBVIOUS
  <2>1. 0 \in S
    OBVIOUS
  <2>2. ASSUME NEW n \in Nat, n \in S PROVE n + 1 \in S
    <3> SUFFICES ASSUME NEW m \in todo PROVE n + 1 <= m
      OBVIOUS
    <3>1. n <= m /\ m \in Nat
      BY <2>2
    <3>2. n # m
      BY <2>2
    <3> QED BY <3>1, <3>2
  <2> HIDE DEF S
  <2>3. \A n \in Nat : n \in S
    BY <2>1, <2>2, CountingSet
  <2>4. PICK m \in todo : TRUE
    OBVIOUS
  <2>5. m + 1 \in S /\ m \in Nat
    BY <2>3
  <2>6. m + 1 <= m
    BY <2>5 DEF S
  <2> QED BY <2>5, <2>6
<1> QED BY <1>1 DEF First

LEMMA WorkInStep ==
  ASSUME StripeInv, QueueTyped, Arrived, InStep, NEW m, DonePrefix(Start, m),
         NEW todo, todo # {}, todo \subseteq Pending, Leading(todo),
         NEW known, known = FirstKnown(todo),
         NEW n, n = Len(queue), NEW f, Works(f, n, todo, known)
  PROVE  \E k : DonePrefix(f[n], k)
<1> DEFINE Here(p, k) == /\ DonePrefix(f[p], k)
                         /\ p <= m => k = m
                         /\ p > m /\ p \in todo => k = p
           S == {p \in Nat : p <= n => \E k : Here(p, k)}
<1>0. n \in Nat /\ m \in 0 .. n /\ StripeTyped
  BY DEF QueueTyped, DonePrefix, StripeInv
<1>p. \A p \in 1 .. n : p \in Pending <=> p > m
  <2>1. \A p \in 1 .. n : queue[p].status = IF p <= m THEN "done" ELSE "pending"
    BY DEF DonePrefix, Start
  <2> QED BY <1>0, <2>1 DEF Pending
<1>f. /\ todo \in SUBSET Nat /\ First(todo) \in todo /\ First(todo) \in Pending
      /\ \A q \in todo : First(todo) <= q /\ q \in 1 .. n
  <2>1. todo \in SUBSET Nat /\ \A q \in todo : q \in 1 .. n
    BY <1>0 DEF Pending
  <2> QED BY <2>1, FirstIs
<1>k. First(todo) = m + 1 => known
  <2> SUFFICES ASSUME First(todo) = m + 1 PROVE known
    OBVIOUS
  <2>1. m + 1 \in 1 .. n /\ m \in Nat
    BY <1>0, <1>f
  <2>2. queue[m + 1].event = m + 1
    BY <2>1 DEF InStep
  <2>3. Knows(Start.rows, events[m + 1])
    BY <2>1, NextKnown
  <2>4. Start.rows = rows
    BY DEF Start
  <2> QED BY <2>2, <2>3, <2>4 DEF FirstKnown
<1>1. 0 \in S
  <2>1. f[0] = Start
    BY DEF Works
  <2>2. Here(0, m)
    BY <1>0, <2>1
  <2> QED BY <2>2
<1>2. ASSUME NEW p \in Nat, p \in S PROVE p + 1 \in S
  <2> SUFFICES ASSUME p + 1 <= n PROVE \E k : Here(p + 1, k)
    OBVIOUS
  <2>1. p \in 0 .. n /\ p + 1 \in 1 .. n /\ (p + 1) - 1 = p
    BY <1>0
  <2>2. PICK k : Here(p, k)
    BY <1>2, <2>1
  <2> DEFINE known_p == KnownAt(f, p + 1, todo, known)
  <2>3. f[p + 1] = IF p + 1 \notin todo THEN f[p] ELSE Apply(f[p], p + 1, known_p)
    BY <2>1 DEF Works, AfterJob
  <2>4. CASE p + 1 \notin todo
    <3>1. DonePrefix(f[p + 1], k)
      BY <2>2, <2>3, <2>4
    <3>2. p + 1 <= m => k = m
      BY <1>0, <2>1, <2>2
    <3>3. Here(p + 1, k)
      BY <2>4, <3>1, <3>2
    <3> QED BY <3>3
  <2>5. CASE p + 1 \in todo
    <3>1. p + 1 > m
      BY <1>p, <2>1, <2>5
    <3>2. k = p /\ (p + 1 = First(todo) => p = m)
      <4>1. CASE p <= m
        BY <1>0, <2>1, <2>2, <3>1, <4>1
      <4>2. CASE p > m
        <5>1. p \in 1 .. n /\ p < p + 1
          BY <1>0, <2>1, <4>2
        <5>2. p \in Pending
          BY <1>p, <4>2, <5>1
        <5>3. p \in todo
          BY <2>5, <5>1, <5>2 DEF Leading
        <5>4. First(todo) <= p
          BY <1>f, <5>3
        <5>5. p + 1 # First(todo)
          BY <5>1, <5>4
        <5> QED BY <2>2, <4>2, <5>3, <5>5
      <4> QED BY <1>0, <4>1, <4>2
    <3>3. Written(f[p])
      BY <1>0, <2>1, WorkWritten
    <3>5. known_p
      <4>1. CASE p + 1 = First(todo)
        BY <1>k, <3>2, <4>1 DEF KnownAt
      <4>2. CASE p + 1 # First(todo)
        <5>1. Knows(f[p].rows, events[p + 1])
          BY <2>1, <2>2, <3>2, NextKnown
        <5>2. queue[p + 1].event = p + 1
          BY <2>1 DEF InStep
        <5> QED BY <2>1, <4>2, <5>1, <5>2 DEF KnownAt
      <4> QED BY <4>1, <4>2
    <3> HIDE DEF known_p
    <3>4. DonePrefix(Apply(f[p], p + 1, known_p), p + 1)
      BY <2>1, <2>2, <3>2, <3>3, <3>5, NextJobInStep
    <3>6. ~(p + 1 <= m)
      BY <1>0, <3>1
    <3>7. Here(p + 1, p + 1)
      BY <2>3, <2>5, <3>4, <3>6
    <3> QED BY <3>7
  <2> QED BY <2>4, <2>5
<1> HIDE DEF S
<1>3. \A p \in Nat : p \in S
  BY <1>1, <1>2, CountingSet
<1>4. n \in S /\ n <= n
  BY <1>0, <1>3
<1> QED BY <1>4 DEF S

-----------------------------------------------------------------------------
RowInv == QueueTyped /\ Arrived /\ RowsFollow

LEMMA RowInvInit == Init => RowInv
<1> SUFFICES ASSUME Init PROVE RowInv
  OBVIOUS
<1>1. /\ events = <<>> /\ queue = <<>> /\ invited = {} /\ rows = [s \in Subs |-> None]
  BY DEF Init
<1>2. Len(queue) = 0 /\ queue \in Seq(Job) /\ 1 .. 0 = {}
  BY <1>1
<1>3. QueueTyped /\ Arrived
  BY <1>1, <1>2 DEF QueueTyped, Arrived, RowsTyped
<1>4. RowsSay(rows, 0)
  BY <1>1, <1>2 DEF RowsSay
<1>5. Start.queue = queue /\ Start.rows = rows /\ Start.invited = invited
  BY DEF Start
<1>6. DonePrefix(Start, 0)
  BY <1>1, <1>2, <1>4, <1>5 DEF DonePrefix
<1> QED BY <1>3, <1>6 DEF RowInv, RowsFollow

LEMMA StartParts == Start.queue = queue /\ Start.rows = rows /\ Start.invited = invited
BY DEF Start

\* More events, the same rows.
LEMMA RowsSaySame ==
  ASSUME NEW k \in Nat, \A i \in 1 .. k : events'[i] = events[i], NEW rs, RowsSay(rs, k)
  PROVE  \A s \in Subs : IF \E i \in 1 .. k : Of(events', i, s)
                  THEN rs[s] # None /\ Says(events', k, s, rs[s].status, rs[s].until)
                  ELSE rs[s] = None
<1> SUFFICES ASSUME NEW s \in Subs
             PROVE  IF \E i \in 1 .. k : Of(events', i, s)
                    THEN rs[s] # None /\ Says(events', k, s, rs[s].status, rs[s].until)
                    ELSE rs[s] = None
  OBVIOUS
<1>1. \A i \in 1 .. k : Of(events', i, s) <=> Of(events, i, s)
  BY DEF Of
<1>2. Says(events, k, s, rs[s].status, rs[s].until) => Says(events', k, s, rs[s].status, rs[s].until)
  BY SaysSame
<1> QED BY <1>1, <1>2 DEF RowsSay

LEMMA RowInvMoreEvents ==
  ASSUME RowInv, UNCHANGED rowVars, again' = again, Len(events) \in Nat, Len(events') \in Nat,
         Len(events') >= Len(events), \A i \in 1 .. Len(events) : events'[i] = events[i]
  PROVE  RowInv'
<1>1. QueueTyped /\ Arrived /\ RowsFollow /\ queue' = queue /\ rows' = rows /\ invited' = invited
  BY DEF RowInv, rowVars
<1>2. QueueTyped' /\ Arrived'
  BY <1>1 DEF QueueTyped, Arrived
<1>3. RowsFollow'
  <2> SUFFICES ASSUME InStep', ~again' PROVE \E k : DonePrefix(Start, k)'
    BY DEF RowsFollow
  <2>1. InStep /\ ~again
    BY <1>1 DEF InStep
  <2>2. PICK k : DonePrefix(Start, k)
    BY <1>1, <2>1 DEF RowsFollow
  <2>3. k \in Nat /\ k <= Len(events) /\ Len(queue) \in Nat
    <3>1. k \in 0 .. Len(queue) /\ Len(queue) \in Nat
      BY <1>1, <2>2 DEF DonePrefix, QueueTyped
    <3>2. k = 0 \/ k \in 1 .. Len(queue)
      BY <3>1
    <3> QED BY <1>1, <2>1, <3>1, <3>2 DEF InStep, Arrived
  <2>4. \A i \in 1 .. k : events'[i] = events[i]
    BY <2>3
  <2>5. RowsSay(rows, k)
    BY <2>2, StartParts DEF DonePrefix
  <2>6. RowsSay(rows, k)'
    <3>1. \A s \in Subs : IF \E i \in 1 .. k : Of(events', i, s)
                         THEN rows[s] # None /\ Says(events', k, s, rows[s].status, rows[s].until)
                         ELSE rows[s] = None
      BY <2>3, <2>4, <2>5, RowsSaySame
    <3>2. rows' = rows
      BY <1>1
    <3> QED BY <3>1, <3>2, Zenon DEF RowsSay
  <2>7. invited' = {i \in 1 .. k : events'[i].type = "paid"}
    <3>1. invited = {i \in 1 .. k : events[i].type = "paid"}
      BY <2>2, StartParts DEF DonePrefix
    <3> QED BY <1>1, <2>4, <3>1
  <2>8. Start'.queue = queue /\ Start'.rows = rows' /\ Start'.invited = invited'
    BY <1>1 DEF Start
  <2>9. k \in 0 .. Len(queue') /\ \A p \in 1 .. Len(queue') :
           queue'[p].status = IF p <= k THEN "done" ELSE "pending"
    BY <1>1, <2>2, StartParts DEF DonePrefix
  <2>10. DonePrefix(Start, k)'
    BY <1>1, <2>6, <2>7, <2>8, <2>9 DEF DonePrefix
  <2> QED BY <2>10
<1> QED BY <1>2, <1>3 DEF RowInv

LEMMA RowInvEmits ==
  ASSUME StripeInv, RowInv, NEW s \in Subs, NEW type \in Types,
         NEW status \in Statuses \cup {"pending"}, NEW until \in Term,
         Emits(s, type, status, until)
  PROVE  RowInv'
<1> DEFINE e == [sub |-> s, type |-> type, status |-> status, until |-> until]
<1>1. e \in Event /\ events \in Seq(Event) /\ events' = Append(events, e)
  BY DEF StripeInv, StripeTyped, Event, Emits
<1> HIDE DEF e
<1>2. /\ Len(events) \in Nat /\ Len(events') = Len(events) + 1
      /\ \A i \in 1 .. Len(events) : events'[i] = events[i]
  BY <1>1, Appended
<1>3. UNCHANGED rowVars /\ again' = again
  BY DEF Emits, batchVars
<1>4. Len(events') \in Nat /\ Len(events') >= Len(events)
  BY <1>2
<1> QED BY <1>2, <1>3, <1>4, RowInvMoreEvents

LEMMA RowInvWebhook ==
  ASSUME StripeInv, RowInv, NEW i \in 1 .. MaxEvents, Webhook(i)
  PROVE  RowInv'
<1> DEFINE j == [event |-> i, status |-> "pending"]
           n == Len(queue)
<1>1. QueueTyped /\ Arrived /\ RowsFollow
  BY DEF RowInv
<1>2. /\ queue' = Append(queue, j) /\ i <= Len(events) /\ NewEvent(i)
      /\ UNCHANGED <<stripe, events, rows, invited, again>>
  BY DEF Webhook, stripeVars, batchVars
<1>3. j \in Job /\ j.event = i /\ j.status = "pending"
  BY DEF Job
<1> HIDE DEF j
<1>4. /\ queue' \in Seq(Job) /\ Len(queue') = n + 1 /\ n \in Nat /\ queue'[n + 1] = j
      /\ \A p \in 1 .. n : queue'[p] = queue[p]
      /\ \A p \in 1 .. n + 1 : p \in 1 .. n \/ p = n + 1
  BY <1>1, <1>2, <1>3, Appended DEF QueueTyped
<1>5. QueueTyped'
  BY <1>1, <1>2, <1>4 DEF QueueTyped
<1>6. i \in 1 .. Len(events) /\ \A p \in 1 .. n : queue[p].event # i
  BY <1>1, <1>2, BoundAssumption DEF StripeInv, StripeTyped, NewEvent
<1>7. Arrived'
  <2>1. \A p \in 1 .. n + 1 : queue'[p].event \in 1 .. Len(events')
    BY <1>1, <1>2, <1>3, <1>4, <1>6 DEF Arrived
  <2>2. \A p \in 1 .. n + 1, q \in 1 .. n + 1 : p # q => queue'[p].event # queue'[q].event
    BY <1>1, <1>3, <1>4, <1>6 DEF Arrived
  <2> QED BY <1>4, <2>1, <2>2 DEF Arrived
<1>8. RowsFollow'
  <2> SUFFICES ASSUME InStep', ~again' PROVE \E k : DonePrefix(Start, k)'
    BY DEF RowsFollow
  <2>0. 1 .. n \subseteq 1 .. n + 1
    BY <1>4
  <2>1. InStep /\ ~again
    BY <1>2, <1>4, <2>0 DEF InStep
  <2>2. PICK k : DonePrefix(Start, k)
    BY <1>1, <2>1 DEF RowsFollow
  <2>3. /\ k \in 0 .. n /\ RowsSay(rows, k) /\ invited = {x \in 1 .. k : events[x].type = "paid"}
        /\ \A p \in 1 .. n : queue[p].status = IF p <= k THEN "done" ELSE "pending"
    BY <2>2, StartParts DEF DonePrefix
  <2>4. RowsSay(rows, k)'
    BY <1>2, <2>3 DEF RowsSay
  <2>5. ~(n + 1 <= k) /\ k \in 0 .. n + 1
    BY <1>4, <2>3
  <2>6. \A p \in 1 .. n + 1 : queue'[p].status = IF p <= k THEN "done" ELSE "pending"
    BY <1>3, <1>4, <2>3, <2>5
  <2>7. Start'.queue = queue' /\ Start'.rows = rows' /\ Start'.invited = invited'
    BY DEF Start
  <2>8. DonePrefix(Start, k)'
    BY <1>2, <1>4, <2>3, <2>4, <2>5, <2>6, <2>7 DEF DonePrefix
  <2> QED BY <2>8
<1> QED BY <1>5, <1>7, <1>8 DEF RowInv

\* After a run has written, the jobs of its list have ended and the others are
\* as they were.
LEMMA WorkEnds ==
  ASSUME StripeTyped, QueueTyped, Arrived, NEW n, n = Len(queue), NEW f,
         NEW todo, NEW known, Works(f, n, todo, known)
  PROVE  \A q \in 1 .. n : IF q \in todo THEN f[n].queue[q].status # "pending"
                           ELSE f[n].queue[q] = queue[q]
<1> DEFINE Ended(p, q) == IF q \in todo /\ q <= p THEN f[p].queue[q].status # "pending"
                          ELSE f[p].queue[q] = queue[q]
           S == {p \in Nat : p <= n => \A q \in 1 .. n : Ended(p, q)}
<1>0. n \in Nat
  BY DEF QueueTyped
<1>1. 0 \in S
  <2>1. f[0] = Start /\ \A q \in 1 .. n : ~(q <= 0)
    BY <1>0 DEF Works
  <2> QED BY <2>1, StartParts
<1>2. ASSUME NEW p \in Nat, p \in S PROVE p + 1 \in S
  <2> SUFFICES ASSUME p + 1 <= n, NEW q \in 1 .. n PROVE Ended(p + 1, q)
    OBVIOUS
  <2>1. p \in 0 .. n /\ p + 1 \in 1 .. n /\ (p + 1) - 1 = p /\ (q <= p + 1 <=> q <= p \/ q = p + 1)
    BY <1>0
  <2>2. Ended(p, q)
    BY <1>2, <2>1
  <2> DEFINE known_p == KnownAt(f, p + 1, todo, known)
             u == Apply(f[p], p + 1, known_p)
  <2>3. f[p + 1] = IF p + 1 \notin todo THEN f[p] ELSE u
    BY <2>1 DEF Works, AfterJob
  <2>4. Written(f[p])
    BY <1>0, <2>1, WorkWritten
  <2> HIDE DEF known_p
  <2>a. Applied(f[p], p + 1, events[queue[p + 1].event], known_p, u)
    BY <2>1, <2>4, JobApplied
  <2> HIDE DEF u
  <2>5. u.queue[p + 1].status # "pending" /\ (q # p + 1 => u.queue[q] = f[p].queue[q])
    BY <2>a DEF Applied
  <2>6. CASE p + 1 \notin todo
    BY <2>1, <2>2, <2>3, <2>6
  <2>7. CASE p + 1 \in todo /\ q = p + 1
    BY <2>3, <2>5, <2>7
  <2>8. CASE p + 1 \in todo /\ q # p + 1
    BY <2>1, <2>2, <2>3, <2>5, <2>8
  <2> QED BY <2>6, <2>7, <2>8
<1> HIDE DEF S
<1>3. \A p \in Nat : p \in S
  BY <1>1, <1>2, CountingSet
<1>4. \A q \in 1 .. n : Ended(n, q)
  BY <1>0, <1>3 DEF S
<1>5. \A q \in 1 .. n : q <= n
  BY <1>0
<1> QED BY <1>4, <1>5

LEMMA WritesDo ==
  ASSUME StripeInv, RowInv, NEW todo, NEW known, Writes(todo, known)
  PROVE  /\ SameJobs(queue') /\ RowsTyped(rows') /\ invited' \subseteq 1 .. MaxEvents
         /\ \A q \in 1 .. Len(queue) : IF q \in todo THEN queue'[q].status # "pending"
                                       ELSE queue'[q] = queue[q]
<1>1. QueueTyped /\ Arrived /\ StripeTyped /\ Len(queue) \in Nat
  BY DEF RowInv, StripeInv, QueueTyped
<1>2. PICK f : /\ Works(f, Len(queue), todo, known)
               /\ queue' = f[Len(queue)].queue /\ rows' = f[Len(queue)].rows
               /\ invited' = f[Len(queue)].invited
  BY DEF Writes
<1>3. Written(f[Len(queue)])
  BY <1>1, <1>2, WorkWritten
<1>4. \A q \in 1 .. Len(queue) : IF q \in todo THEN f[Len(queue)].queue[q].status # "pending"
                                ELSE f[Len(queue)].queue[q] = queue[q]
  BY <1>1, <1>2, WorkEnds
<1> QED BY <1>2, <1>3, <1>4 DEF Written

-----------------------------------------------------------------------------
(***************************************************************************)
(* The runs of the hourly job under way.  As long as none has applied what *)
(* another had ended, a list whose jobs are all pending still holds the    *)
(* first of them, and the rows are as they were when it was read.          *)

Open(r) == batch[r] # NoBatch
BatchTyped ==
  /\ batch \in [Runs -> Listed] /\ again \in BOOLEAN
  /\ \A r \in Runs : Open(r) => batch[r].todo # {} /\ batch[r].todo \subseteq 1 .. Len(queue)
Current(r) == Leading(batch[r].todo) /\ batch[r].known = FirstKnown(batch[r].todo)
ListsCurrent ==
  ~again => \A r \in Runs : Open(r) /\ batch[r].todo \subseteq Pending => Current(r)
BatchInv == BatchTyped /\ ListsCurrent

LEMMA BatchInvInit == Init => BatchInv
<1> SUFFICES ASSUME Init PROVE BatchInv
  OBVIOUS
<1>1. batch = [r \in Runs |-> NoBatch] /\ again = FALSE
  BY DEF Init
<1>2. NoBatch \in Listed /\ \A r \in Runs : ~Open(r)
  BY <1>1 DEF NoBatch, Listed, Open
<1> QED BY <1>1, <1>2 DEF BatchInv, BatchTyped, ListsCurrent

\* The queue and Stripe's events may grow, runs may be dropped.
LEMMA BatchInvGrows ==
  ASSUME BatchInv, again' = again, rows' = rows, Len(queue) \in Nat, Len(queue') \in Nat,
         Len(queue) <= Len(queue'), \A p \in 1 .. Len(queue) : queue'[p] = queue[p],
         \A p \in 1 .. Len(queue) : events'[queue[p].event] = events[queue[p].event],
         batch' \in [Runs -> Listed], \A r \in Runs : batch'[r] = batch[r] \/ batch'[r] = NoBatch
  PROVE  BatchInv'
<1>1. BatchTyped /\ ListsCurrent
  BY DEF BatchInv
<1>2. \A r \in Runs : Open(r)' => Open(r) /\ batch'[r] = batch[r]
  BY DEF Open
<1>3. \A p \in 1 .. Len(queue) : p \in 1 .. Len(queue') /\ (p \in Pending' <=> p \in Pending)
  BY DEF Pending
<1>4. BatchTyped'
  <2>1. ASSUME NEW r \in Runs, Open(r)'
        PROVE  batch'[r].todo # {} /\ batch'[r].todo \subseteq 1 .. Len(queue')
    <3>1. Open(r) /\ batch'[r] = batch[r]
      BY <1>2, <2>1
    <3>2. batch[r].todo # {} /\ batch[r].todo \subseteq 1 .. Len(queue)
      BY <1>1, <3>1 DEF BatchTyped
    <3> QED BY <1>3, <3>1, <3>2
  <2>2. again' \in BOOLEAN
    BY <1>1, Zenon DEF BatchTyped
  <2> QED BY <2>1, <2>2 DEF BatchTyped
<1>5. ASSUME ~again', NEW r \in Runs, Open(r)', batch'[r].todo \subseteq Pending'
      PROVE  Current(r)'
  <2> DEFINE todo == batch[r].todo
  <2>1. Open(r) /\ batch'[r] = batch[r] /\ ~again
    BY <1>2, <1>5
  <2>2. todo # {} /\ todo \subseteq 1 .. Len(queue) /\ todo \subseteq Pending' /\ todo \subseteq Nat
    BY <1>1, <1>5, <2>1 DEF BatchTyped
  <2>3. todo \subseteq Pending
    BY <1>3, <2>2
  <2>4. Leading(todo) /\ batch[r].known = FirstKnown(todo)
    BY <1>1, <2>1, <2>3 DEF ListsCurrent, Current
  <2>5. ASSUME NEW p \in todo, NEW q \in Pending', q < p PROVE q \in todo
    <3>1. q \in 1 .. Len(queue)
      BY <2>2, <2>5 DEF Pending
    <3>2. q \in Pending
      BY <1>3, <3>1
    <3> QED BY <2>4, <2>5, <3>2 DEF Leading
  <2>6. First(todo) \in todo
    BY <2>2, FirstIs
  <2>7. /\ queue'[First(todo)] = queue[First(todo)]
        /\ events'[queue[First(todo)].event] = events[queue[First(todo)].event]
    BY <2>2, <2>6
  <2>8. FirstKnown(todo)' = FirstKnown(todo)
    BY <2>1, <2>7 DEF FirstKnown, Knows, First
  <2> QED BY <2>1, <2>4, <2>5, <2>8, Zenon DEF Current, Leading
<1> QED BY <1>4, <1>5 DEF BatchInv, ListsCurrent

LEMMA BatchInvSame ==
  ASSUME BatchInv, UNCHANGED stripeVars, UNCHANGED rowVars, again' = again, QueueTyped,
         batch' \in [Runs -> Listed], \A r \in Runs : batch'[r] = batch[r] \/ batch'[r] = NoBatch
  PROVE  BatchInv'
<1>1. queue' = queue /\ rows' = rows /\ events' = events /\ Len(queue) \in Nat
  BY DEF stripeVars, rowVars, QueueTyped
<1>2. Len(queue) <= Len(queue)
  BY <1>1
<1> QED BY <1>1, <1>2, BatchInvGrows

LEMMA BatchInvStart ==
  ASSUME BatchInv, QueueTyped, Len(queue) <= MaxEvents, NEW r \in Runs, StartStripe(r)
  PROVE  BatchInv'
<1> DEFINE x == [todo |-> Batch, known |-> FirstKnown(Batch)]
<1>1. /\ Batch # {} /\ batch' = [batch EXCEPT ![r] = x]
      /\ queue' = queue /\ rows' = rows /\ events' = events /\ again' = again
  BY DEF StartStripe, stripeVars, rowVars
<1>2. BatchTyped /\ ListsCurrent /\ Leading(Batch) /\ Batch \subseteq 1 .. Len(queue)
  BY BatchLeads DEF BatchInv
<1>3. FirstKnown(Batch) \in BOOLEAN
  BY DEF FirstKnown, Knows
<1>4. Batch \in SUBSET (1 .. MaxEvents)
  BY <1>2, BoundAssumption DEF QueueTyped
<1>5. x \in Listed /\ x.todo = Batch /\ x.known = FirstKnown(Batch)
  BY <1>3, <1>4 DEF Listed
<1> HIDE DEF x
<1>6. /\ batch' \in [Runs -> Listed] /\ batch'[r] = x
      /\ \A q \in Runs \ {r} : batch'[q] = batch[q]
  BY <1>1, <1>2, <1>5 DEF BatchTyped
<1>7. BatchTyped'
  <2>1. ASSUME NEW q \in Runs, Open(q)'
        PROVE  batch'[q].todo # {} /\ batch'[q].todo \subseteq 1 .. Len(queue')
    <3>1. CASE q = r
      BY <1>1, <1>2, <1>5, <1>6, <3>1
    <3>2. CASE q # r
      BY <1>1, <1>2, <1>6, <2>1, <3>2 DEF BatchTyped, Open
    <3> QED BY <3>1, <3>2
  <2>2. again' \in BOOLEAN
    BY <1>1, <1>2, Zenon DEF BatchTyped
  <2> QED BY <1>6, <2>1, <2>2 DEF BatchTyped
<1>8. Pending' = Pending /\ \A todo : FirstKnown(todo)' = FirstKnown(todo)
  BY <1>1 DEF Pending, FirstKnown, Knows, First
<1>9. \A todo : Leading(todo)' = Leading(todo)
  BY <1>8 DEF Leading
<1>10. ASSUME ~again', NEW q \in Runs, Open(q)', batch'[q].todo \subseteq Pending'
       PROVE  Current(q)'
  <2>1. CASE q = r
    BY <1>2, <1>5, <1>6, <1>8, <1>9, <2>1 DEF Current
  <2>2. CASE q # r
    <3>1. batch'[q] = batch[q]
      BY <1>6, <2>2
    <3>2. Open(q) /\ batch[q].todo \subseteq Pending /\ ~again
      BY <1>1, <1>8, <1>10, <3>1 DEF Open
    <3>3. Current(q)
      BY <1>2, <3>2 DEF ListsCurrent
    <3> QED BY <1>8, <1>9, <3>1, <3>3 DEF Current
  <2> QED BY <2>1, <2>2
<1> QED BY <1>7, <1>10 DEF BatchInv, ListsCurrent

\* What a run that ends found: nothing it lists had ended, unless again is set.
LEMMA ApplyCurrent ==
  ASSUME RowInv, BatchInv, NEW r \in Runs, ApplyStripe(r)
  PROVE  /\ \E known : Writes(batch[r].todo, known) /\ (~again' => known = FirstKnown(batch[r].todo))
         /\ ~again' => ~again /\ batch[r].todo \subseteq Pending /\ Leading(batch[r].todo)
         /\ again' \in BOOLEAN /\ batch[r].todo # {} /\ Open(r)
         /\ batch' = [batch EXCEPT ![r] = NoBatch] /\ UNCHANGED <<stripeVars, reminderVars>>
<1> DEFINE todo == batch[r].todo
<1>1. BatchTyped /\ ListsCurrent /\ queue \in Seq(Job)
  BY DEF BatchInv, RowInv, QueueTyped
<1>2. PICK known \in {batch[r].known, FirstKnown(todo)} : Writes(todo, known)
  BY <1>1, ApplyDoes
<1>3. /\ again' = (again \/ ~(todo \subseteq Pending)) /\ Open(r)
      /\ batch' = [batch EXCEPT ![r] = NoBatch] /\ UNCHANGED <<stripeVars, reminderVars>>
  BY <1>1, ApplyDoes DEF Open
<1>4. again' => again \/ ~(todo \subseteq Pending)
  BY <1>3, Zenon
<1>5. ~again' => ~again /\ todo \subseteq Pending
  BY <1>3, Zenon
<1>6. again' \in BOOLEAN
  BY <1>3
<1>7. ~again' => Current(r)
  BY <1>1, <1>3, <1>5, Zenon DEF ListsCurrent
<1>8. todo # {}
  BY <1>1, <1>3 DEF BatchTyped
<1>9. ~again' => Leading(todo) /\ known = FirstKnown(todo)
  <2> SUFFICES ASSUME ~again' PROVE Leading(todo) /\ known = FirstKnown(todo)
    OBVIOUS
  <2>1. Leading(todo) /\ batch[r].known = FirstKnown(todo)
    BY <1>7, Zenon DEF Current
  <2> HIDE DEF todo
  <2>2. known = batch[r].known \/ known = FirstKnown(todo)
    BY <1>2, Zenon DEF todo
  <2> QED BY <2>1, <2>2, Zenon
<1> HIDE DEF todo
<1>10. \E k : Writes(todo, k) /\ (~again' => k = FirstKnown(todo))
  BY <1>2, <1>9, Zenon
<1> QED BY <1>3, <1>5, <1>6, <1>8, <1>9, <1>10, Zenon DEF todo

LEMMA RowInvApply ==
  ASSUME StripeInv, RowInv, BatchInv, NEW r \in Runs, ApplyStripe(r)
  PROVE  RowInv'
<1>1. QueueTyped /\ Arrived /\ RowsFollow /\ StripeTyped /\ Len(queue) \in Nat
  BY DEF RowInv, StripeInv, QueueTyped
<1> DEFINE todo == batch[r].todo
<1>2. /\ ~again' => ~again /\ todo \subseteq Pending /\ Leading(todo)
      /\ todo # {} /\ UNCHANGED <<stripeVars, reminderVars>>
  BY ApplyCurrent
<1>k. PICK known : Writes(todo, known) /\ (~again' => known = FirstKnown(todo))
  BY ApplyCurrent, Zenon
<1> HIDE DEF todo
<1>4. events' = events
  BY <1>2 DEF stripeVars
<1>6. SameJobs(queue') /\ RowsTyped(rows') /\ invited' \subseteq 1 .. MaxEvents
  BY <1>k, WritesDo
<1>7. Len(queue') = Len(queue) /\ \A p \in 1 .. Len(queue) : queue'[p].event = queue[p].event
  BY <1>6 DEF SameJobs
<1>8. QueueTyped'
  BY <1>6 DEF QueueTyped, SameJobs, RowsTyped
<1>9. Arrived'
  BY <1>1, <1>4, <1>7 DEF Arrived
<1>10. RowsFollow'
  <2> SUFFICES ASSUME InStep', ~again' PROVE \E k : DonePrefix(Start, k)'
    BY DEF RowsFollow
  <2>1. InStep /\ ~again /\ todo \subseteq Pending /\ Leading(todo) /\ known = FirstKnown(todo)
    BY <1>2, <1>7, <1>k DEF InStep
  <2>2. PICK m : DonePrefix(Start, m)
    BY <1>1, <2>1 DEF RowsFollow
  <2>5. PICK f : /\ Works(f, Len(queue), todo, known)
                 /\ queue' = f[Len(queue)].queue /\ rows' = f[Len(queue)].rows
                 /\ invited' = f[Len(queue)].invited
    BY <1>k, Zenon DEF Writes
  <2> DEFINE st == f[Len(queue)]
  <2>3. PICK k : DonePrefix(st, k)
    BY <1>1, <1>2, <2>1, <2>2, <2>5, WorkInStep
  <2>6. st.queue = queue' /\ st.rows = rows' /\ st.invited = invited'
    BY <2>5
  <2> HIDE DEF st
  <2>4. RowsSay(rows, k)'
    BY <1>4, <2>3, <2>6 DEF DonePrefix, RowsSay
  <2>7. Start'.queue = queue' /\ Start'.rows = rows' /\ Start'.invited = invited'
    BY DEF Start
  <2>8. DonePrefix(Start, k)'
    BY <1>4, <1>7, <2>3, <2>4, <2>6, <2>7 DEF DonePrefix
  <2> QED BY <2>8
<1> QED BY <1>8, <1>9, <1>10 DEF RowInv

\* A list that overlapped the one just applied shares its first job: it is no
\* longer all pending.
LEMMA BatchInvApply ==
  ASSUME StripeInv, RowInv, BatchInv, NEW r \in Runs, ApplyStripe(r)
  PROVE  BatchInv'
<1>1. BatchTyped /\ ListsCurrent /\ Len(queue) \in Nat
  BY DEF BatchInv, RowInv, QueueTyped
<1> DEFINE todo == batch[r].todo
<1>2. /\ ~again' => ~again /\ todo \subseteq Pending /\ Leading(todo)
      /\ again' \in BOOLEAN /\ todo # {} /\ Open(r) /\ batch' = [batch EXCEPT ![r] = NoBatch]
  BY ApplyCurrent
<1>3. PICK known : Writes(todo, known)
  BY ApplyCurrent, Zenon
<1> HIDE DEF todo
<1>4. /\ Len(queue') = Len(queue)
      /\ \A q \in 1 .. Len(queue) : IF q \in todo THEN queue'[q].status # "pending"
                                    ELSE queue'[q] = queue[q]
  BY <1>3, WritesDo DEF SameJobs
<1>5. NoBatch \in Listed
  BY DEF NoBatch, Listed
<1>6. /\ batch' \in [Runs -> Listed] /\ batch'[r] = NoBatch
      /\ \A q \in Runs \ {r} : batch'[q] = batch[q]
  BY <1>1, <1>2, <1>5 DEF BatchTyped
<1>7. \A q \in Runs : Open(q)' => q # r /\ Open(q) /\ batch'[q] = batch[q]
  BY <1>6 DEF Open
<1>8. BatchTyped'
  <2>1. \A q \in Runs : Open(q)' => batch'[q].todo # {} /\ batch'[q].todo \subseteq 1 .. Len(queue')
    BY <1>1, <1>4, <1>7 DEF BatchTyped
  <2> QED BY <1>2, <1>6, <2>1 DEF BatchTyped
<1>9. Pending' \subseteq Pending /\ \A q \in todo : q \notin Pending'
  BY <1>4 DEF Pending
<1>10. ASSUME ~again', NEW q \in Runs, Open(q)', batch'[q].todo \subseteq Pending'
       PROVE  FALSE
  <2> DEFINE other == batch[q].todo
  <2>1. Open(q) /\ other \subseteq Pending' /\ other \subseteq Pending
    BY <1>7, <1>9, <1>10
  <2>2. other # {} /\ Leading(other)
    BY <1>1, <1>2, <1>10, <2>1 DEF BatchTyped, ListsCurrent, Current
  <2>3. todo \subseteq Pending /\ Leading(todo)
    BY <1>2, <1>10
  <2> HIDE DEF other
  <2>4. PICK x \in other, y \in todo : TRUE
    BY <1>2, <2>2
  <2>5. x \in Nat /\ y \in Nat
    BY <2>1, <2>3, <2>4 DEF Pending
  <2>6. CASE x < y
    BY <1>9, <2>1, <2>3, <2>4, <2>6 DEF Leading
  <2>7. CASE y < x
    BY <1>9, <2>1, <2>2, <2>3, <2>4, <2>7 DEF Leading
  <2>8. CASE x = y
    BY <1>9, <2>1, <2>4, <2>8
  <2> QED BY <2>5, <2>6, <2>7, <2>8
<1> QED BY <1>8, <1>10 DEF BatchInv, ListsCurrent

-----------------------------------------------------------------------------
LEMMA WorkedOffInStep ==
  ASSUME RowInv, StripeInv, WorkedOff, InOrder
  PROVE  InStep /\ Len(queue) = Len(events)
<1> DEFINE n == Len(queue)
           m == Len(events)
           S == {k \in Nat : \A p \in 1 .. n : p <= k => queue[p].event = p}
<1>0. /\ n \in Nat /\ m \in Nat
      /\ \A p \in 1 .. n : queue[p].event \in 1 .. m
      /\ \A p \in 1 .. n, q \in 1 .. n : p # q => queue[p].event # queue[q].event
  BY DEF RowInv, QueueTyped, Arrived, StripeInv, StripeTyped
<1>1. 0 \in S
  BY <1>0
<1>2. ASSUME NEW k \in Nat, k \in S PROVE k + 1 \in S
  <2> SUFFICES ASSUME k + 1 \in 1 .. n PROVE queue[k + 1].event = k + 1
    BY <1>0, <1>2
  <2> DEFINE e == queue[k + 1].event
  <2>1. e \in 1 .. m /\ \A p \in 1 .. k : p \in 1 .. n /\ queue[p].event = p
    BY <1>0, <1>2
  <2>2. CASE e > k + 1
    <3>1. k + 1 \in 1 .. (e - 1) /\ (k + 1) - 1 = k
      BY <2>1, <2>2
    <3>2. PICK q \in 1 .. k : queue[q].event = k + 1
      BY <3>1 DEF InOrder
    <3> QED BY <2>1, <3>2
  <2>3. CASE e < k + 1
    <3>1. e \in 1 .. k
      BY <2>1, <2>3
    <3>2. queue[e].event = e /\ e \in 1 .. n /\ e # k + 1
      BY <2>1, <2>3, <3>1
    <3> QED BY <1>0, <3>2
  <2> QED BY <2>1, <2>2, <2>3
<1> HIDE DEF S
<1>3. \A k \in Nat : k \in S
  BY <1>1, <1>2, CountingSet
<1>4. \A p \in 1 .. n : queue[p].event = p
  <2>1. n \in S /\ \A p \in 1 .. n : p <= n
    BY <1>0, <1>3
  <2> QED BY <2>1 DEF S
<1>5. n <= m
  BY <1>0, <1>4
<1>6. m <= n
  <2> SUFFICES ASSUME n < m PROVE FALSE
    BY <1>0
  <2>1. n + 1 \in 1 .. m
    BY <1>0
  <2>2. \E p \in 1 .. n : queue[p].event = n + 1
    BY <2>1 DEF WorkedOff, Delivered
  <2> QED BY <1>0, <1>4, <2>2
<1> QED BY <1>0, <1>4, <1>5, <1>6 DEF InStep

LEMMA InvRowsFollow ==
  ASSUME RowInv, StripeInv
  PROVE  RowsFollowStripe
<1> SUFFICES ASSUME WorkedOff, InOrder, ~again
             PROVE  /\ \A s \in Subs : Begun(s) =>
                         /\ rows[s] # None
                         /\ rows[s].status = stripe[s].status /\ rows[s].until = stripe[s].period
                    /\ invited = {i \in 1 .. Len(events) : events[i].type = "paid"}
  BY DEF RowsFollowStripe
<1>1. InStep /\ Len(queue) = Len(events)
  BY WorkedOffInStep
<1>2. PICK k : DonePrefix(Start, k)
  BY <1>1 DEF RowInv, RowsFollow
<1>3. Len(queue) \in Nat /\ k \in 0 .. Len(queue) /\ Len(queue) = Len(events)
  BY <1>1, <1>2 DEF RowInv, QueueTyped, DonePrefix
<1>4. k = Len(queue)
  <2> SUFFICES ASSUME k < Len(queue) PROVE FALSE
    BY <1>3
  <2>1. k + 1 \in 1 .. Len(queue) /\ ~(k + 1 <= k)
    BY <1>3
  <2>2. queue[k + 1].status = "pending"
    BY <1>2, <2>1, StartParts DEF DonePrefix
  <2>3. k + 1 \in Pending
    BY <2>1, <2>2 DEF Pending
  <2> QED BY <2>3 DEF WorkedOff
<1>5. RowsSay(rows, Len(events)) /\ invited = {i \in 1 .. Len(events) : events[i].type = "paid"}
  BY <1>2, <1>3, <1>4, StartParts DEF DonePrefix
<1>6. ASSUME NEW s \in Subs, Begun(s)
      PROVE  /\ rows[s] # None
             /\ rows[s].status = stripe[s].status /\ rows[s].until = stripe[s].period
  <2>1. \E i \in 1 .. Len(events) : Of(events, i, s)
    BY <1>6 DEF Begun, Of
  <2>2. rows[s] # None /\ Says(events, Len(events), s, rows[s].status, rows[s].until)
    BY <1>5, <2>1 DEF RowsSay
  <2>3. Says(events, Len(events), s, stripe[s].status, stripe[s].period)
    BY DEF StripeInv, StripeSays
  <2>4. Len(events) \in Nat
    BY <1>3
  <2> QED BY <2>2, <2>3, <2>4, SaysUnique
<1> QED BY <1>5, <1>6

LEMMA UptoCounted ==
  ASSUME NEW n \in Nat
  PROVE  IsFiniteSet(1 .. n) /\ Cardinality(1 .. n) = n
<1>1. n \in Int /\ 1 \in Int
  OBVIOUS
<1>2. IsFiniteSet(1 .. n) /\ Cardinality(1 .. n) = IF 1 > n THEN 0 ELSE n - 1 + 1
  BY <1>1, FS_Interval
<1> QED BY <1>2

\* No event has two jobs, so there are no more jobs than events.
LEMMA FewJobs ==
  ASSUME RowInv, StripeInv
  PROVE  Len(queue) <= MaxEvents
<1> DEFINE n == Len(queue)
           m == Len(events)
           f == [p \in 1 .. n |-> queue[p].event]
<1>1. n \in Nat /\ m \in Nat /\ m <= MaxEvents
  BY DEF RowInv, QueueTyped, StripeInv, StripeTyped
<1>2. f \in [1 .. n -> 1 .. m]
  BY DEF RowInv, Arrived
<1>3. /\ IsFiniteSet(1 .. n) /\ Cardinality(1 .. n) = n
      /\ IsFiniteSet(1 .. m) /\ Cardinality(1 .. m) = m
  <2> HIDE DEF n, m
  <2> QED BY <1>1, UptoCounted
<1>4. ~(m < n)
  <2> SUFFICES ASSUME m < n PROVE FALSE
    OBVIOUS
  <2>1. PICK p \in 1 .. n, q \in 1 .. n : p # q /\ f[p] = f[q]
    <3> HIDE DEF f, n, m
    <3> QED BY <1>2, <1>3, FS_PigeonHole
  <2> QED BY <2>1 DEF RowInv, Arrived
<1> QED BY <1>1, <1>4, BoundAssumption

\* There is a newest row when there is one, and its term is a date or none.
LEMMA NewestTyped ==
  ASSUME RowsTyped(rows), NewestUntil # None
  PROVE  NewestUntil \in Terms
<1> DEFINE Top(s) == /\ rows[s] # None
                     /\ \A t \in Subs : rows[t] # None => rows[t].id <= rows[s].id
           Upto(n) == \A t \in Subs : rows[t] # None => rows[t].id <= n
           S == {n \in Nat : Upto(n) => \E s \in Subs : Top(s)}
<1>1. PICK b \in Subs : rows[b] # None
  BY DEF NewestUntil
<1>2. \A t \in Subs : rows[t] # None =>
        rows[t] \in Row /\ rows[t].id \in 1 .. Cardinality(Subs) /\ rows[t].until \in Term
  BY DEF RowsTyped, Row
<1>3. Cardinality(Subs) \in Nat
  BY SubsAssumption, FS_CardinalityType
<1>4. 0 \in S
  <2>1. ~(rows[b].id <= 0)
    BY <1>1, <1>2, <1>3
  <2> QED BY <1>1, <2>1
<1>5. ASSUME NEW n \in Nat, n \in S PROVE n + 1 \in S
  <2> SUFFICES ASSUME Upto(n + 1) PROVE \E s \in Subs : Top(s)
    OBVIOUS
  <2>1. CASE \E s \in Subs : rows[s] # None /\ rows[s].id = n + 1
    <3>1. PICK s \in Subs : rows[s] # None /\ rows[s].id = n + 1
      BY <2>1
    <3>2. Top(s)
      BY <3>1
    <3> QED BY <3>2
  <2>2. CASE ~\E s \in Subs : rows[s] # None /\ rows[s].id = n + 1
    <3>1. Upto(n)
      <4> SUFFICES ASSUME NEW t \in Subs, rows[t] # None PROVE rows[t].id <= n
        OBVIOUS
      <4>1. rows[t].id <= n + 1 /\ rows[t].id # n + 1 /\ rows[t].id \in Nat
        BY <1>2, <1>3, <2>2
      <4> QED BY <4>1
    <3> QED BY <1>5, <3>1
  <2> QED BY <2>1, <2>2
<1> HIDE DEF S
<1>6. \A n \in Nat : n \in S
  BY <1>4, <1>5, CountingSet
<1>7. Cardinality(Subs) \in S
  BY <1>3, <1>6
<1>8. Upto(Cardinality(Subs))
  BY <1>2, <1>3
<1>9. \E s \in Subs : Top(s)
  BY <1>7, <1>8 DEF S
<1> DEFINE c == CHOOSE s \in Subs : rows[s] # None
                  /\ \A t \in Subs : rows[t] # None => rows[t].id <= rows[s].id
<1>10. NewestUntil = rows[c].until
  BY <1>1, Zenon DEF NewestUntil
<1>11. c \in Subs /\ rows[c] # None
  BY <1>9
<1> HIDE DEF c
<1> QED BY <1>2, <1>10, <1>11 DEF Term

-----------------------------------------------------------------------------
(***************************************************************************)
(* The reminders.                                                          *)

\* A reminder was sent, or is about to be, once for what accounts for it (a
\* note, or a run that has yet to make it) and once for each fault.
ActiveRuns == {r \in Runs : run[r] # Idle}
SendingRuns(k) == {r \in Runs : run[r].at = "sending" /\ run[r].key = k}
Accounted(k) == k \in noted \/ \E r \in Runs : run[r] # Idle /\ run[r].key = k

ReminderTyped ==
  /\ today \in 0 .. LastDay /\ noted \subseteq Key /\ run \in [Runs -> Run]
  /\ sent \in [Key -> Nat] /\ faults \in 0 .. MaxFaults
  /\ IsFiniteSet(ActiveRuns)

Allowance(k) == faults + (IF Accounted(k) THEN 1 ELSE 0)
WithinAllowance ==
  \A k \in Key : sent[k] + Cardinality(SendingRuns(k)) <= Allowance(k)

RemindInv == ReminderTyped /\ WithinAllowance

LEMMA RunShape ==
  ASSUME ReminderTyped
  PROVE  /\ Idle \in Run /\ Idle.at = "idle"
         /\ \A r \in Runs : run[r] \in Run
         /\ \A r \in Runs : run[r] # Idle =>
              /\ run[r].at \in {"sending", "sent", "written"} /\ run[r].key \in Key
              /\ run[r] = [at |-> run[r].at, key |-> run[r].key]
         /\ \A r \in Runs : run[r].at # "idle" => run[r] # Idle
BY DEF ReminderTyped, Run, Idle

LEMMA SendingFinite ==
  ASSUME ReminderTyped, NEW k
  PROVE  IsFiniteSet(SendingRuns(k)) /\ Cardinality(SendingRuns(k)) \in Nat
<1>1. SendingRuns(k) \subseteq ActiveRuns
  BY RunShape DEF SendingRuns, ActiveRuns
<1>2. IsFiniteSet(SendingRuns(k))
  BY <1>1, FS_Subset DEF ReminderTyped
<1> QED BY <1>2, FS_CardinalityType

\* A step that changes one run.
OneRun(r, x) == run' = [run EXCEPT ![r] = x]

LEMMA OneRunTyped ==
  ASSUME ReminderTyped, NEW r \in Runs, NEW x \in Run, OneRun(r, x)
  PROVE  /\ run' \in [Runs -> Run] /\ IsFiniteSet(ActiveRuns')
         /\ run'[r] = x /\ \A q \in Runs \ {r} : run'[q] = run[q]
<1>1. run' \in [Runs -> Run] /\ run'[r] = x /\ \A q \in Runs \ {r} : run'[q] = run[q]
  BY DEF ReminderTyped, OneRun
<1>2. ActiveRuns' \subseteq ActiveRuns \cup {r}
  BY <1>1 DEF ActiveRuns
<1>3. IsFiniteSet(ActiveRuns \cup {r})
  BY FS_AddElement DEF ReminderTyped
<1>4. IsFiniteSet(ActiveRuns')
  BY <1>2, <1>3, FS_Subset
<1> QED BY <1>1, <1>4

LEMMA OneRunSending ==
  ASSUME ReminderTyped, NEW r \in Runs, NEW x \in Run, OneRun(r, x), NEW k
  PROVE  SendingRuns(k)' = IF x.at = "sending" /\ x.key = k THEN SendingRuns(k) \cup {r}
                           ELSE SendingRuns(k) \ {r}
<1>1. run'[r] = x /\ \A q \in Runs \ {r} : run'[q] = run[q]
  BY OneRunTyped
<1> QED BY <1>1 DEF SendingRuns

LEMMA OneRunCount ==
  ASSUME ReminderTyped, NEW r \in Runs, NEW x \in Run, OneRun(r, x), NEW k
  PROVE  /\ Cardinality(SendingRuns(k)') \in Nat
         /\ Cardinality(SendingRuns(k)') <= Cardinality(SendingRuns(k)) + 1
         /\ ~(x.at = "sending" /\ x.key = k) =>
              Cardinality(SendingRuns(k)') <= Cardinality(SendingRuns(k))
         /\ ~(x.at = "sending" /\ x.key = k) /\ r \in SendingRuns(k) =>
              Cardinality(SendingRuns(k)') = Cardinality(SendingRuns(k)) - 1
<1>1. PICK S : S = SendingRuns(k)
  OBVIOUS
<1>2. IsFiniteSet(S) /\ Cardinality(S) \in Nat
  BY <1>1, SendingFinite
<1>3. /\ IsFiniteSet(S \cup {r})
      /\ Cardinality(S \cup {r}) = IF r \in S THEN Cardinality(S) ELSE Cardinality(S) + 1
  BY <1>2, FS_AddElement
<1>4. /\ IsFiniteSet(S \ {r})
      /\ Cardinality(S \ {r}) = IF r \in S THEN Cardinality(S) - 1 ELSE Cardinality(S)
  BY <1>2, FS_RemoveElement
<1>8. Cardinality(S \ {r}) \in Nat /\ Cardinality(S \cup {r}) \in Nat
  BY <1>3, <1>4, FS_CardinalityType
<1>5. SendingRuns(k)' = IF x.at = "sending" /\ x.key = k THEN S \cup {r} ELSE S \ {r}
  BY <1>1, OneRunSending
<1>6. CASE x.at = "sending" /\ x.key = k
  BY <1>1, <1>2, <1>3, <1>5, <1>6, <1>8
<1>7. CASE ~(x.at = "sending" /\ x.key = k)
  BY <1>1, <1>2, <1>4, <1>5, <1>7, <1>8
<1> QED BY <1>6, <1>7

RemindStep == RemindInv /\ RowsTyped(rows)

LEMMA OthersAccounted ==
  ASSUME ReminderTyped, NEW r \in Runs, NEW x \in Run, OneRun(r, x), noted \subseteq noted',
         NEW k \in Key,
         run[r] # Idle => (k # run[r].key \/ k \in noted' \/ (x # Idle /\ x.key = run[r].key))
  PROVE  Accounted(k) => Accounted(k)'
<1>1. run'[r] = x /\ \A q \in Runs \ {r} : run'[q] = run[q]
  BY OneRunTyped
<1> QED BY <1>1 DEF Accounted

LEMMA RemindInvInit == Init => RemindInv
<1> SUFFICES ASSUME Init PROVE RemindInv
  OBVIOUS
<1>1. /\ today = 0 /\ noted = {} /\ run = [r \in Runs |-> Idle]
      /\ sent = [k \in Key |-> 0] /\ faults = 0
  BY DEF Init
<1>2. ActiveRuns = {} /\ \A k \in Key : SendingRuns(k) = {}
  BY <1>1 DEF ActiveRuns, SendingRuns, Idle
<1>3. ReminderTyped
  BY <1>1, <1>2, FS_EmptySet, DayAssumption, BoundAssumption DEF ReminderTyped, Run
<1>4. \A k \in Key : Allowance(k) \in {0, 1}
  BY <1>1 DEF Allowance
<1>5. \A k \in Key : sent[k] = 0 /\ Cardinality(SendingRuns(k)) = 0
  BY <1>1, <1>2, FS_EmptySet
<1>6. WithinAllowance
  BY <1>4, <1>5 DEF WithinAllowance
<1> QED BY <1>3, <1>6 DEF RemindInv

LEMMA RemindInvSame ==
  ASSUME RemindInv, UNCHANGED <<noted, run, sent, faults>>, today' \in 0 .. LastDay
  PROVE  RemindInv'
<1>1. ReminderTyped /\ WithinAllowance
  BY DEF RemindInv
<1>2. ActiveRuns' = ActiveRuns /\ \A k \in Key : SendingRuns(k)' = SendingRuns(k)
  BY DEF ActiveRuns, SendingRuns
<1>3. ReminderTyped'
  BY <1>1, <1>2 DEF ReminderTyped
<1>4. \A k \in Key : Allowance(k)' = Allowance(k)
  BY DEF Allowance, Accounted
<1>5. WithinAllowance'
  BY <1>1, <1>2, <1>4 DEF WithinAllowance
<1> QED BY <1>3, <1>5 DEF RemindInv

LEMMA AllowanceIs ==
  ASSUME ReminderTyped, NEW k \in Key
  PROVE  /\ Allowance(k) \in Nat /\ faults \in Nat
         /\ Allowance(k) \in {faults, faults + 1}
         /\ Accounted(k) => Allowance(k) = faults + 1
         /\ ~Accounted(k) => Allowance(k) = faults
BY BoundAssumption DEF Allowance, ReminderTyped

LEMMA NextAllowanceIs ==
  ASSUME ReminderTyped', NEW k \in Key
  PROVE  /\ Allowance(k)' \in Nat /\ faults' \in Nat
         /\ Allowance(k)' \in {faults', faults' + 1}
         /\ Accounted(k)' => Allowance(k)' = faults' + 1
         /\ ~Accounted(k)' => Allowance(k)' = faults'
<1>0. faults' \in Nat
  BY BoundAssumption DEF ReminderTyped
<1>1. PICK f \in Nat : f = faults'
  BY <1>0
<1>2. Allowance(k)' = f + (IF Accounted(k)' THEN 1 ELSE 0)
  BY <1>1 DEF Allowance
<1>3. Accounted(k)' => Allowance(k)' = f + 1
  BY <1>2, Zenon
<1>4. ~Accounted(k)' => Allowance(k)' = f + 0
  BY <1>2, Zenon
<1>5. f + 0 = f /\ f + 1 \in Nat
  OBVIOUS
<1>6. ~Accounted(k)' => Allowance(k)' = f
  BY <1>4, <1>5, Zenon
<1> QED BY <1>1, <1>3, <1>5, <1>6, Zenon

LEMMA RemindInvStart ==
  ASSUME RemindStep, NEW r \in Runs, StartReminder(r)
  PROVE  RemindInv'
<1>1. ReminderTyped /\ WithinAllowance /\ RowsTyped(rows)
  BY DEF RemindStep, RemindInv
<1> DEFINE overlaps == \E q \in Runs : run[q] # Idle
<1>2. /\ run[r] = Idle /\ NewestUntil # None
      /\ overlaps => faults < MaxFaults
      /\ faults' = IF overlaps THEN faults + 1 ELSE faults
      /\ UNCHANGED <<today, noted, sent>>
  BY DEF StartReminder
<1>3. PICK lead \in Leads :
        /\ Unnoted([until |-> NewestUntil, lead |-> lead])
        /\ OneRun(r, [at |-> "sending", key |-> [until |-> NewestUntil, lead |-> lead]])
  BY DEF StartReminder, OneRun
<1> DEFINE key == [until |-> NewestUntil, lead |-> lead]
           x == [at |-> "sending", key |-> key]
<1>4. key \in Key
  BY <1>1, <1>2, NewestTyped DEF Key
<1>5. key \notin noted /\ OneRun(r, x)
  BY <1>3 DEF Unnoted
<1> HIDE DEF key
<1>6. x \in Run /\ x.at = "sending" /\ x.key = key /\ x # Idle
  BY <1>4 DEF Run, Idle
<1> HIDE DEF x, overlaps
<1>7. /\ run' \in [Runs -> Run] /\ IsFiniteSet(ActiveRuns')
      /\ run'[r] = x /\ \A q \in Runs \ {r} : run'[q] = run[q]
  BY <1>1, <1>5, <1>6, OneRunTyped
<1>8. faults \in Nat /\ faults' \in 0 .. MaxFaults
  BY <1>1, <1>2, BoundAssumption DEF ReminderTyped
<1>9. ReminderTyped'
  BY <1>1, <1>2, <1>7, <1>8 DEF ReminderTyped
<1>10. ASSUME NEW k \in Key PROVE (sent[k] + Cardinality(SendingRuns(k)) <= Allowance(k))'
  <2> DEFINE c == Cardinality(SendingRuns(k))
             d == Cardinality(SendingRuns(k)')
  <2>1. sent[k] \in Nat /\ c \in Nat /\ sent[k] + c <= Allowance(k) /\ sent'[k] = sent[k]
    BY <1>1, <1>2, SendingFinite DEF ReminderTyped, WithinAllowance
  <2>2. d \in Nat /\ d <= c + 1 /\ (k # key => d <= c)
    BY <1>1, <1>5, <1>6, OneRunCount
  <2>3. /\ Allowance(k) \in Nat /\ Allowance(k) \in {faults, faults + 1}
        /\ Accounted(k) => Allowance(k) = faults + 1
        /\ ~Accounted(k) => Allowance(k) = faults
    BY <1>1, AllowanceIs
  <2>4. /\ Allowance(k)' \in Nat /\ Allowance(k)' \in {faults', faults' + 1}
        /\ Accounted(k)' => Allowance(k)' = faults' + 1
        /\ ~Accounted(k)' => Allowance(k)' = faults'
    BY <1>9, NextAllowanceIs
  <2>5. Accounted(k) => Accounted(k)'
    BY <1>1, <1>2, <1>5, <1>6, OthersAccounted
  <2>6. k = key => Accounted(k)'
    BY <1>6, <1>7 DEF Accounted
  <2>7. ~overlaps => SendingRuns(k) = {} /\ (k = key => ~Accounted(k))
    BY <1>1, <1>5, RunShape DEF overlaps, SendingRuns, Accounted
  <2>8. ~overlaps => c = 0
    BY <2>7, FS_EmptySet
  <2> HIDE DEF c, d
  <2>9. CASE k # key
    <3>1. Allowance(k)' >= Allowance(k)
      BY <1>2, <1>8, <2>3, <2>4, <2>5
    <3>2. sent[k] + d <= Allowance(k)'
      BY <2>1, <2>2, <2>3, <2>4, <2>9, <3>1
    <3> QED BY <2>1, <3>2 DEF d
  <2>10. CASE k = key
    <3>1. Allowance(k)' = faults' + 1
      BY <2>4, <2>6, <2>10
    <3>2. CASE overlaps
      <4>1. sent[k] + d <= Allowance(k)'
        BY <1>2, <1>8, <2>1, <2>2, <2>3, <3>1, <3>2
      <4> QED BY <2>1, <4>1 DEF d
    <3>3. CASE ~overlaps
      <4>1. sent[k] + 0 <= faults /\ d <= 1
        BY <2>1, <2>2, <2>3, <2>7, <2>8, <2>10, <3>3
      <4>2. sent[k] + d <= Allowance(k)'
        BY <1>2, <1>8, <2>1, <2>2, <3>1, <3>3, <4>1
      <4> QED BY <2>1, <4>2 DEF d
    <3> QED BY <3>2, <3>3
  <2> QED BY <2>9, <2>10
<1>11. WithinAllowance'
  BY <1>10 DEF WithinAllowance
<1> QED BY <1>9, <1>11 DEF RemindInv

\* A run goes on or ends, nothing is sent, and the faults may grow by one.
LEMMA RemindInvMoves ==
  ASSUME RemindInv, NEW r \in Runs, run[r] # Idle, NEW x \in Run, OneRun(r, x), x.at # "sending",
         UNCHANGED <<today, sent>>, noted \subseteq noted', noted' \subseteq Key,
         faults' \in 0 .. MaxFaults, faults' \in {faults, faults + 1},
         \/ run[r].at = "sending" \/ faults' = faults + 1 \/ run[r].key \in noted'
         \/ x # Idle /\ x.key = run[r].key
  PROVE  RemindInv'
<1>1. ReminderTyped /\ WithinAllowance
  BY DEF RemindInv
<1>2. /\ run' \in [Runs -> Run] /\ IsFiniteSet(ActiveRuns')
  BY <1>1, OneRunTyped
<1>3. ReminderTyped'
  BY <1>1, <1>2 DEF ReminderTyped
<1>4. ASSUME NEW k \in Key PROVE (sent[k] + Cardinality(SendingRuns(k)) <= Allowance(k))'
  <2> DEFINE c == Cardinality(SendingRuns(k))
             d == Cardinality(SendingRuns(k)')
  <2>1. sent[k] \in Nat /\ c \in Nat /\ sent[k] + c <= Allowance(k) /\ sent'[k] = sent[k]
    BY <1>1, SendingFinite DEF ReminderTyped, WithinAllowance
  <2>2. d \in Nat /\ d <= c /\ (r \in SendingRuns(k) => d = c - 1)
    BY <1>1, OneRunCount
  <2>3. /\ Allowance(k) \in Nat /\ faults \in Nat /\ Allowance(k) \in {faults, faults + 1}
        /\ Accounted(k) => Allowance(k) = faults + 1
        /\ ~Accounted(k) => Allowance(k) = faults
    BY <1>1, AllowanceIs
  <2>4. /\ Allowance(k)' \in Nat /\ Allowance(k)' \in {faults', faults' + 1}
        /\ Accounted(k)' => Allowance(k)' = faults' + 1
        /\ ~Accounted(k)' => Allowance(k)' = faults'
    BY <1>3, NextAllowanceIs
  <2>5. k # run[r].key \/ run[r].key \in noted' \/ (x # Idle /\ x.key = run[r].key) =>
          (Accounted(k) => Accounted(k)')
    BY <1>1, OthersAccounted
  <2>6. k = run[r].key /\ run[r].at = "sending" => r \in SendingRuns(k)
    BY DEF SendingRuns
  <2> HIDE DEF c, d
  <2>7. sent[k] + d <= Allowance(k)'
    <3>1. CASE Accounted(k) => Accounted(k)'
      <4>1. Allowance(k)' >= Allowance(k)
        BY <2>3, <2>4, <3>1
      <4> QED BY <2>1, <2>2, <2>3, <2>4, <4>1
    <3>2. CASE faults' = faults + 1
      BY <2>1, <2>2, <2>3, <2>4, <3>2
    <3>3. CASE k = run[r].key /\ run[r].at = "sending"
      <4>1. d = c - 1
        BY <2>2, <2>6, <3>3
      <4> QED BY <2>1, <2>2, <2>3, <2>4, <4>1
    <3> QED BY <2>5, <3>1, <3>2, <3>3
  <2> QED BY <2>1, <2>7 DEF d
<1>5. WithinAllowance'
  BY <1>4 DEF WithinAllowance
<1> QED BY <1>3, <1>5 DEF RemindInv

LEMMA Going ==
  ASSUME ReminderTyped, NEW r \in Runs, run[r] # Idle, NEW at \in {"sent", "written"}, Goes(r, at)
  PROVE  \E x \in Run : /\ OneRun(r, x) /\ x # Idle /\ x.at = at /\ x.key = run[r].key
<1> DEFINE x == [at |-> at, key |-> run[r].key]
<1>1. run[r].key \in Key /\ run[r] = [at |-> run[r].at, key |-> run[r].key]
  BY RunShape
<1>2. x \in Run /\ x # Idle /\ x.at = at /\ x.key = run[r].key
  BY <1>1 DEF Run, Idle
<1>3. [run EXCEPT ![r].at = at] = [run EXCEPT ![r] = x]
  <2>1. [run[r] EXCEPT !.at = at] = x
    BY <1>1
  <2>2. [run EXCEPT ![r].at = at] = [run EXCEPT ![r] = [run[r] EXCEPT !.at = at]]
    BY DEF ReminderTyped
  <2> HIDE DEF x
  <2> QED BY <2>1, <2>2
<1>4. OneRun(r, x)
  BY <1>3 DEF Goes, OneRun
<1> HIDE DEF x
<1> QED BY <1>2, <1>4

LEMMA RemindInvSend ==
  ASSUME RemindInv, NEW r \in Runs, SendReminder(r)
  PROVE  RemindInv'
<1>1. ReminderTyped /\ WithinAllowance
  BY DEF RemindInv
<1>2. run[r] # Idle /\ run[r].key \in Key /\ run[r].at = "sending"
  BY <1>1, RunShape DEF SendReminder
<1>3. UNCHANGED <<today, noted, faults>>
  BY DEF SendReminder
<1>4. CASE Ends(r) /\ UNCHANGED sent
  <2>1. Idle \in Run /\ Idle.at # "sending" /\ OneRun(r, Idle)
    BY <1>1, <1>4, RunShape DEF Ends, OneRun
  <2>2. /\ noted' \subseteq Key /\ noted \subseteq noted'
        /\ faults' \in 0 .. MaxFaults /\ faults' \in {faults, faults + 1}
    BY <1>1, <1>3 DEF ReminderTyped
  <2> QED BY <1>2, <1>3, <1>4, <2>1, <2>2, RemindInvMoves
<1>5. CASE sent' = [sent EXCEPT ![run[r].key] = @ + 1] /\ Goes(r, "sent")
  <2>1. PICK x \in Run : OneRun(r, x) /\ x # Idle /\ x.at = "sent" /\ x.key = run[r].key
    BY <1>1, <1>2, <1>5, Going
  <2>2. run' \in [Runs -> Run] /\ IsFiniteSet(ActiveRuns')
    BY <1>1, <2>1, OneRunTyped
  <2>3. sent' \in [Key -> Nat]
    BY <1>1, <1>2, <1>5 DEF ReminderTyped
  <2>4. ReminderTyped'
    BY <1>1, <1>3, <2>2, <2>3 DEF ReminderTyped
  <2>5. ASSUME NEW k \in Key PROVE (sent[k] + Cardinality(SendingRuns(k)) <= Allowance(k))'
    <3> DEFINE c == Cardinality(SendingRuns(k))
               d == Cardinality(SendingRuns(k)')
    <3>1. sent[k] \in Nat /\ c \in Nat /\ sent[k] + c <= Allowance(k)
      BY <1>1, SendingFinite DEF ReminderTyped, WithinAllowance
    <3>2. d \in Nat /\ d <= c /\ (r \in SendingRuns(k) => d = c - 1)
      BY <1>1, <2>1, OneRunCount
    <3>3. k = run[r].key => r \in SendingRuns(k)
      BY <1>2 DEF SendingRuns
    <3>4. sent'[k] = IF k = run[r].key THEN sent[k] + 1 ELSE sent[k]
      BY <1>1, <1>5 DEF ReminderTyped
    <3>5. Accounted(k) => Accounted(k)'
      BY <1>1, <1>3, <2>1, OthersAccounted
    <3>6. Allowance(k) \in Nat /\ Allowance(k)' \in Nat /\ Allowance(k)' >= Allowance(k)
      BY <1>1, <1>3, <2>4, <3>5, AllowanceIs DEF Allowance
    <3> HIDE DEF c, d
    <3>7. sent'[k] + d <= Allowance(k)'
      <4>1. CASE k = run[r].key
        BY <3>1, <3>2, <3>3, <3>4, <3>6, <4>1
      <4>2. CASE k # run[r].key
        BY <3>1, <3>2, <3>4, <3>6, <4>2
      <4> QED BY <4>1, <4>2
    <3> QED BY <3>7 DEF d
  <2>6. WithinAllowance'
    BY <2>5 DEF WithinAllowance
  <2> QED BY <2>4, <2>6 DEF RemindInv
<1> QED BY <1>4, <1>5 DEF SendReminder

LEMMA RemindInvNote ==
  ASSUME RemindInv, NEW r \in Runs, Note(r)
  PROVE  RemindInv'
<1>1. ReminderTyped
  BY DEF RemindInv
<1>2. run[r] # Idle /\ Goes(r, "written") /\ UNCHANGED <<today, noted, sent, faults>>
  BY <1>1, RunShape DEF Note
<1>3. PICK x \in Run : OneRun(r, x) /\ x # Idle /\ x.at = "written" /\ x.key = run[r].key
  BY <1>1, <1>2, Going
<1>4. /\ noted' \subseteq Key /\ noted \subseteq noted'
      /\ faults' \in 0 .. MaxFaults /\ faults' \in {faults, faults + 1}
  BY <1>1, <1>2 DEF ReminderTyped
<1> QED BY <1>2, <1>3, <1>4, RemindInvMoves

LEMMA RemindInvFinish ==
  ASSUME RemindInv, NEW r \in Runs, FinishReminder(r)
  PROVE  RemindInv'
<1>1. ReminderTyped
  BY DEF RemindInv
<1>2. /\ run[r] # Idle /\ run[r].key \in Key /\ noted' = noted \cup {run[r].key}
      /\ UNCHANGED <<today, sent, faults>>
  BY <1>1, RunShape DEF FinishReminder
<1>3. Idle \in Run /\ Idle.at # "sending" /\ OneRun(r, Idle)
  BY <1>1, RunShape DEF FinishReminder, Ends, OneRun
<1>4. /\ noted' \subseteq Key /\ noted \subseteq noted' /\ run[r].key \in noted'
      /\ faults' \in 0 .. MaxFaults /\ faults' \in {faults, faults + 1}
  BY <1>1, <1>2 DEF ReminderTyped
<1> QED BY <1>2, <1>3, <1>4, RemindInvMoves

LEMMA OneFault ==
  ASSUME ReminderTyped, faults < MaxFaults, faults' = faults + 1
  PROVE  faults' \in 0 .. MaxFaults /\ faults' \in {faults, faults + 1}
BY BoundAssumption DEF ReminderTyped

LEMMA RemindInvAbort ==
  ASSUME RemindInv, NEW r \in Runs, AbortReminder(r)
  PROVE  RemindInv'
<1>1. ReminderTyped
  BY DEF RemindInv
<1>2. /\ run[r] # Idle /\ faults < MaxFaults /\ faults' = faults + 1
      /\ UNCHANGED <<today, noted, sent>>
  BY DEF AbortReminder
<1>3. Idle \in Run /\ Idle.at # "sending" /\ OneRun(r, Idle)
  BY <1>1, RunShape DEF AbortReminder, Ends, OneRun
<1>4. /\ noted' \subseteq Key /\ noted \subseteq noted'
      /\ faults' \in 0 .. MaxFaults /\ faults' \in {faults, faults + 1}
  BY <1>1, <1>2, OneFault DEF ReminderTyped
<1> QED BY <1>2, <1>3, <1>4, RemindInvMoves

LEMMA RemindInvRestart ==
  ASSUME RemindInv, Restart
  PROVE  RemindInv'
<1>1. ReminderTyped /\ WithinAllowance
  BY DEF RemindInv
<1>2. /\ faults < MaxFaults /\ faults' = faults + 1 /\ run' = [r \in Runs |-> Idle]
      /\ UNCHANGED <<today, noted, sent>>
  BY DEF Restart
<1>3. ActiveRuns' = {} /\ \A k \in Key : SendingRuns(k)' = {}
  BY <1>2 DEF ActiveRuns, SendingRuns, Idle
<1>4. run' \in [Runs -> Run] /\ faults' \in 0 .. MaxFaults
  BY <1>1, <1>2, OneFault DEF Run
<1>5. ReminderTyped'
  BY <1>1, <1>2, <1>3, <1>4, FS_EmptySet DEF ReminderTyped
<1>6. ASSUME NEW k \in Key PROVE (sent[k] + Cardinality(SendingRuns(k)) <= Allowance(k))'
  <2>1. Cardinality(SendingRuns(k)') = 0
    BY <1>3, FS_EmptySet
  <2>2. /\ sent[k] \in Nat /\ Cardinality(SendingRuns(k)) \in Nat /\ sent'[k] = sent[k]
        /\ sent[k] + Cardinality(SendingRuns(k)) <= Allowance(k)
    BY <1>1, <1>2, SendingFinite DEF ReminderTyped, WithinAllowance
  <2>3. Allowance(k) \in {faults, faults + 1} /\ faults \in Nat
    BY <1>1, AllowanceIs
  <2>4. Allowance(k)' \in {faults', faults' + 1} /\ faults' \in Nat
    BY <1>5, NextAllowanceIs
  <2>5. sent'[k] + 0 <= Allowance(k)'
    BY <1>2, <2>2, <2>3, <2>4
  <2> QED BY <2>1, <2>5
<1>7. WithinAllowance'
  BY <1>6 DEF WithinAllowance
<1> QED BY <1>5, <1>7 DEF RemindInv

-----------------------------------------------------------------------------
(* A message precedes its note.                                            *)

SentFirst ==
  /\ \A k \in noted : sent[k] > 0
  /\ \A r \in Runs : run[r].at \in {"sent", "written"} => sent[run[r].key] > 0

LEMMA SentFirstInit == Init => SentFirst
BY DEF Init, SentFirst, Idle

LEMMA SentFirstSame ==
  ASSUME SentFirst, UNCHANGED <<noted, run, sent>>
  PROVE  SentFirst'
BY DEF SentFirst

\* A run ends, goes on to write, or begins to send.
LEMMA SentFirstMoves ==
  ASSUME ReminderTyped, SentFirst, NEW r \in Runs, NEW x \in Run, OneRun(r, x), sent' = sent,
         x.at \in {"sent", "written"} => run[r].at = "sent" /\ x.key = run[r].key,
         noted' = noted \/ (run[r].at = "written" /\ noted' = noted \cup {run[r].key})
  PROVE  SentFirst'
<1>1. run'[r] = x /\ \A q \in Runs \ {r} : run'[q] = run[q]
  BY OneRunTyped
<1>2. \A k \in noted' : sent'[k] > 0
  BY DEF SentFirst
<1>3. ASSUME NEW q \in Runs, run'[q].at \in {"sent", "written"} PROVE sent'[run'[q].key] > 0
  <2>1. CASE q = r
    BY <1>1, <1>3, <2>1 DEF SentFirst
  <2>2. CASE q # r
    BY <1>1, <1>3, <2>2 DEF SentFirst
  <2> QED BY <2>1, <2>2
<1> QED BY <1>2, <1>3 DEF SentFirst

LEMMA SentFirstSend ==
  ASSUME ReminderTyped, SentFirst, NEW r \in Runs, SendReminder(r)
  PROVE  SentFirst'
<1>1. run[r] # Idle /\ run[r].key \in Key /\ run[r].at = "sending" /\ noted' = noted
  BY RunShape DEF SendReminder
<1>2. CASE Ends(r) /\ UNCHANGED sent
  <2>1. Idle \in Run /\ Idle.at = "idle" /\ OneRun(r, Idle)
    BY <1>2, RunShape DEF Ends, OneRun
  <2> QED BY <1>1, <1>2, <2>1, SentFirstMoves
<1>3. CASE sent' = [sent EXCEPT ![run[r].key] = @ + 1] /\ Goes(r, "sent")
  <2>1. PICK x \in Run : OneRun(r, x) /\ x # Idle /\ x.at = "sent" /\ x.key = run[r].key
    BY <1>1, <1>3, Going
  <2>2. run'[r] = x /\ \A q \in Runs \ {r} : run'[q] = run[q]
    BY <2>1, OneRunTyped
  <2>3. /\ sent'[run[r].key] > 0
        /\ \A k \in Key : sent[k] > 0 => sent'[k] > 0
    BY <1>1, <1>3 DEF ReminderTyped
  <2>4. \A k \in noted' : sent'[k] > 0
    BY <1>1, <2>3 DEF SentFirst, ReminderTyped
  <2>5. ASSUME NEW q \in Runs, run'[q].at \in {"sent", "written"} PROVE sent'[run'[q].key] > 0
    <3>1. CASE q = r
      BY <2>1, <2>2, <2>3, <3>1
    <3>2. CASE q # r
      <4>1. run'[q] = run[q] /\ run[q] # Idle
        BY <2>2, <2>5, <3>2, RunShape
      <4>2. run[q].key \in Key /\ sent[run[q].key] > 0
        BY <2>5, <4>1, RunShape DEF SentFirst
      <4> QED BY <2>3, <4>1, <4>2
    <3> QED BY <3>1, <3>2
  <2> QED BY <2>4, <2>5 DEF SentFirst
<1> QED BY <1>2, <1>3 DEF SendReminder

LEMMA SentFirstRestart ==
  ASSUME SentFirst, Restart
  PROVE  SentFirst'
BY DEF SentFirst, Restart, Idle

LEMMA SentFirstSteps ==
  ASSUME ReminderTyped, RowsTyped(rows), SentFirst, NEW r \in Runs
  PROVE  /\ StartReminder(r) => SentFirst'
         /\ Note(r) => SentFirst'
         /\ FinishReminder(r) => SentFirst'
         /\ AbortReminder(r) => SentFirst'
<1>i. Idle \in Run /\ Idle.at = "idle"
  BY RunShape
<1>1. ASSUME StartReminder(r) PROVE SentFirst'
  <2>1. PICK lead \in Leads :
          OneRun(r, [at |-> "sending", key |-> [until |-> NewestUntil, lead |-> lead]])
    BY <1>1 DEF StartReminder, OneRun
  <2>2. [until |-> NewestUntil, lead |-> lead] \in Key
    BY <1>1, NewestTyped DEF Key, StartReminder
  <2>3. [at |-> "sending", key |-> [until |-> NewestUntil, lead |-> lead]] \in Run
    BY <2>2 DEF Run
  <2>4. noted' = noted /\ sent' = sent
    BY <1>1 DEF StartReminder
  <2> QED BY <2>1, <2>3, <2>4, SentFirstMoves
<1>2. ASSUME Note(r) PROVE SentFirst'
  <2>1. run[r] # Idle /\ run[r].at = "sent" /\ Goes(r, "written") /\ noted' = noted /\ sent' = sent
    BY <1>2, RunShape DEF Note
  <2>2. PICK x \in Run : OneRun(r, x) /\ x # Idle /\ x.at = "written" /\ x.key = run[r].key
    BY <2>1, Going
  <2> QED BY <2>1, <2>2, SentFirstMoves
<1>3. ASSUME FinishReminder(r) PROVE SentFirst'
  <2>1. /\ run[r].at = "written" /\ noted' = noted \cup {run[r].key} /\ sent' = sent
        /\ OneRun(r, Idle)
    BY <1>3 DEF FinishReminder, Ends, OneRun
  <2> QED BY <1>i, <2>1, SentFirstMoves
<1>4. ASSUME AbortReminder(r) PROVE SentFirst'
  <2>1. noted' = noted /\ sent' = sent /\ OneRun(r, Idle)
    BY <1>4 DEF AbortReminder, Ends, OneRun
  <2> QED BY <1>i, <2>1, SentFirstMoves
<1> QED BY <1>1, <1>2, <1>3, <1>4

-----------------------------------------------------------------------------
(* The inductive invariant.                                                *)

CoreInv == StripeInv /\ RowInv /\ RemindInv
SubInv == CoreInv /\ BatchInv /\ SentFirst

LEMMA StripeStep ==
  ASSUME CoreInv, NEW s \in Subs, NEW type \in Types, NEW status \in Statuses \cup {"pending"},
         NEW until \in Term, Emits(s, type, status, until),
         type \in {"paid", "failed"} => Begun(s),
         type = "completed" => status = "pending" /\ until = None
  PROVE  CoreInv'
<1>1. StripeInv /\ RowInv /\ RemindInv
  BY DEF CoreInv
<1>2. StripeInv'
  BY <1>1, StripeInvEmits
<1>3. RowInv'
  BY <1>1, RowInvEmits
<1>4. UNCHANGED <<today, noted, run, sent, faults>> /\ today' \in 0 .. LastDay
  BY <1>1 DEF Emits, reminderVars, RemindInv, ReminderTyped
<1>5. RemindInv'
  BY <1>1, <1>4, RemindInvSame
<1> QED BY <1>2, <1>3, <1>5 DEF CoreInv

LEMMA StripeSame ==
  ASSUME StripeInv, UNCHANGED stripeVars
  PROVE  StripeInv'
<1>1. events' = events /\ stripe' = stripe
  BY DEF stripeVars
<1>2. StripeTyped' /\ EventsFollow'
  BY <1>1 DEF StripeInv, StripeTyped, EventsFollow, Of
<1>3. StripeSays'
  BY <1>1 DEF StripeInv, StripeSays
<1> QED BY <1>2, <1>3 DEF StripeInv

LEMMA RowsSame ==
  ASSUME StripeInv, RowInv, UNCHANGED stripeVars, UNCHANGED rowVars, again' = again
  PROVE  RowInv'
<1>1. events' = events /\ Len(events) \in Nat /\ Len(events) >= Len(events)
  BY DEF stripeVars, StripeInv, StripeTyped
<1> QED BY <1>1, RowInvMoreEvents

LEMMA ReminderStep ==
  ASSUME CoreInv, UNCHANGED stripeVars, UNCHANGED rowVars, again' = again, RemindInv'
  PROVE  CoreInv'
BY StripeSame, RowsSame DEF CoreInv

LEMMA CoreInvNext == CoreInv /\ BatchInv /\ [Next]_vars => CoreInv'
<1> SUFFICES ASSUME CoreInv, BatchInv, [Next]_vars PROVE CoreInv'
  OBVIOUS
<1>1. StripeInv /\ RowInv /\ RemindInv /\ RemindStep /\ ReminderTyped
  BY DEF CoreInv, RemindStep, RowInv, QueueTyped, RemindInv
<1>2. None \in Term /\ Terms \subseteq Term
  BY DEF Term
<1>3. ASSUME NEW s \in Subs, Checkout(s) PROVE CoreInv'
  <2>1. "completed" \in Types /\ "pending" \in Statuses \cup {"pending"}
    BY DEF Types
  <2> QED BY <1>2, <1>3, <2>1, StripeStep DEF Checkout
<1>4. ASSUME NEW s \in Subs, Cancels(s) PROVE CoreInv'
  <2>1. "deleted" \in Types /\ "cancelled" \in Statuses \cup {"pending"}
    BY DEF Types, Statuses
  <2> QED BY <1>2, <1>4, <2>1, StripeStep DEF Cancels
<1>5. ASSUME NEW s \in Subs, NEW until \in Terms, InvoicePaid(s, until) PROVE CoreInv'
  <2>1. "paid" \in Types /\ "active" \in Statuses \cup {"pending"}
    BY DEF Types, Statuses
  <2> QED BY <1>2, <1>5, <2>1, StripeStep DEF InvoicePaid
<1>6. ASSUME NEW s \in Subs, NEW until \in Terms, InvoiceFails(s, until) PROVE CoreInv'
  <2>1. "failed" \in Types /\ "past_due" \in Statuses \cup {"pending"}
    BY DEF Types, Statuses
  <2> QED BY <1>2, <1>6, <2>1, StripeStep DEF InvoiceFails
<1>7. ASSUME NEW s \in Subs, NEW until \in Updates, SubscriptionChanges(s, "incomplete", until)
      PROVE CoreInv'
  <2>1. "changed" \in Types /\ "incomplete" \in Statuses \cup {"pending"}
    BY DEF Types, Statuses
  <2> QED BY <1>2, <1>7, <2>1, StripeStep, UpdatesAssumption DEF SubscriptionChanges
<1>8. ASSUME NEW i \in 1 .. MaxEvents, Webhook(i) PROVE CoreInv'
  <2>1. UNCHANGED stripeVars /\ UNCHANGED <<today, noted, run, sent, faults>> /\ today' \in 0 .. LastDay
    BY <1>1, <1>8 DEF Webhook, reminderVars, ReminderTyped
  <2>2. StripeInv' /\ RowInv' /\ RemindInv'
    BY <1>1, <1>8, <2>1, StripeSame, RowInvWebhook, RemindInvSame
  <2> QED BY <2>2 DEF CoreInv
<1>9. ASSUME NEW r \in Runs, ApplyStripe(r) PROVE CoreInv'
  <2>1. UNCHANGED stripeVars /\ UNCHANGED <<today, noted, run, sent, faults>> /\ today' \in 0 .. LastDay
    <3>1. UNCHANGED <<stripeVars, reminderVars>>
      BY <1>1, <1>9, ApplyCurrent
    <3> QED BY <1>1, <3>1 DEF reminderVars, ReminderTyped
  <2>2. StripeInv' /\ RowInv' /\ RemindInv'
    BY <1>1, <1>9, <2>1, StripeSame, RowInvApply, RemindInvSame
  <2> QED BY <2>2 DEF CoreInv
<1>9a. ASSUME NEW r \in Runs, StartStripe(r) \/ AbortStripe(r) PROVE CoreInv'
  <2>1. /\ UNCHANGED stripeVars /\ UNCHANGED rowVars /\ again' = again
        /\ UNCHANGED <<today, noted, run, sent, faults>> /\ today' \in 0 .. LastDay
    BY <1>1, <1>9a DEF StartStripe, AbortStripe, reminderVars, ReminderTyped
  <2> QED BY <1>1, <2>1, RemindInvSame, ReminderStep
<1>10. ASSUME NEW r \in Runs, StartReminder(r) PROVE CoreInv'
  <2>1. UNCHANGED stripeVars /\ UNCHANGED rowVars /\ again' = again
    BY <1>10 DEF StartReminder, batchVars
  <2> QED BY <1>1, <1>10, <2>1, RemindInvStart, ReminderStep
<1>11. ASSUME NEW r \in Runs, SendReminder(r) PROVE CoreInv'
  <2>1. UNCHANGED stripeVars /\ UNCHANGED rowVars /\ again' = again
    BY <1>11 DEF SendReminder, batchVars
  <2> QED BY <1>1, <1>11, <2>1, RemindInvSend, ReminderStep
<1>12. ASSUME NEW r \in Runs, Note(r) PROVE CoreInv'
  <2>1. UNCHANGED stripeVars /\ UNCHANGED rowVars /\ again' = again
    BY <1>12 DEF Note, batchVars
  <2> QED BY <1>1, <1>12, <2>1, RemindInvNote, ReminderStep
<1>13. ASSUME NEW r \in Runs, FinishReminder(r) PROVE CoreInv'
  <2>1. UNCHANGED stripeVars /\ UNCHANGED rowVars /\ again' = again
    BY <1>13 DEF FinishReminder, batchVars
  <2> QED BY <1>1, <1>13, <2>1, RemindInvFinish, ReminderStep
<1>14. ASSUME NEW r \in Runs, AbortReminder(r) PROVE CoreInv'
  <2>1. UNCHANGED stripeVars /\ UNCHANGED rowVars /\ again' = again
    BY <1>14 DEF AbortReminder, batchVars
  <2> QED BY <1>1, <1>14, <2>1, RemindInvAbort, ReminderStep
<1>15. ASSUME Restart PROVE CoreInv'
  <2>1. UNCHANGED stripeVars /\ UNCHANGED rowVars /\ again' = again
    BY <1>15 DEF Restart, batchVars
  <2> QED BY <1>1, <1>15, <2>1, RemindInvRestart, ReminderStep
<1>16. ASSUME Tick PROVE CoreInv'
  <2>1. UNCHANGED stripeVars /\ UNCHANGED rowVars /\ again' = again /\ UNCHANGED <<noted, run, sent, faults>>
    BY <1>16 DEF Tick, batchVars
  <2>2. today' \in 0 .. LastDay
    BY <1>1, <1>16, DayAssumption DEF Tick, ReminderTyped
  <2> QED BY <1>1, <2>1, <2>2, RemindInvSame, ReminderStep
<1>17. ASSUME UNCHANGED vars PROVE CoreInv'
  <2>1. /\ UNCHANGED stripeVars /\ UNCHANGED rowVars /\ UNCHANGED <<noted, run, sent, faults>>
        /\ today' \in 0 .. LastDay /\ again' = again
    BY <1>1, <1>17 DEF vars, batchVars, reminderVars, ReminderTyped
  <2> QED BY <1>1, <2>1, RemindInvSame, ReminderStep
<1> QED BY <1>3, <1>4, <1>5, <1>6, <1>7, <1>8, <1>9, <1>9a, <1>10, <1>11, <1>12, <1>13, <1>14, <1>15,
           <1>16, <1>17, Zenon DEF Next

LEMMA BatchInvNext == CoreInv /\ BatchInv /\ [Next]_vars => BatchInv'
<1> SUFFICES ASSUME CoreInv, BatchInv, [Next]_vars PROVE BatchInv'
  OBVIOUS
<1>1. /\ StripeInv /\ RowInv /\ QueueTyped /\ BatchTyped /\ Len(queue) <= MaxEvents
      /\ Len(queue) \in Nat /\ events \in Seq(Event) /\ NoBatch \in Listed
      /\ \A p \in 1 .. Len(queue) : queue[p].event \in 1 .. Len(events)
  BY FewJobs DEF CoreInv, BatchInv, RowInv, QueueTyped, Arrived, StripeInv, StripeTyped, NoBatch, Listed
<1>2. ASSUME NEW s \in Subs, NEW type \in Types, NEW status \in Statuses \cup {"pending"},
             NEW until \in Term, Emits(s, type, status, until)
      PROVE  BatchInv'
  <2> DEFINE e == [sub |-> s, type |-> type, status |-> status, until |-> until]
  <2>1. /\ e \in Event /\ events' = Append(events, e) /\ queue' = queue /\ rows' = rows
        /\ batch' = batch /\ again' = again
    BY <1>2 DEF Emits, Event, rowVars, batchVars
  <2> HIDE DEF e
  <2>2. \A i \in 1 .. Len(events) : events'[i] = events[i]
    BY <1>1, <2>1, Appended
  <2> QED BY <1>1, <2>1, <2>2, BatchInvGrows DEF BatchTyped
<1>3. ASSUME NEW s \in Subs,
             \/ Checkout(s) \/ Cancels(s)
             \/ \E until \in Terms : InvoicePaid(s, until) \/ InvoiceFails(s, until)
             \/ \E until \in Updates : SubscriptionChanges(s, "incomplete", until)
      PROVE  BatchInv'
  <2>1. /\ {"completed", "deleted", "paid", "failed", "changed"} \subseteq Types
        /\ {"pending", "cancelled", "active", "past_due", "incomplete"} \subseteq Statuses \cup {"pending"}
        /\ None \in Term /\ Terms \subseteq Term
    BY DEF Types, Statuses, Term
  <2>2. CASE Checkout(s) \/ Cancels(s)
    BY <1>2, <2>1, <2>2 DEF Checkout, Cancels
  <2>3. ASSUME NEW until \in Terms, InvoicePaid(s, until) \/ InvoiceFails(s, until) PROVE BatchInv'
    BY <1>2, <2>1, <2>3 DEF InvoicePaid, InvoiceFails
  <2>4. ASSUME NEW until \in Updates, SubscriptionChanges(s, "incomplete", until) PROVE BatchInv'
    BY <1>2, <2>1, <2>4, UpdatesAssumption DEF SubscriptionChanges
  <2> QED BY <1>3, <2>2, <2>3, <2>4
<1>4. ASSUME NEW i \in 1 .. MaxEvents, Webhook(i) PROVE BatchInv'
  <2> DEFINE j == [event |-> i, status |-> "pending"]
  <2>1. /\ queue' = Append(queue, j) /\ events' = events /\ rows' = rows
        /\ batch' = batch /\ again' = again /\ j \in Job
    BY <1>4 DEF Webhook, stripeVars, batchVars, Job
  <2> HIDE DEF j
  <2>2. /\ Len(queue') = Len(queue) + 1 /\ \A p \in 1 .. Len(queue) : queue'[p] = queue[p]
    BY <1>1, <2>1, Appended DEF QueueTyped
  <2>3. Len(queue') \in Nat /\ Len(queue) <= Len(queue')
    BY <1>1, <2>2
  <2> QED BY <1>1, <2>1, <2>2, <2>3, BatchInvGrows DEF BatchTyped
<1>5. ASSUME NEW r \in Runs, ApplyStripe(r) PROVE BatchInv'
  BY <1>1, <1>5, BatchInvApply
<1>6. ASSUME NEW r \in Runs, StartStripe(r) PROVE BatchInv'
  BY <1>1, <1>6, BatchInvStart
<1>7. ASSUME UNCHANGED <<stripeVars, rowVars, again>>, batch' \in [Runs -> Listed],
             \A r \in Runs : batch'[r] = batch[r] \/ batch'[r] = NoBatch
      PROVE  BatchInv'
  BY <1>1, <1>7, BatchInvSame DEF stripeVars, rowVars
<1>8. ASSUME NEW r \in Runs, AbortStripe(r) PROVE BatchInv'
  <2>1. /\ batch' = [batch EXCEPT ![r] = NoBatch] /\ UNCHANGED <<stripeVars, rowVars, again>>
    BY <1>8 DEF AbortStripe
  <2>2. /\ batch' \in [Runs -> Listed]
        /\ \A q \in Runs : batch'[q] = batch[q] \/ batch'[q] = NoBatch
    BY <1>1, <2>1 DEF BatchTyped
  <2> QED BY <1>7, <2>1, <2>2
<1>9. ASSUME Restart PROVE BatchInv'
  <2>1. /\ batch' = [r \in Runs |-> NoBatch] /\ UNCHANGED <<stripeVars, rowVars, again>>
    BY <1>9 DEF Restart
  <2> QED BY <1>1, <1>7, <2>1
<1>10. ASSUME UNCHANGED <<stripeVars, rowVars, batchVars>> PROVE BatchInv'
  BY <1>1, <1>7, <1>10 DEF batchVars, BatchTyped
<1>11. ASSUME NEW r \in Runs,
              \/ StartReminder(r) \/ SendReminder(r) \/ Note(r)
              \/ FinishReminder(r) \/ AbortReminder(r)
       PROVE  BatchInv'
  BY <1>10, <1>11 DEF StartReminder, SendReminder, Note, FinishReminder, AbortReminder
<1>12. ASSUME Tick \/ UNCHANGED vars PROVE BatchInv'
  BY <1>10, <1>12 DEF Tick, vars
<1> QED BY <1>3, <1>4, <1>5, <1>6, <1>8, <1>9, <1>11, <1>12, Zenon DEF Next

LEMMA SentFirstNext == CoreInv /\ SentFirst /\ [Next]_vars => SentFirst'
<1> SUFFICES ASSUME CoreInv, SentFirst, [Next]_vars PROVE SentFirst'
  OBVIOUS
<1>1. ReminderTyped /\ RowsTyped(rows)
  BY DEF CoreInv, RemindInv, RowInv, QueueTyped
<1>2. ASSUME NEW s \in Subs, NEW type, NEW status, NEW until, Emits(s, type, status, until)
      PROVE  SentFirst'
  BY <1>2, SentFirstSame DEF Emits, reminderVars
<1>3. ASSUME NEW s \in Subs,
             \/ Checkout(s) \/ Cancels(s)
             \/ \E until \in Terms : InvoicePaid(s, until) \/ InvoiceFails(s, until)
             \/ \E until \in Updates : SubscriptionChanges(s, "incomplete", until)
      PROVE  SentFirst'
  BY <1>2, <1>3, Zenon DEF Checkout, Cancels, InvoicePaid, InvoiceFails, SubscriptionChanges
<1>4. ASSUME UNCHANGED reminderVars PROVE SentFirst'
  BY <1>4, SentFirstSame DEF reminderVars
<1>5. ASSUME NEW i \in 1 .. MaxEvents, Webhook(i) PROVE SentFirst'
  BY <1>4, <1>5 DEF Webhook
<1>6. ASSUME NEW r \in Runs, StartStripe(r) \/ ApplyStripe(r) \/ AbortStripe(r) PROVE SentFirst'
  <2>1. UNCHANGED reminderVars
    BY <1>6, Zenon DEF StartStripe, ApplyStripe, AbortStripe
  <2> QED BY <1>4, <2>1
<1>7. ASSUME NEW r \in Runs,
             \/ StartReminder(r) \/ SendReminder(r) \/ Note(r)
             \/ FinishReminder(r) \/ AbortReminder(r)
      PROVE  SentFirst'
  BY <1>1, <1>7, SentFirstSteps, SentFirstSend
<1>8. ASSUME Restart PROVE SentFirst'
  BY <1>8, SentFirstRestart
<1>9. ASSUME Tick \/ UNCHANGED vars PROVE SentFirst'
  BY <1>9, SentFirstSame DEF Tick, vars, reminderVars
<1> QED BY <1>3, <1>5, <1>6, <1>7, <1>8, <1>9, Zenon DEF Next

\* SubInv is inductive.  It says of Stripe's events, the rows and the reminders
\* what the theorems below draw from it, and of the runs of the hourly job that
\* wait for the lock: as long as none has applied what another had ended, a list
\* whose jobs are all pending is still what the run would read now
\* (stripe_events.py:30-122, reminders.py:28-72).
THEOREM SubscriptionsInvariant == Spec => []SubInv
<1>1. Init => SubInv
  BY StripeInvInit, RowInvInit, RemindInvInit, BatchInvInit, SentFirstInit DEF SubInv, CoreInv
<1>2. SubInv /\ [Next]_vars => SubInv'
  BY CoreInvNext, BatchInvNext, SentFirstNext DEF SubInv
<1> QED BY <1>1, <1>2, PTL DEF Spec

\* Every event, job, row and run of the reminder job has its type; there are no
\* more jobs than events (main.py:301-308), and a new row's id is free.
THEOREM SubscriptionsTyped == Spec => []TypeOK
<1>1. SubInv => TypeOK
  <2> SUFFICES ASSUME SubInv PROVE TypeOK
    OBVIOUS
  <2>1. StripeInv /\ RowInv /\ RemindInv
    BY DEF SubInv, CoreInv
  <2>2. /\ stripe \in [Subs -> [status : Statuses \cup {"pending"}, period : Term]]
        /\ Len(events) <= MaxEvents /\ \A i \in 1 .. Len(events) : events[i] \in Event
    BY <2>1 DEF StripeInv, StripeTyped
  <2>3. Len(queue) <= MaxEvents
    BY <2>1, FewJobs
  <2>4. /\ \A p \in 1 .. Len(queue) : queue[p] \in Job
        /\ rows \in [Subs -> Row \cup {None}] /\ invited \subseteq 1 .. MaxEvents
    BY <2>1 DEF RowInv, QueueTyped, RowsTyped
  <2>6. batch \in [Runs -> Listed] /\ again \in BOOLEAN
    BY DEF SubInv, BatchInv, BatchTyped
  <2>5. /\ today \in 0 .. LastDay /\ noted \subseteq Key /\ run \in [Runs -> Run]
        /\ sent \in [Key -> Nat] /\ faults \in 0 .. MaxFaults
    BY <2>1 DEF RemindInv, ReminderTyped
  <2> QED BY <2>2, <2>3, <2>4, <2>5, <2>6 DEF TypeOK
<1> QED BY <1>1, SubscriptionsInvariant, PTL

\* When all of Stripe's events were first delivered in their order, however often
\* they were repeated, and are worked off, each row has Stripe's status and the
\* end of the last period Stripe named, and every paid invoice has its invite,
\* whatever the size of a batch and however many runs overlapped, unless one
\* applied what another had ended (stripe_events.py:30-122).
THEOREM RowsSayWhatStripeSays == Spec => []RowsFollowStripe
<1>1. SubInv => RowsFollowStripe
  BY InvRowsFollow DEF SubInv, CoreInv
<1> QED BY <1>1, SubscriptionsInvariant, PTL

\* What is noted was sent, and a reminder is repeated at most once for each run
\* that overlapped, was aborted or cut off (reminders.py:61-69).
THEOREM RemindersBounded == Spec => []RepeatsAreFaults
<1>1. SubInv => RepeatsAreFaults
  <2> SUFFICES ASSUME SubInv, NEW k \in Key
               PROVE  sent[k] <= 1 + faults /\ (k \in noted => sent[k] > 0)
    BY DEF RepeatsAreFaults
  <2>1. ReminderTyped /\ WithinAllowance
    BY DEF SubInv, CoreInv, RemindInv
  <2>2. sent[k] \in Nat /\ Cardinality(SendingRuns(k)) \in Nat
    BY <2>1, SendingFinite DEF ReminderTyped
  <2>3. sent[k] + Cardinality(SendingRuns(k)) <= Allowance(k)
    BY <2>1 DEF WithinAllowance
  <2>4. Allowance(k) \in {faults, faults + 1} /\ faults \in Nat
    BY <2>1, AllowanceIs
  <2>5. sent[k] <= 1 + faults
    BY <2>2, <2>3, <2>4
  <2>6. k \in noted => sent[k] > 0
    BY DEF SubInv, SentFirst
  <2> QED BY <2>5, <2>6
<1> QED BY <1>1, SubscriptionsInvariant, PTL

-----------------------------------------------------------------------------
(* The queue implements Outbox.                                            *)

LEMMA JobStatusIs ==
  ASSUME Arrived, NEW p \in 1 .. Len(queue)
  PROVE  ~NewEvent(queue[p].event) /\ JobStatus(queue[p].event) = queue[p].status
<1> DEFINE i == queue[p].event
           c == CHOOSE q \in 1 .. Len(queue) : queue[q].event = i
<1>1. c \in 1 .. Len(queue) /\ queue[c].event = i
  OBVIOUS
<1>2. c = p
  BY <1>1 DEF Arrived
<1>3. ~NewEvent(i)
  BY DEF NewEvent
<1>4. JobStatus(i) = queue[c].status
  BY <1>3, Zenon DEF JobStatus
<1> QED BY <1>2, <1>3, <1>4

LEMMA NextJobStatusIs ==
  ASSUME Arrived', NEW p \in 1 .. Len(queue'), NEW i, queue'[p].event = i
  PROVE  ~NewEvent(i)' /\ JobStatus(i)' = queue'[p].status
<1> DEFINE c == CHOOSE q \in 1 .. Len(queue') : queue'[q].event = i
<1>1. c \in 1 .. Len(queue') /\ queue'[c].event = i
  OBVIOUS
<1>2. c = p
  BY <1>1 DEF Arrived
<1>3. ~NewEvent(i)'
  BY DEF NewEvent
<1>4. JobStatus(i)' = queue'[c].status
  BY <1>3, Zenon DEF JobStatus
<1> QED BY <1>2, <1>3, <1>4

LEMMA AbsentJob ==
  /\ \A i : NewEvent(i) => JobStatus(i) = "absent"
  /\ \A i : NewEvent(i)' => JobStatus(i)' = "absent"
<1>1. \A i : NewEvent(i) => JobStatus(i) = "absent"
  BY Zenon DEF JobStatus
<1>2. \A i : NewEvent(i)' => JobStatus(i)' = "absent"
  BY Zenon DEF JobStatus
<1> QED BY <1>1, <1>2

LEMMA SameJobsShown ==
  ASSUME queue' = queue
  PROVE  Status' = Status
<1>1. \A i \in 1 .. MaxEvents : JobStatus(i)' = JobStatus(i)
  BY DEF JobStatus, NewEvent
<1> QED BY <1>1 DEF Status

LEMMA WebhookQueues ==
  ASSUME RowInv, RowInv', NEW i \in 1 .. MaxEvents, Webhook(i)
  PROVE  Promise!Queue
<1> DEFINE j == [event |-> i, status |-> "pending"]
           n == Len(queue)
<1>1. /\ queue' = Append(queue, j) /\ NewEvent(i) /\ queue \in Seq(Job) /\ Arrived /\ Arrived'
  BY DEF Webhook, RowInv, QueueTyped
<1>2. j \in Job /\ j.event = i /\ j.status = "pending"
  BY DEF Job
<1> HIDE DEF j
<1>3. /\ Len(queue') = n + 1 /\ n \in Nat /\ queue'[n + 1] = j
      /\ \A p \in 1 .. n : queue'[p] = queue[p]
      /\ \A p \in 1 .. n + 1 : p \in 1 .. n \/ p = n + 1
  BY <1>1, <1>2, Appended
<1>4. JobStatus(i) = "absent"
  BY <1>1, AbsentJob
<1>5. JobStatus(i)' = "pending"
  <2>1. n + 1 \in 1 .. Len(queue')
    BY <1>3
  <2> QED BY <1>1, <1>2, <1>3, <2>1, NextJobStatusIs
<1>6. ASSUME NEW k \in 1 .. MaxEvents, k # i PROVE JobStatus(k)' = JobStatus(k)
  <2>1. CASE NewEvent(k)
    <3>1. \A p \in 1 .. n + 1 : queue'[p].event # k
      BY <1>2, <1>3, <1>6, <2>1 DEF NewEvent
    <3>2. NewEvent(k)'
      BY <1>3, <3>1 DEF NewEvent
    <3> QED BY <2>1, <3>2, AbsentJob
  <2>2. CASE ~NewEvent(k)
    <3>1. PICK p \in 1 .. n : queue[p].event = k
      BY <2>2 DEF NewEvent
    <3>2. p \in 1 .. Len(queue') /\ queue'[p] = queue[p]
      BY <1>3
    <3>3. JobStatus(k)' = queue'[p].status
      BY <1>1, <3>1, <3>2, NextJobStatusIs
    <3>4. JobStatus(k) = queue[p].status
      BY <1>1, <3>1, JobStatusIs
    <3> QED BY <3>2, <3>3, <3>4
  <2> QED BY <2>1, <2>2
<1>7. Status[i] = "absent" /\ Status' = [Status EXCEPT ![i] = "pending"]
  BY <1>4, <1>5, <1>6 DEF Status
<1> QED BY <1>7 DEF Promise!Queue, Status

LEMMA ApplyEnds ==
  ASSUME StripeInv, RowInv, RowInv', BatchInv, NEW r \in Runs, ApplyStripe(r), ~again'
  PROVE  Promise!End
<1>1. QueueTyped /\ Arrived /\ StripeTyped /\ Arrived' /\ QueueTyped' /\ Len(queue) \in Nat
  BY DEF RowInv, StripeInv, QueueTyped
<1> DEFINE todo == batch[r].todo
<1>2. todo \subseteq Pending
  BY ApplyCurrent
<1>3. PICK known : Writes(todo, known)
  BY ApplyCurrent, Zenon
<1> HIDE DEF todo
<1>4. /\ SameJobs(queue')
      /\ \A q \in 1 .. Len(queue) : q \notin todo => queue'[q] = queue[q]
  BY <1>3, WritesDo
<1>5. Len(queue') = Len(queue) /\ \A p \in 1 .. Len(queue) : queue'[p].event = queue[p].event
  BY <1>4 DEF SameJobs
<1>6. \A p \in 1 .. Len(queue) : p \notin Pending => queue'[p] = queue[p]
  BY <1>2, <1>4
<1>7. ASSUME NEW k \in 1 .. MaxEvents
      PROVE  IF JobStatus(k) = "pending" THEN JobStatus(k)' \in {"pending", "done", "failed"}
             ELSE JobStatus(k)' = JobStatus(k)
  <2>1. CASE NewEvent(k)
    <3>1. NewEvent(k)'
      BY <1>5, <2>1 DEF NewEvent
    <3> QED BY <2>1, <3>1, AbsentJob
  <2>2. CASE ~NewEvent(k)
    <3>1. PICK p \in 1 .. Len(queue) : queue[p].event = k
      BY <2>2 DEF NewEvent
    <3>2. JobStatus(k) = queue[p].status
      BY <1>1, <3>1, JobStatusIs
    <3>3. JobStatus(k)' = queue'[p].status
      BY <1>1, <1>5, <3>1, NextJobStatusIs
    <3>4. queue'[p].status \in {"pending", "done", "failed"}
      <4>1. queue' \in Seq(Job) /\ p \in 1 .. Len(queue')
        BY <1>1, <1>5 DEF QueueTyped
      <4>2. queue'[p] \in Job
        BY <4>1
      <4> QED BY <4>2 DEF Job
    <3>5. queue[p].status # "pending" => queue'[p] = queue[p]
      BY <1>6 DEF Pending
    <3> QED BY <3>2, <3>3, <3>4, <3>5
  <2> QED BY <2>1, <2>2
<1> DEFINE ended == [k \in 1 .. MaxEvents |-> IF JobStatus(k) = "pending" THEN JobStatus(k)' ELSE "pending"]
<1>8. ended \in [1 .. MaxEvents -> {"pending", "done", "failed"}]
  BY <1>7
<1>9. Status' = [k \in 1 .. MaxEvents |-> IF Status[k] = "pending" THEN ended[k] ELSE Status[k]]
  BY <1>7 DEF Status
<1> HIDE DEF ended
<1> QED BY <1>8, <1>9 DEF Promise!End, Status

\* Each of Stripe's events is queued once and ends once, in batches of any size,
\* by runs that may overlap, up to a run that applies what another had ended: such
\* a run may turn failed into done and done into failed
\* (stripe_events.py:103-122, main.py:301-308).
THEOREM EventsAppliedOnce == Spec => AppliedOnce
<1>1. Init => Promise!Init
  <2> SUFFICES ASSUME Init PROVE Promise!Init
    OBVIOUS
  <2>1. queue = <<>>
    BY DEF Init
  <2>2. \A i : NewEvent(i)
    BY <2>1 DEF NewEvent
  <2>3. \A i : JobStatus(i) = "absent"
    BY <2>2, AbsentJob
  <2> QED BY <2>3 DEF Promise!Init, Status
<1>2. SubInv /\ SubInv' /\ [Next]_vars => [again' \/ Promise!Next]_Status
  <2> SUFFICES ASSUME SubInv, SubInv', [Next]_vars, ~again'
               PROVE  Promise!Next \/ Status' = Status
    OBVIOUS
  <2>1. StripeInv /\ RowInv /\ RowInv' /\ BatchInv
    BY DEF SubInv, CoreInv
  <2>2. ASSUME NEW i \in 1 .. MaxEvents, Webhook(i) PROVE Promise!Next
    BY <2>1, <2>2, WebhookQueues DEF Promise!Next
  <2>3. ASSUME NEW r \in Runs, ApplyStripe(r) PROVE Promise!Next
    BY <2>1, <2>3, ApplyEnds DEF Promise!Next
  <2>4. ASSUME NEW s \in Subs, NEW type, NEW status, NEW until, Emits(s, type, status, until)
        PROVE  queue' = queue
    BY <2>4 DEF Emits, rowVars
  <2>5. ASSUME NEW s \in Subs,
               \/ Checkout(s) \/ Cancels(s)
               \/ \E until \in Terms : InvoicePaid(s, until) \/ InvoiceFails(s, until)
               \/ \E until \in Updates : SubscriptionChanges(s, "incomplete", until)
        PROVE  queue' = queue
    BY <2>4, <2>5, Zenon DEF Checkout, Cancels, InvoicePaid, InvoiceFails, SubscriptionChanges
  <2>6. ASSUME NEW r \in Runs,
               \/ StartStripe(r) \/ AbortStripe(r)
               \/ StartReminder(r) \/ SendReminder(r) \/ Note(r)
               \/ FinishReminder(r) \/ AbortReminder(r)
        PROVE  queue' = queue
    BY <2>6 DEF StartStripe, AbortStripe, StartReminder, SendReminder, Note, FinishReminder,
                AbortReminder, rowVars
  <2>7. ASSUME Restart \/ Tick \/ UNCHANGED vars PROVE queue' = queue
    BY <2>7 DEF Restart, Tick, vars, rowVars
  <2> QED BY <2>2, <2>3, <2>5, <2>6, <2>7, SameJobsShown, Zenon DEF Next
<1> QED BY <1>1, <1>2, SubscriptionsInvariant, PTL DEF Spec, AppliedOnce
=============================================================================
