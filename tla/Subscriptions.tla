---------------------------- MODULE Subscriptions ----------------------------
(***************************************************************************)
(* PAYMENT_SOURCE=stripe.  Stripe's events about the subscriptions of one   *)
(* member reach the webhook in any order and any number of times, are       *)
(* queued, and applied by an hourly job to the rows access is read from.    *)
(* A run of that job reads its list without a lock and waits for the lock   *)
(* afterwards: runs that overlap apply the same events.                     *)
(* A daily job reminds the member before the term of the newest row ends.   *)
(***************************************************************************)
EXTENDS Naturals, FiniteSets, Sequences

CONSTANTS
  Subs,       \* Stripe subscriptions of the member
  Terms,      \* days a paid term may end on
  Updates,    \* those that an event about a subscription names; None: it names none
  Leads,      \* days before that end on which a reminder is due ({7, 3, 1})
  Window,     \* events one run of the hourly job takes (20)
  Runs,       \* runs of either job that may overlap
  None,
  LastDay,    \* bound on the clock
  MaxEvents,  \* bound on Stripe's events
  MaxFaults   \* bound on overlapping and aborted runs of the daily job and restarts

ASSUME SubsAssumption == IsFiniteSet(Subs)
ASSUME DayAssumption == Terms \subseteq Nat /\ Leads \subseteq Nat /\ LastDay \in Nat
ASSUME BoundAssumption == Window \in Nat \ {0} /\ MaxEvents \in Nat /\ MaxFaults \in Nat

VARIABLES
  stripe,   \* Stripe: status of each subscription, and the end of its last period
  events,   \* Stripe: its events, in the order they happened
  queue,    \* outbox_jobs of kind stripe.event, one for each row of inbox_events
  rows,     \* subscriptions of provider stripe
  invited,  \* events an invite has been queued for
  batch,    \* runs of the hourly job: the jobs listed, and if the first was known
  again,    \* ghost: a run has applied an event that another had ended
  today,
  noted,    \* notifications, as [until, lead]
  run,      \* runs of the reminder job under way
  sent,     \* reminders the member got, by [until, lead]
  faults

stripeVars == <<stripe, events>>
rowVars == <<queue, rows, invited>>
batchVars == <<batch, again>>
reminderVars == <<today, noted, run, sent, faults>>
vars == <<stripeVars, rowVars, batchVars, reminderVars>>

---------------------------------------------------------------------------
Statuses == {"incomplete", "active", "past_due", "cancelled"}
Types == {"completed", "changed", "paid", "failed", "deleted"}
Term == Terms \cup {None}
Event == [sub : Subs, type : Types, status : Statuses \cup {"pending"}, until : Term]
Row == [id : 1..Cardinality(Subs), status : Statuses \cup {"pending"}, until : Term]
ASSUME NoneAssumption == None \notin Row
ASSUME UpdatesAssumption == Updates \subseteq Term
Job == [event : 1..MaxEvents, status : {"pending", "done", "failed"}]
Listed == [todo : SUBSET (1..MaxEvents), known : BOOLEAN]
NoBatch == [todo |-> {}, known |-> FALSE]
Key == [until : Terms, lead : Leads]
Idle == [at |-> "idle"]
Run == {Idle} \cup [at : {"sending", "sent", "written"}, key : Key]

---------------------------------------------------------------------------
(* Stripe.                                                                  *)

Emits(s, type, status, until) ==
  /\ Len(events) < MaxEvents
  /\ events' = Append(events, [sub |-> s, type |-> type, status |-> status, until |-> until])
  /\ stripe' = IF type = "completed" THEN stripe
               ELSE [stripe EXCEPT ![s] = [status |-> status,
                                           period |-> IF until = None THEN @.period ELSE until]]
  /\ UNCHANGED <<rowVars, batchVars, reminderVars>>

Begun(s) == \E i \in 1..Len(events) : events[i].sub = s

\* The objects of a checkout and of a subscription carry internal_user_id, an
\* invoice does not.  The first event is never about an invoice.
Checkout(s) == Emits(s, "completed", "pending", None)
SubscriptionChanges(s, status, until) == Emits(s, "changed", status, until)
InvoicePaid(s, until) == Begun(s) /\ Emits(s, "paid", "active", until)
\* A failed invoice carries the end of the period that was not paid.
InvoiceFails(s, until) == Begun(s) /\ Emits(s, "failed", "past_due", until)
Cancels(s) == Begun(s) /\ Emits(s, "deleted", "cancelled", None)

---------------------------------------------------------------------------
(* The webhook and the hourly job.                                          *)

\* A first delivery is stored and queued in one transaction, any other is
\* answered "duplicate".  What is never delivered, or answered late, Stripe
\* sends again.
\* Mutant of NewEvent: a repeated delivery is queued again.
AnyDelivery(i) == i \in 1..Len(events)
NewEvent(i) == \A p \in 1..Len(queue) : queue[p].event # i

Webhook(i) ==
  /\ i <= Len(events) /\ NewEvent(i)
  /\ queue' = Append(queue, [event |-> i, status |-> "pending"])
  /\ UNCHANGED <<stripeVars, rows, invited, batchVars, reminderVars>>

\* Mutant of Insert: ids that start at zero.
InsertFromZero(rs, e) ==
  [rs EXCEPT ![e.sub] = [id |-> Cardinality({s \in Subs : rs[s] # None}),
                         status |-> e.status, until |-> e.until]]
Insert(rs, e) ==
  [rs EXCEPT ![e.sub] = [id |-> 1 + Cardinality({s \in Subs : rs[s] # None}),
                         status |-> e.status, until |-> e.until]]

Upsert(rs, e) ==
  IF rs[e.sub] = None THEN Insert(rs, e)
  ELSE [rs EXCEPT ![e.sub].status = e.status,
                  ![e.sub].until = IF e.until = None THEN @ ELSE e.until]

Knows(rs, e) == e.type \in {"completed", "changed", "deleted"} \/ rs[e.sub] # None

\* One job, when its member is known or not: st is what the transaction has
\* written so far.  Nothing asks if the job is still pending.
Apply(st, p, known) ==
  LET e == events[queue[p].event] IN
  IF ~known THEN [st EXCEPT !.queue[p].status = "failed"]
  ELSE [queue |-> [st.queue EXCEPT ![p].status = "done"],
        rows |-> IF e.type # "completed" THEN Upsert(st.rows, e)
                 ELSE IF st.rows[e.sub] = None THEN Insert(st.rows, e) ELSE st.rows,
        invited |-> IF e.type = "paid" THEN st.invited \cup {queue[p].event} ELSE st.invited]

Pending == {p \in 1..Len(queue) : queue[p].status = "pending"}

\* LIMIT 20, in the order of the ids.
Batch == {p \in Pending : Cardinality({q \in Pending : q < p}) < Window}

First(todo) == CHOOSE p \in todo : \A q \in todo : p <= q
FirstKnown(todo) == Knows(rows, events[queue[First(todo)].event])

\* The list is read before anything is written: no lock is held.
StartStripe(r) ==
  /\ batch[r] = NoBatch /\ Batch # {}
  /\ batch' = [batch EXCEPT ![r] = [todo |-> Batch, known |-> FirstKnown(Batch)]]
  /\ UNCHANGED <<stripeVars, rowVars, again, reminderVars>>

\* The first job writes, which takes the lock; it looked for its member before,
\* when the list was read or later.
ApplyStripe(r) ==
  /\ batch[r] # NoBatch
  /\ LET todo == batch[r].todo IN
     /\ \E known \in {batch[r].known, FirstKnown(todo)} :
          LET done[p \in 0..Len(queue)] ==
                IF p = 0 THEN [queue |-> queue, rows |-> rows, invited |-> invited]
                ELSE IF p \notin todo THEN done[p - 1]
                ELSE Apply(done[p - 1], p,
                           IF p = First(todo) THEN known
                           ELSE Knows(done[p - 1].rows, events[queue[p].event]))
              st == done[Len(queue)]
          IN  queue' = st.queue /\ rows' = st.rows /\ invited' = st.invited
     /\ again' = (again \/ ~(todo \subseteq Pending))
  /\ batch' = [batch EXCEPT ![r] = NoBatch]
  /\ UNCHANGED <<stripeVars, reminderVars>>

\* "database is locked": nothing is kept, and the next hour's run lists anew.
AbortStripe(r) ==
  /\ batch[r] # NoBatch /\ batch' = [batch EXCEPT ![r] = NoBatch]
  /\ UNCHANGED <<stripeVars, rowVars, again, reminderVars>>

---------------------------------------------------------------------------
(* The daily job.                                                           *)

\* Access and reminders ask the newest row alone.
NewestUntil ==
  IF \A s \in Subs : rows[s] = None THEN None
  ELSE rows[CHOOSE s \in Subs : rows[s] # None
                 /\ \A t \in Subs : rows[t] # None => rows[t].id <= rows[s].id].until

\* Mutant of Unnoted: the notifications are not asked.
AnyKey(key) == key \in Key
Unnoted(key) == key \notin noted

\* The list is read, the date compared and notifications asked up to the
\* first message.  Another run may be under way that the scheduler gave up.
StartReminder(r) ==
  LET overlaps == \E q \in Runs : run[q] # Idle IN
  /\ run[r] = Idle /\ NewestUntil # None
  /\ overlaps => faults < MaxFaults
  /\ faults' = IF overlaps THEN faults + 1 ELSE faults
  /\ \E lead \in Leads :
       /\ NewestUntil = today + lead
       /\ Unnoted([until |-> NewestUntil, lead |-> lead])
       /\ run' = [run EXCEPT ![r] =
            [at |-> "sending", key |-> [until |-> NewestUntil, lead |-> lead]]]
  /\ UNCHANGED <<stripeVars, rowVars, batchVars, today, noted, sent>>

Goes(r, at) == run' = [run EXCEPT ![r].at = at]
Ends(r) == run' = [run EXCEPT ![r] = Idle]

\* A refused message is counted as failed, and tried by the next run.
SendReminder(r) ==
  /\ run[r].at = "sending"
  /\ \/ sent' = [sent EXCEPT ![run[r].key] = @ + 1] /\ Goes(r, "sent")
     \/ Ends(r) /\ UNCHANGED sent
  /\ UNCHANGED <<stripeVars, rowVars, batchVars, today, noted, faults>>

\* The message is noted under the write lock, which the run keeps while it
\* goes through the other members.
Note(r) ==
  /\ run[r].at = "sent" /\ \A q \in Runs : run[q].at # "written"
  /\ Goes(r, "written")
  /\ UNCHANGED <<stripeVars, rowVars, batchVars, today, noted, sent, faults>>

FinishReminder(r) ==
  /\ run[r].at = "written"
  /\ noted' = noted \cup {run[r].key}
  /\ Ends(r)
  /\ UNCHANGED <<stripeVars, rowVars, batchVars, today, sent, faults>>

\* A transport error, or "database is locked": nothing is kept.
AbortReminder(r) ==
  /\ run[r] # Idle /\ faults < MaxFaults
  /\ faults' = faults + 1 /\ Ends(r)
  /\ UNCHANGED <<stripeVars, rowVars, batchVars, today, noted, sent>>

Restart ==
  /\ faults < MaxFaults /\ faults' = faults + 1
  /\ run' = [r \in Runs |-> Idle] /\ batch' = [r \in Runs |-> NoBatch]
  /\ UNCHANGED <<stripeVars, rowVars, again, today, noted, sent>>

Tick ==
  /\ today < LastDay /\ today' = today + 1
  /\ UNCHANGED <<stripeVars, rowVars, batchVars, noted, run, sent, faults>>

---------------------------------------------------------------------------
Init ==
  /\ stripe = [s \in Subs |-> [status |-> "pending", period |-> None]]
  /\ events = <<>> /\ queue = <<>> /\ invited = {}
  /\ rows = [s \in Subs |-> None]
  /\ batch = [r \in Runs |-> NoBatch] /\ again = FALSE
  /\ today = 0 /\ noted = {} /\ run = [r \in Runs |-> Idle]
  /\ sent = [k \in Key |-> 0] /\ faults = 0

Next ==
  \/ \E s \in Subs :
       \/ Checkout(s) \/ Cancels(s)
       \/ \E until \in Terms : InvoicePaid(s, until) \/ InvoiceFails(s, until)
       \/ \E until \in Updates : SubscriptionChanges(s, "incomplete", until)
  \/ \E i \in 1..MaxEvents : Webhook(i)
  \/ \E r \in Runs :
       \/ StartStripe(r) \/ ApplyStripe(r) \/ AbortStripe(r)
       \/ StartReminder(r) \/ SendReminder(r) \/ Note(r)
       \/ FinishReminder(r) \/ AbortReminder(r)
  \/ Restart \/ Tick

Spec == Init /\ [][Next]_vars

---------------------------------------------------------------------------
TypeOK ==
  /\ stripe \in [Subs -> [status : Statuses \cup {"pending"}, period : Term]]
  /\ Len(events) <= MaxEvents /\ \A i \in 1..Len(events) : events[i] \in Event
  /\ Len(queue) <= MaxEvents /\ \A p \in 1..Len(queue) : queue[p] \in Job
  /\ rows \in [Subs -> Row \cup {None}] /\ invited \subseteq 1..MaxEvents
  /\ batch \in [Runs -> Listed] /\ again \in BOOLEAN
  /\ today \in 0..LastDay /\ noted \subseteq Key /\ run \in [Runs -> Run]
  /\ sent \in [Key -> Nat] /\ faults \in 0..MaxFaults

\* When all of Stripe's events were first delivered in their order, however often
\* they were repeated, are worked off, and no overlapping run has applied any of
\* them again, then each row has the status Stripe has and the end of the last
\* period Stripe named, and every paid invoice its one invite
\* (stripe_events.py:30-122).  That date is not "paid until": a failed invoice
\* names a period too.
Delivered(i) == \E p \in 1..Len(queue) : queue[p].event = i
InOrder == \A p \in 1..Len(queue) : \A i \in 1..(queue[p].event - 1) :
             \E q \in 1..(p - 1) : queue[q].event = i
WorkedOff == Pending = {} /\ \A i \in 1..Len(events) : Delivered(i)
RowsFollowStripe ==
  WorkedOff /\ InOrder /\ ~again =>
    /\ \A s \in Subs : Begun(s) =>
         /\ rows[s] # None
         /\ rows[s].status = stripe[s].status /\ rows[s].until = stripe[s].period
    /\ invited = {i \in 1..Len(events) : events[i].type = "paid"}

\* Each of Stripe's events is queued once and ends once, as done or failed,
\* however often it is delivered, until a run applies what another has ended
\* (stripe_events.py:103-122, main.py:301-308).
JobStatus(i) ==
  IF NewEvent(i) THEN "absent"
  ELSE queue[CHOOSE p \in 1..Len(queue) : queue[p].event = i].status
Status == [i \in 1..MaxEvents |-> JobStatus(i)]
Promise == INSTANCE Outbox WITH Jobs <- 1..MaxEvents, status <- Status
AppliedOnce == Promise!Init /\ [][again' \/ Promise!Next]_Status

\* Whatever is noted was sent, and a reminder is sent again only because a run
\* overlapped, was aborted or cut off, once for each (reminders.py:61-69: the note
\* is made after the message).  README.md:68 and PRD.ru.md:280 of the repository
\* promise more: that it is never sent twice.
RepeatsAreFaults ==
  \A k \in Key : sent[k] <= 1 + faults /\ (k \in noted => sent[k] > 0)
=============================================================================
