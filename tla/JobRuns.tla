------------------------------- MODULE JobRuns -------------------------------
(***************************************************************************)
(* The scheduler and the runs of its jobs.  A run reads the oldest pending  *)
(* jobs of its kind, carries them out one by one and commits at its end.    *)
(* The scheduler stops waiting after 30 seconds and calls again while the   *)
(* first run goes on.  The runs share one event loop: a run that waits for  *)
(* the write lock stops them all, and so the holder of the lock as well.    *)
(***************************************************************************)
EXTENDS Naturals, FiniteSets, Sequences

CONSTANTS
  Jobs,       \* ids of outbox jobs, in the order they are queued
  Kinds,      \* kinds of jobs, each with its own endpoint
  KindOf,     \* [Jobs -> Kinds]
  Order,      \* the endpoints in the order of the scheduler's table
  LockFirst,  \* kinds whose jobs are written to before their effect (restores)
  Kept,       \* kinds whose failed jobs stay pending (licences)
  Window,     \* jobs a run takes at most
  Runs,       \* slots for runs under way
  None,
  MaxFaults   \* bound on restarts and aborted runs

ASSUME JobsAssumption == Jobs \subseteq Nat
ASSUME KindAssumption ==
  /\ KindOf \in [Jobs -> Kinds] /\ LockFirst \subseteq Kinds /\ Kept \subseteq Kinds
  /\ LockFirst \cap Kept = {}  \* a restore that fails is not tried again
ASSUME OrderAssumption == Order \in Seq(Kinds) /\ Order # <<>>
ASSUME BoundAssumption == Window \in Nat /\ MaxFaults \in Nat

VARIABLES
  status,   \* committed rows of outbox_jobs
  run,      \* the runs under way
  lock,     \* who holds the write lock
  blocked,  \* the run that waits for it inside the event loop
  wait,     \* scheduler: the run it waits for
  turn,     \* scheduler: place in its table
  due,      \* scheduler: kinds whose period is over
  made,     \* how often a restore has been carried out
  faults

vars == <<status, run, lock, blocked, wait, turn, due, made, faults>>

---------------------------------------------------------------------------
Thread == "thread"  \* a handler that runs beside the event loop
ASSUME NoneAssumption == None \notin Runs \cup {Thread} /\ Thread \notin Runs
Ends == {"pending", "done", "failed"}
\* todo: jobs still to do; wrote: what the run has written and not committed.
Idle == [at |-> "idle"]
RunAt == [at : {"next", "doing"}, kind : Kinds, todo : SUBSET Jobs,
          wrote : [Jobs -> Ends]]
         \cup [at : {"answered"}, kind : Kinds, todo : SUBSET Jobs,
               wrote : [Jobs -> Ends], ok : BOOLEAN]

\* Mutant of WritesFirst: a restore is written to after its calls, like the rest.
NoneFirst(k) == k \in {}
WritesFirst(k) == k \in LockFirst
Strict == {j \in Jobs : KindOf[j] \in LockFirst}

\* Mutant of Pending: every job of the kind is listed.
Queued(k) == {j \in Jobs : KindOf[j] = k /\ status[j] # "absent"}
Pending(k) == {j \in Jobs : KindOf[j] = k /\ status[j] = "pending"}
Oldest(S) == CHOOSE j \in S : \A i \in S : j <= i
\* The first Window of the pending jobs.
Taken(k) == {j \in Pending(k) : Cardinality({i \in Pending(k) : i < j}) < Window}

Loop == blocked = None

---------------------------------------------------------------------------
(* The scheduler.                                                           *)

NextTurn == turn' = (turn % Len(Order)) + 1

Elapse(k) ==
  /\ k \notin due /\ due' = due \cup {k}
  /\ UNCHANGED <<status, run, lock, blocked, wait, turn, made, faults>>

Skip ==
  /\ wait = None /\ Order[turn] \notin due
  /\ NextTurn
  /\ UNCHANGED <<status, run, lock, blocked, wait, due, made, faults>>

\* The request is made, and the handler reads the list.  Up to the first call
\* of a restore there is no await: the row is written in the same step, or the
\* handler waits for the lock, and the event loop with it.
Call(s) ==
  LET k == Order[turn]
      writes == WritesFirst(k) /\ Taken(k) # {}
      waits == writes /\ lock # None
  IN
  /\ Loop /\ wait = None /\ k \in due /\ run[s] = Idle
  /\ run' = [run EXCEPT ![s] =
       [at |-> IF writes /\ ~waits THEN "doing" ELSE "next", kind |-> k, todo |-> Taken(k),
        wrote |-> [j \in Jobs |-> "pending"]]]
  /\ lock' = IF writes /\ ~waits THEN s ELSE lock
  /\ blocked' = IF waits THEN s ELSE None
  /\ wait' = s
  /\ UNCHANGED <<status, turn, due, made, faults>>

\* Nothing tells the handler that its client is gone.
GiveUp ==
  /\ wait # None
  /\ wait' = None /\ NextTurn
  /\ UNCHANGED <<status, run, lock, blocked, due, made, faults>>

---------------------------------------------------------------------------
(* A run.                                                                   *)

Job(s) == Oldest(run[s].todo)

Here == UNCHANGED <<wait, turn, due>>

Unlocked(s) == run[s].at = "next" /\ run[s].todo # {} /\ ~WritesFirst(run[s].kind)

Begun(s) == run' = [run EXCEPT ![s].at = "doing"]

StartJob(s) ==
  /\ Loop /\ Unlocked(s) /\ Begun(s)
  /\ Here /\ UNCHANGED <<status, lock, blocked, made, faults>>

\* Counted for the kinds a second time matters to (another unban and message).
Carried(s, took) ==
  made' = IF took /\ Job(s) \in Strict THEN [made EXCEPT ![Job(s)] = @ + 1] ELSE made

\* The call takes effect or not, and says so or not.
Effect(s, took, ok) ==
  /\ Loop /\ run[s].at = "doing"
  /\ Carried(s, took)
  /\ run' = [run EXCEPT ![s] =
       [at |-> "answered", kind |-> @.kind, todo |-> @.todo, wrote |-> @.wrote, ok |-> ok]]
  /\ Here /\ UNCHANGED <<status, lock, blocked, faults>>

\* Mutant of Outcome: the failed job gets the status of a failed command.
Misnamed(s) ==
  IF run[s].ok THEN "done" ELSE IF run[s].kind \in Kept THEN "pending" ELSE "error"
Outcome(s) ==
  IF run[s].ok THEN "done" ELSE IF run[s].kind \in Kept THEN "pending" ELSE "failed"

\* The end of run s, as its client sees it.
Reply(s, ok) ==
  IF wait = s
  THEN /\ wait' = None /\ NextTurn
       /\ due' = IF ok THEN due \ {run[s].kind} ELSE due
  ELSE UNCHANGED <<wait, turn, due>>

Committed(s, wrote) ==
  [j \in Jobs |-> IF wrote[j] # "pending" THEN wrote[j] ELSE status[j]]

\* Mutant of Leaves: a connection that is never closed.
LeavesLocked(s) == run' = [run EXCEPT ![s] = Idle] /\ UNCHANGED lock
Leaves(s) == run' = [run EXCEPT ![s] = Idle] /\ lock' = IF lock = s THEN None ELSE lock

\* The outcome of a job is written; after the last one the run commits and
\* answers, with no await in between.
Recorded(s) ==
  LET wrote == [run[s].wrote EXCEPT ![Job(s)] = Outcome(s)]
      left == run[s].todo \ {Job(s)}
  IN IF left = {}
     THEN /\ status' = Committed(s, wrote)
          /\ run' = [run EXCEPT ![s] = Idle] /\ lock' = None
          /\ Reply(s, TRUE)
     ELSE /\ lock' = s
          /\ run' = [run EXCEPT ![s] =
               [at |-> "next", kind |-> @.kind, todo |-> left, wrote |-> wrote]]
          /\ Here /\ UNCHANGED status

\* A restore lifts the ban in the row before its first call; every job writes
\* its outcome after its last.
Wants(s) == \/ run[s].at = "answered"
            \/ run[s].at = "next" /\ run[s].todo # {} /\ ~Unlocked(s)
Written(s) ==
  IF run[s].at = "answered" THEN Recorded(s)
  ELSE lock' = s /\ Begun(s) /\ Here /\ UNCHANGED status

Write(s) ==
  /\ Loop /\ Wants(s) /\ lock \in {None, s} /\ Written(s)
  /\ UNCHANGED <<blocked, made, faults>>

\* The lock is taken: the write waits, and with it the event loop.
Block(s) ==
  /\ Loop /\ Wants(s) /\ lock \notin {None, s}
  /\ blocked' = s
  /\ Here /\ UNCHANGED <<status, run, lock, made, faults>>

\* A thread has released the lock in time.
Acquire ==
  /\ ~Loop /\ lock = None
  /\ Written(blocked) /\ blocked' = None
  /\ UNCHANGED <<made, faults>>

\* Nothing of a run that ends with an exception is kept.
Dropped(s) ==
  /\ Leaves(s) /\ Reply(s, FALSE)

\* "database is locked", after 30 seconds, when the holder needs the event loop.
LockTimeout ==
  /\ blocked # None /\ lock \in Runs
  /\ Dropped(blocked)
  /\ blocked' = None
  /\ UNCHANGED <<status, made, faults>>

\* A transport error is no TelegramError: the handler ends.
Abort(s, took) ==
  /\ Loop /\ run[s].at = "doing" /\ faults < MaxFaults
  /\ faults' = faults + 1
  /\ Carried(s, took)
  /\ Dropped(s)
  /\ UNCHANGED <<status, blocked>>

\* Nothing to do.
Finish(s) ==
  /\ Loop /\ run[s].at = "next" /\ run[s].todo = {}
  /\ Leaves(s) /\ Reply(s, TRUE)
  /\ UNCHANGED <<status, blocked, made, faults>>

---------------------------------------------------------------------------
(* The rest of the system.                                                  *)

\* A thread holds the lock for the length of one request, and may queue a job.
ThreadTakes ==
  /\ lock = None /\ lock' = Thread
  /\ UNCHANGED <<status, run, blocked, wait, turn, due, made, faults>>

ThreadLeaves ==
  /\ lock = Thread /\ lock' = None
  /\ \/ UNCHANGED status
     \/ \E j \in Jobs :
          /\ status[j] = "absent" /\ \A i \in Jobs : i < j => status[i] # "absent"
          /\ status' = [status EXCEPT ![j] = "pending"]
  /\ UNCHANGED <<run, blocked, wait, turn, due, made, faults>>

Restart ==
  /\ faults < MaxFaults /\ faults' = faults + 1
  /\ run' = [s \in Runs |-> Idle] /\ lock' = None /\ blocked' = None
  /\ IF wait = None THEN UNCHANGED <<wait, turn, due>> ELSE Reply(wait, FALSE)
  /\ UNCHANGED <<status, made>>

Init ==
  /\ status = [j \in Jobs |-> "absent"] /\ run = [s \in Runs |-> Idle]
  /\ lock = None /\ blocked = None /\ wait = None /\ turn = 1 /\ due = Kinds
  /\ made = [j \in Strict |-> 0] /\ faults = 0

Step(s) == StartJob(s) \/ Write(s) \/ Block(s) \/ Finish(s)
Served(s) == \E took, ok \in BOOLEAN : Effect(s, took, ok)

Next ==
  \/ \E k \in Kinds : Elapse(k)
  \/ Skip \/ GiveUp \/ \E s \in Runs : Call(s)
  \/ \E s \in Runs : Step(s) \/ Served(s) \/ \E took \in BOOLEAN : Abort(s, took)
  \/ Acquire \/ LockTimeout \/ ThreadTakes \/ ThreadLeaves \/ Restart

Spec == Init /\ [][Next]_vars

\* The scheduler goes round and periods end; the event loop serves every run
\* again and again; locks are released or waited for in vain; and, for the kinds
\* that keep their failed jobs, calls succeed again and again.
Fairness ==
  /\ WF_vars(Skip \/ \E s \in Runs : Call(s))
  /\ \A k \in Kinds : WF_vars(Elapse(k))
  /\ \A s \in Runs : SF_vars(Step(s) \/ Served(s))
  /\ \A s \in Runs :
       SF_vars(run[s].at = "doing" /\ run[s].kind \in Kept /\ Effect(s, TRUE, TRUE))
  /\ SF_vars(Acquire \/ LockTimeout) /\ WF_vars(ThreadLeaves)

FairSpec == Spec /\ Fairness

---------------------------------------------------------------------------
TypeOK ==
  /\ status \in [Jobs -> {"absent"} \cup Ends]
  /\ run \in [Runs -> {Idle} \cup RunAt]
  /\ lock \in Runs \cup {None, Thread} /\ blocked \in Runs \cup {None}
  /\ wait \in Runs \cup {None} /\ turn \in 1..Len(Order) /\ due \subseteq Kinds
  /\ made \in [Strict -> Nat] /\ faults \in 0..MaxFaults

\* However runs overlap, a restore is carried out once, and once more for each
\* restart or aborted run: the row is written before the first call
\* (membership.py:380).  Invites and licences are not so lucky.
LockedJobMadeOnce ==
  \A j \in Strict : made[j] <= 1 + faults

\* A restore that ended keeps its end, whatever overlapping runs had read.
Promise == INSTANCE Outbox WITH Jobs <- Strict, status <- [j \in Strict |-> status[j]]
EndsOnce == Promise!Spec

\* Runs given up by the scheduler, a blocked event loop, lock timeouts and a
\* window full of failing jobs never keep a job pending for ever.
EveryJobEnds ==
  \A j \in Jobs : status[j] = "pending" ~> status[j] \in {"done", "failed"}
=============================================================================
