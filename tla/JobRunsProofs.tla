----------------------------- MODULE JobRunsProofs -----------------------------
(***************************************************************************)
(* For any number of jobs, runs and faults: the variables of JobRuns keep   *)
(* their types, a job that is written to before its effect is carried out   *)
(* once and once more for each fault, and such a job ends once: JobRuns     *)
(* implements Outbox for those jobs.                                        *)
(***************************************************************************)
EXTENDS JobRuns, WellFoundedInduction, TLAPS

Busy(s) == run[s] # Idle
StrictRun(s) == Busy(s) /\ run[s].kind \in LockFirst
Wrote(s, j) == Busy(s) /\ run[s].wrote[j] # "pending"

---------------------------------------------------------------------------
(* The invariant.                                                          *)

\* A run does jobs of its kind, and none that it has done.
RunsSane ==
  \A s \in Runs : Busy(s) =>
    /\ \A j \in run[s].todo : KindOf[j] = run[s].kind /\ ~Wrote(s, j)
    /\ \A j \in Jobs : Wrote(s, j) => KindOf[j] = run[s].kind /\ lock = s
    /\ run[s].at \in {"doing", "answered"} => run[s].todo # {}
    /\ run[s].todo = {} => \A j \in Jobs : ~Wrote(s, j)

\* Who holds the lock is under way; who waits for it does not hold it.
LockSane ==
  /\ lock \in Runs => Busy(lock)
  /\ blocked # None => Busy(blocked) /\ Wants(blocked) /\ lock # blocked

\* A run that writes first has jobs only with the lock, or while it waits.
StrictLocked ==
  \A s \in Runs : StrictRun(s) /\ run[s].todo # {} =>
    /\ lock = s \/ blocked = s
    /\ run[s].at \in {"doing", "answered"} => lock = s

\* And the jobs it has are pending until it commits.
StrictPending ==
  \A s \in Runs : StrictRun(s) /\ lock \notin Runs \ {s} =>
    \A j \in Jobs : j \in run[s].todo \/ Wrote(s, j) => status[j] = "pending"

\* The job was carried out by a run that has not committed.
Flying(s, j) == Wrote(s, j) \/ (run[s].at = "answered" /\ j = Job(s))
InFlight(j) == \E s \in Runs : Flying(s, j)

Counted ==
  \A j \in Strict :
    /\ status[j] = "absent" => made[j] = 0
    /\ status[j] = "pending" /\ ~InFlight(j) => made[j] <= faults
    /\ made[j] <= 1 + faults

Sane == RunsSane /\ LockSane /\ StrictLocked /\ StrictPending
RunsInv == TypeOK /\ Sane /\ Counted

---------------------------------------------------------------------------
(* Operators.                                                              *)

LEMMA OldestTaken ==
  ASSUME NEW S, S \subseteq Nat, S # {}
  PROVE  Oldest(S) \in S
<1> DEFINE R == {ss \in Nat \X Nat : ss[1] < ss[2]}
<1>1. R = OpToRel(<, Nat)
  BY DEF OpToRel
<1>2. IsWellFoundedOn(R, Nat)
  BY <1>1, NatLessThanWellFounded
<1>3. PICK x \in S : \A y \in S : ~(<<y, x>> \in R)
  <2> HIDE DEF R
  <2> QED BY <1>2, WFMin
<1>4. ASSUME NEW y \in S PROVE x <= y
  <2>1. x \in Nat /\ y \in Nat
    OBVIOUS
  <2>2. ~(y < x)
    BY <1>3, <2>1
  <2> QED BY <2>1, <2>2
<1> QED BY <1>4 DEF Oldest

LEMMA JobTaken ==
  ASSUME NEW s \in Runs, run[s].todo \subseteq Jobs, run[s].todo # {}
  PROVE  Job(s) \in run[s].todo
BY OldestTaken, JobsAssumption DEF Job

LEMMA TurnTyped ==
  ASSUME NEW t \in 1..Len(Order)
  PROVE  /\ Order[t] \in Kinds
         /\ (t % Len(Order)) + 1 \in 1..Len(Order)
<1>1. Order \in Seq(Kinds) /\ Order # <<>>
  BY OrderAssumption
<1>2. Len(Order) \in Nat /\ Len(Order) > 0
  BY <1>1
<1>3. \A a \in Nat, n \in Nat : n > 0 => (a % n) \in 0..(n - 1)
  OBVIOUS
<1>4. t \in Nat
  OBVIOUS
<1>5. t % Len(Order) \in 0..(Len(Order) - 1)
  BY <1>2, <1>3, <1>4
<1> QED BY <1>1, <1>2, <1>5

LEMMA RunTyped ==
  ASSUME TypeOK, NEW s \in Runs, Busy(s)
  PROVE  /\ run[s].kind \in Kinds /\ run[s].todo \subseteq Jobs
         /\ run[s].wrote \in [Jobs -> Ends]
         /\ run[s].at \in {"next", "doing", "answered"}
         /\ run[s].at = "answered" => run[s].ok \in BOOLEAN
BY DEF TypeOK, Busy, RunAt

LEMMA AtBusy ==
  ASSUME NEW s \in Runs, run[s].at \in {"next", "doing", "answered"}
  PROVE  Busy(s)
BY DEF Busy, Idle

---------------------------------------------------------------------------
(* Types.                                                                  *)

LEMMA ReplyTyped ==
  ASSUME TypeOK, NEW s \in Runs, NEW ok, Reply(s, ok)
  PROVE  wait' \in Runs \cup {None} /\ turn' \in 1..Len(Order) /\ due' \subseteq Kinds
BY TurnTyped DEF Reply, NextTurn, TypeOK

LEMMA WrittenTyped ==
  ASSUME TypeOK, NEW s \in Runs, Busy(s), Wants(s), Written(s)
  PROVE  /\ status' \in [Jobs -> {"absent"} \cup Ends]
         /\ run' \in [Runs -> {Idle} \cup RunAt]
         /\ lock' \in Runs \cup {None, Thread}
         /\ wait' \in Runs \cup {None} /\ turn' \in 1..Len(Order) /\ due' \subseteq Kinds
<1>1. /\ run[s].kind \in Kinds /\ run[s].todo \subseteq Jobs /\ run[s].wrote \in [Jobs -> Ends]
      /\ run[s].at \in {"next", "answered"}
      /\ run[s].at = "answered" => run[s].ok \in BOOLEAN
  BY RunTyped DEF Wants
<1>2. CASE run[s].at = "answered"
  <2> DEFINE wrote == [run[s].wrote EXCEPT ![Job(s)] = Outcome(s)]
             left == run[s].todo \ {Job(s)}
  <2>1. wrote \in [Jobs -> Ends] /\ left \subseteq Jobs
    BY <1>1 DEF Outcome, Ends
  <2>2. CASE left = {}
    <3>1. /\ status' = Committed(s, wrote) /\ run' = [run EXCEPT ![s] = Idle]
          /\ lock' = None /\ Reply(s, TRUE)
      BY <1>2, <2>2 DEF Written, Recorded
    <3>2. status' \in [Jobs -> {"absent"} \cup Ends]
      BY <2>1, <3>1 DEF Committed, TypeOK
    <3>3. run' \in [Runs -> {Idle} \cup RunAt]
      BY <3>1 DEF TypeOK
    <3> QED BY <3>1, <3>2, <3>3, ReplyTyped
  <2>3. CASE left # {}
    <3>1. /\ lock' = s /\ Here /\ UNCHANGED status
          /\ run' = [run EXCEPT ![s] =
               [at |-> "next", kind |-> @.kind, todo |-> left, wrote |-> wrote]]
      BY <1>2, <2>3 DEF Written, Recorded
    <3>2. [at |-> "next", kind |-> run[s].kind, todo |-> left, wrote |-> wrote] \in RunAt
      BY <1>1, <2>1 DEF RunAt
    <3> HIDE DEF wrote, left
    <3>3. run' \in [Runs -> {Idle} \cup RunAt]
      BY <3>1, <3>2 DEF TypeOK
    <3> QED BY <3>1, <3>3 DEF Here, TypeOK
  <2> QED BY <2>2, <2>3
<1>3. CASE run[s].at = "next"
  <2>1. lock' = s /\ Begun(s) /\ Here /\ UNCHANGED status
    BY <1>3 DEF Written
  <2>2. run[s] \in RunAt
    BY DEF TypeOK, Busy
  <2>3. [run[s] EXCEPT !.at = "doing"] \in RunAt
    BY <1>3, <2>2 DEF RunAt
  <2>4. run' \in [Runs -> {Idle} \cup RunAt]
    BY <2>1, <2>3 DEF Begun, TypeOK
  <2> QED BY <2>1, <2>4 DEF Here, TypeOK
<1> QED BY <1>1, <1>2, <1>3

LEMMA DroppedTyped ==
  ASSUME TypeOK, NEW s \in Runs, Dropped(s)
  PROVE  /\ run' \in [Runs -> {Idle} \cup RunAt]
         /\ lock' \in Runs \cup {None, Thread}
         /\ wait' \in Runs \cup {None} /\ turn' \in 1..Len(Order) /\ due' \subseteq Kinds
BY ReplyTyped DEF Dropped, Leaves, TypeOK

LEMMA CarriedTyped ==
  ASSUME TypeOK, NEW s \in Runs, NEW took \in BOOLEAN, Carried(s, took)
  PROVE  made' \in [Strict -> Nat]
BY DEF Carried, TypeOK

LEMMA StepTyped ==
  ASSUME TypeOK, LockSane, [Next]_vars
  PROVE  TypeOK'
<1> USE DEF Here
<1>1. ASSUME NEW k \in Kinds, Elapse(k) PROVE TypeOK'
  BY <1>1 DEF Elapse, TypeOK
<1>2. CASE Skip
  BY <1>2, TurnTyped DEF Skip, NextTurn, TypeOK
<1>3. CASE GiveUp
  BY <1>3, TurnTyped DEF GiveUp, NextTurn, TypeOK
<1>4. ASSUME NEW s \in Runs, Call(s) PROVE TypeOK'
  <2> DEFINE at == IF WritesFirst(Order[turn]) /\ Taken(Order[turn]) # {}
                      /\ ~(WritesFirst(Order[turn]) /\ Taken(Order[turn]) # {} /\ lock # None)
                   THEN "doing" ELSE "next"
             next == [at |-> at, kind |-> Order[turn], todo |-> Taken(Order[turn]),
                      wrote |-> [j \in Jobs |-> "pending"]]
  <2>1. Order[turn] \in Kinds
    BY TurnTyped DEF TypeOK
  <2>2. Taken(Order[turn]) \subseteq Jobs
    BY DEF Taken, Pending
  <2>3. next \in RunAt
    BY <2>1, <2>2 DEF RunAt, Ends
  <2>4. run' = [run EXCEPT ![s] = next]
    BY <1>4 DEF Call
  <2>5. run' \in [Runs -> {Idle} \cup RunAt]
    <3> HIDE DEF next
    <3> QED BY <2>3, <2>4 DEF TypeOK
  <2>6. lock' \in Runs \cup {None, Thread} /\ blocked' \in Runs \cup {None} /\ wait' \in Runs
    BY <1>4 DEF Call, TypeOK
  <2> QED BY <1>4, <2>5, <2>6 DEF Call, TypeOK
<1>5. ASSUME NEW s \in Runs, StartJob(s) PROVE TypeOK'
  <2>1. run[s] \in RunAt /\ run[s].at = "next"
    BY <1>5, AtBusy DEF StartJob, Unlocked, Busy, TypeOK
  <2>2. [run[s] EXCEPT !.at = "doing"] \in RunAt
    BY <2>1 DEF RunAt
  <2> QED BY <1>5, <2>2 DEF StartJob, Begun, TypeOK
<1>6. ASSUME NEW s \in Runs, Write(s) PROVE TypeOK'
  <2>1. Busy(s) /\ Wants(s) /\ Written(s)
    BY <1>6, AtBusy DEF Write, Wants
  <2> QED BY <1>6, <2>1, WrittenTyped DEF Write, TypeOK
<1>7. ASSUME NEW s \in Runs, Block(s) PROVE TypeOK'
  BY <1>7 DEF Block, TypeOK
<1>8. ASSUME NEW s \in Runs, Finish(s) PROVE TypeOK'
  BY <1>8, ReplyTyped DEF Finish, Leaves, TypeOK
<1>9. ASSUME NEW s \in Runs, NEW took \in BOOLEAN, NEW ok \in BOOLEAN, Effect(s, took, ok)
      PROVE  TypeOK'
  <2> DEFINE next == [at |-> "answered", kind |-> run[s].kind, todo |-> run[s].todo,
                      wrote |-> run[s].wrote, ok |-> ok]
  <2>1. Busy(s)
    BY <1>9, AtBusy DEF Effect
  <2>2. next \in RunAt
    BY <2>1, RunTyped DEF RunAt
  <2>3. run' = [run EXCEPT ![s] = next] /\ Carried(s, took)
    BY <1>9 DEF Effect
  <2>4. run' \in [Runs -> {Idle} \cup RunAt]
    <3> HIDE DEF next
    <3> QED BY <2>2, <2>3 DEF TypeOK
  <2> QED BY <1>9, <2>3, <2>4, CarriedTyped DEF Effect, TypeOK
<1>10. ASSUME NEW s \in Runs, NEW took \in BOOLEAN, Abort(s, took) PROVE TypeOK'
  <2>1. faults' \in 0..MaxFaults
    BY <1>10, BoundAssumption DEF Abort, TypeOK
  <2> QED BY <1>10, <2>1, DroppedTyped, CarriedTyped DEF Abort, TypeOK
<1>11. CASE Acquire
  <2>1. blocked \in Runs /\ Busy(blocked) /\ Wants(blocked) /\ Written(blocked)
    BY <1>11 DEF Acquire, Loop, LockSane, TypeOK
  <2> QED BY <1>11, <2>1, WrittenTyped DEF Acquire, TypeOK
<1>12. CASE LockTimeout
  <2>1. blocked \in Runs
    BY <1>12 DEF LockTimeout, TypeOK
  <2> QED BY <1>12, <2>1, DroppedTyped DEF LockTimeout, TypeOK
<1>13. CASE ThreadTakes
  BY <1>13 DEF ThreadTakes, TypeOK
<1>14. CASE ThreadLeaves
  BY <1>14 DEF ThreadLeaves, TypeOK, Ends
<1>15. CASE Restart
  <2>1. faults' \in 0..MaxFaults
    BY <1>15, BoundAssumption DEF Restart, TypeOK
  <2>2. wait' \in Runs \cup {None} /\ turn' \in 1..Len(Order) /\ due' \subseteq Kinds
    BY <1>15, ReplyTyped DEF Restart, TypeOK
  <2> QED BY <1>15, <2>1, <2>2 DEF Restart, TypeOK
<1>16. CASE UNCHANGED vars
  BY <1>16 DEF vars, TypeOK
<1> QED BY <1>1, <1>2, <1>3, <1>4, <1>5, <1>6, <1>7, <1>8, <1>9, <1>10, <1>11, <1>12,
           <1>13, <1>14, <1>15, <1>16 DEF Next, Step, Served

---------------------------------------------------------------------------
(* Jobs that are written to before their effect.                           *)

\* Such a job is in the hands of the holder of the lock alone.
LEMMA FlyingLocked ==
  ASSUME TypeOK, Sane, NEW j \in Strict, NEW s \in Runs, Flying(s, j)
  PROVE  StrictRun(s) /\ lock = s /\ status[j] = "pending"
<1> USE DEF Sane
<1>1. j \in Jobs /\ KindOf[j] \in LockFirst
  BY DEF Strict
<1>2. CASE Wrote(s, j)
  <2>1. Busy(s) /\ KindOf[j] = run[s].kind /\ lock = s
    BY <1>1, <1>2 DEF RunsSane, Wrote
  <2> QED BY <1>1, <1>2, <2>1 DEF StrictRun, StrictPending
<1>3. CASE run[s].at = "answered" /\ j = Job(s)
  <2>1. Busy(s)
    BY <1>3, AtBusy
  <2>2. run[s].todo # {} /\ run[s].todo \subseteq Jobs
    BY <1>3, <2>1, RunTyped DEF RunsSane
  <2>3. j \in run[s].todo
    BY <1>3, <2>2, JobTaken
  <2>4. KindOf[j] = run[s].kind
    BY <2>1, <2>3 DEF RunsSane
  <2>5. StrictRun(s)
    BY <1>1, <2>1, <2>4 DEF StrictRun
  <2>6. lock = s
    BY <1>3, <2>2, <2>5 DEF StrictLocked
  <2> QED BY <1>1, <2>3, <2>5, <2>6 DEF StrictPending
<1> QED BY <1>2, <1>3 DEF Flying

\* The job a run is about to carry out has not been carried out by another.
LEMMA DoingLocked ==
  ASSUME TypeOK, Sane, NEW s \in Runs, run[s].at = "doing", Job(s) \in Strict
  PROVE  StrictRun(s) /\ lock = s /\ status[Job(s)] = "pending" /\ ~InFlight(Job(s))
<1> USE DEF Sane
<1>1. Busy(s)
  BY AtBusy
<1>2. run[s].todo # {} /\ run[s].todo \subseteq Jobs
  BY <1>1, RunTyped DEF RunsSane
<1>3. Job(s) \in run[s].todo
  BY <1>2, JobTaken
<1>4. KindOf[Job(s)] = run[s].kind /\ ~Wrote(s, Job(s))
  BY <1>1, <1>3 DEF RunsSane
<1>5. StrictRun(s)
  BY <1>1, <1>4 DEF StrictRun, Strict
<1>6. lock = s
  BY <1>2, <1>5 DEF StrictLocked
<1>7. status[Job(s)] = "pending"
  BY <1>2, <1>3, <1>5, <1>6 DEF StrictPending
<1>8. ASSUME NEW q \in Runs, Flying(q, Job(s)) PROVE FALSE
  <2>1. q = s
    BY <1>6, <1>8, FlyingLocked
  <2> QED BY <1>4, <1>8, <2>1 DEF Flying
<1> QED BY <1>5, <1>6, <1>7, <1>8 DEF InFlight

---------------------------------------------------------------------------
(* The steps of the runs.                                                  *)

LEMMA CallSane ==
  ASSUME TypeOK, Sane, NEW s \in Runs, Call(s)
  PROVE  Sane'
<1> DEFINE k == Order[turn]
           writes == WritesFirst(k) /\ Taken(k) # {}
           waits == writes /\ lock # None
           next == [at |-> IF writes /\ ~waits THEN "doing" ELSE "next", kind |-> k,
                    todo |-> Taken(k), wrote |-> [j \in Jobs |-> "pending"]]
<1>1. /\ blocked = None /\ run[s] = Idle
      /\ run' = [run EXCEPT ![s] = next]
      /\ lock' = IF writes /\ ~waits THEN s ELSE lock
      /\ blocked' = IF waits THEN s ELSE None
      /\ status' = status
  BY DEF Call, Loop
<1>2. /\ \A j \in Taken(k) : j \in Jobs /\ KindOf[j] = k /\ status[j] = "pending"
      /\ Taken(k) \subseteq Jobs
  BY DEF Taken, Pending
<1>3. next # Idle /\ next.kind = k /\ next.todo = Taken(k)
      /\ (\A j \in Jobs : next.wrote[j] = "pending")
      /\ next.at = IF writes /\ ~waits THEN "doing" ELSE "next"
  BY DEF Idle
<1> HIDE DEF next, k
<1>4. run'[s] = next /\ \A q \in Runs : q # s => run'[q] = run[q]
  BY <1>1 DEF TypeOK
<1>5. \A j \in Jobs : ~Wrote(s, j)'
  BY <1>3, <1>4 DEF Wrote
<1>6. lock # s
  BY <1>1 DEF Sane, LockSane, Busy
<1>7. RunsSane'
  <2> SUFFICES ASSUME NEW q \in Runs, Busy(q)'
      PROVE /\ \A j \in run'[q].todo : KindOf[j] = run'[q].kind /\ ~Wrote(q, j)'
            /\ \A j \in Jobs : Wrote(q, j)' => KindOf[j] = run'[q].kind /\ lock' = q
            /\ run'[q].at \in {"doing", "answered"} => run'[q].todo # {}
            /\ run'[q].todo = {} => \A j \in Jobs : ~Wrote(q, j)'
    BY DEF RunsSane
  <2>1. CASE q = s
    BY <1>2, <1>3, <1>4, <1>5, <2>1
  <2>2. CASE q # s
    BY <1>1, <1>4, <2>2, NoneAssumption DEF Sane, RunsSane, Wrote, Busy
  <2> QED BY <2>1, <2>2
<1>8. LockSane'
  <2>1. lock' \in Runs => Busy(lock)'
    BY <1>1, <1>3, <1>4 DEF Sane, LockSane, Busy
  <2>2. blocked' # None => blocked' = s /\ waits
    BY <1>1
  <2>3. waits => Wants(s)' /\ Busy(s)' /\ lock' # s
    BY <1>1, <1>3, <1>4, <1>6 DEF Wants, Unlocked, Busy, WritesFirst
  <2> QED BY <2>1, <2>2, <2>3 DEF LockSane
<1>9. StrictLocked'
  <2> SUFFICES ASSUME NEW q \in Runs, StrictRun(q)', run'[q].todo # {}
      PROVE /\ lock' = q \/ blocked' = q
            /\ run'[q].at \in {"doing", "answered"} => lock' = q
    BY DEF StrictLocked
  <2>1. CASE q = s
    BY <1>1, <1>3, <1>4, <2>1 DEF StrictRun, WritesFirst
  <2>2. CASE q # s
    BY <1>1, <1>4, <2>2, NoneAssumption DEF Sane, StrictLocked, StrictRun, Busy
  <2> QED BY <2>1, <2>2
<1>10. StrictPending'
  <2> SUFFICES ASSUME NEW q \in Runs, StrictRun(q)', lock' \notin Runs \ {q},
                      NEW j \in Jobs, j \in run'[q].todo \/ Wrote(q, j)'
               PROVE  status'[j] = "pending"
    BY DEF StrictPending
  <2>1. CASE q = s
    BY <1>1, <1>2, <1>3, <1>4, <1>5, <2>1
  <2>2. CASE q # s
    BY <1>1, <1>4, <2>2, NoneAssumption DEF Sane, StrictPending, StrictRun, Wrote, Busy
  <2> QED BY <2>1, <2>2
<1> QED BY <1>7, <1>8, <1>9, <1>10 DEF Sane

\* A job is begun: with the lock, if its kind writes first.
LEMMA BegunSane ==
  ASSUME TypeOK, Sane, NEW s \in Runs, run[s].at = "next", run[s].todo # {}, Begun(s),
         status' = status, blocked \in {None, s}, blocked' = None,
         \/ lock \in {None, s} /\ lock' = s
         \/ ~WritesFirst(run[s].kind) /\ lock' = lock
  PROVE  Sane'
<1>1. Busy(s)
  BY AtBusy
<1>2. /\ run'[s].at = "doing" /\ run'[s].kind = run[s].kind /\ run'[s].todo = run[s].todo
      /\ run'[s].wrote = run[s].wrote
      /\ \A q \in Runs : q # s => run'[q] = run[q]
  <2>1. run[s] \in RunAt
    BY <1>1 DEF TypeOK, Busy
  <2> QED BY <2>1 DEF Begun, TypeOK, RunAt
<1>3. Busy(s)'
  BY <1>2 DEF Busy, Idle
<1>4. \A q \in Runs : /\ Busy(q)' <=> Busy(q)
                      /\ Busy(q) => run'[q].kind = run[q].kind /\ run'[q].todo = run[q].todo
                                    /\ run'[q].wrote = run[q].wrote
  BY <1>1, <1>2, <1>3 DEF Busy
<1>5. \A q \in Runs, j \in Jobs : Wrote(q, j)' <=> Wrote(q, j)
  BY <1>4 DEF Wrote
<1>6. lock' = lock \/ (lock' = s /\ lock = None)
  OBVIOUS
<1>7. RunsSane'
  <2> SUFFICES ASSUME NEW q \in Runs, Busy(q)'
      PROVE /\ \A j \in run'[q].todo : KindOf[j] = run'[q].kind /\ ~Wrote(q, j)'
            /\ \A j \in Jobs : Wrote(q, j)' => KindOf[j] = run'[q].kind /\ lock' = q
            /\ run'[q].at \in {"doing", "answered"} => run'[q].todo # {}
            /\ run'[q].todo = {} => \A j \in Jobs : ~Wrote(q, j)'
    BY DEF RunsSane
  <2>1. Busy(q) /\ run[q].todo \subseteq Jobs
    BY <1>4, RunTyped
  <2> QED BY <1>2, <1>4, <1>5, <1>6, <2>1, NoneAssumption DEF Sane, RunsSane
<1>8. LockSane'
  BY <1>3, <1>4, <1>6 DEF Sane, LockSane
<1>9. StrictLocked'
  BY <1>2, <1>4, <1>6, NoneAssumption DEF Sane, StrictLocked, StrictRun, WritesFirst
<1>10. StrictPending'
  BY <1>4, <1>5, <1>6, NoneAssumption DEF Sane, StrictPending, StrictRun
<1> QED BY <1>7, <1>8, <1>9, <1>10 DEF Sane

\* A call is answered.
LEMMA EffectSane ==
  ASSUME TypeOK, Sane, NEW s \in Runs, NEW took \in BOOLEAN, NEW ok \in BOOLEAN,
         Effect(s, took, ok)
  PROVE  Sane'
<1>1. Busy(s) /\ run[s].at = "doing"
  BY AtBusy DEF Effect
<1>2. /\ run'[s].at = "answered" /\ run'[s].kind = run[s].kind /\ run'[s].todo = run[s].todo
      /\ run'[s].wrote = run[s].wrote
      /\ \A q \in Runs : q # s => run'[q] = run[q]
  BY DEF Effect, TypeOK
<1>3. Busy(s)'
  BY <1>2 DEF Busy, Idle
<1>4. \A q \in Runs : /\ Busy(q)' <=> Busy(q)
                      /\ Busy(q) => run'[q].kind = run[q].kind /\ run'[q].todo = run[q].todo
                                    /\ run'[q].wrote = run[q].wrote
  BY <1>1, <1>2, <1>3 DEF Busy
<1>5. \A q \in Runs, j \in Jobs : Wrote(q, j)' <=> Wrote(q, j)
  BY <1>4 DEF Wrote
<1>6. lock' = lock /\ blocked' = blocked /\ blocked = None /\ status' = status
  BY DEF Effect, Loop
<1>7. RunsSane'
  <2> SUFFICES ASSUME NEW q \in Runs, Busy(q)'
      PROVE /\ \A j \in run'[q].todo : KindOf[j] = run'[q].kind /\ ~Wrote(q, j)'
            /\ \A j \in Jobs : Wrote(q, j)' => KindOf[j] = run'[q].kind /\ lock' = q
            /\ run'[q].at \in {"doing", "answered"} => run'[q].todo # {}
            /\ run'[q].todo = {} => \A j \in Jobs : ~Wrote(q, j)'
    BY DEF RunsSane
  <2>1. Busy(q) /\ run[q].todo \subseteq Jobs
    BY <1>4, RunTyped
  <2> QED BY <1>1, <1>2, <1>4, <1>5, <1>6, <2>1 DEF Sane, RunsSane
<1>8. LockSane'
  BY <1>4, <1>6 DEF Sane, LockSane
<1>9. StrictLocked'
  BY <1>1, <1>2, <1>4, <1>6 DEF Sane, StrictLocked, StrictRun
<1>10. StrictPending'
  BY <1>4, <1>5, <1>6 DEF Sane, StrictPending, StrictRun
<1> QED BY <1>7, <1>8, <1>9, <1>10 DEF Sane

\* A run is over, and the lock with it.
LEMMA LeavesSane ==
  ASSUME TypeOK, Sane, NEW s \in Runs, Leaves(s), status' = status,
         blocked \in {None, s}, blocked' = None
  PROVE  Sane'
<1>1. run'[s] = Idle /\ \A q \in Runs : q # s => run'[q] = run[q]
  BY DEF Leaves, TypeOK
<1>2. lock' = IF lock = s THEN None ELSE lock
  BY DEF Leaves
<1>3. \A q \in Runs : Busy(q)' => q # s /\ Busy(q)
  BY <1>1 DEF Busy
<1>4. \A q \in Runs, j \in Jobs : Busy(q)' => (Wrote(q, j)' <=> Wrote(q, j))
  BY <1>1, <1>3 DEF Wrote
<1>5. RunsSane'
  <2> SUFFICES ASSUME NEW q \in Runs, Busy(q)'
      PROVE /\ \A j \in run'[q].todo : KindOf[j] = run'[q].kind /\ ~Wrote(q, j)'
            /\ \A j \in Jobs : Wrote(q, j)' => KindOf[j] = run'[q].kind /\ lock' = q
            /\ run'[q].at \in {"doing", "answered"} => run'[q].todo # {}
            /\ run'[q].todo = {} => \A j \in Jobs : ~Wrote(q, j)'
    BY DEF RunsSane
  <2>1. Busy(q) /\ q # s /\ run'[q] = run[q] /\ run[q].todo \subseteq Jobs
    BY <1>1, <1>3, RunTyped
  <2> QED BY <1>2, <1>4, <2>1 DEF Sane, RunsSane
<1>6. LockSane'
  BY <1>1, <1>2, NoneAssumption DEF Sane, LockSane, Busy
<1>7. StrictLocked'
  <2> SUFFICES ASSUME NEW q \in Runs, StrictRun(q)', run'[q].todo # {}
               PROVE  lock' = q
    BY DEF StrictLocked
  <2>1. q # s /\ StrictRun(q) /\ run'[q] = run[q]
    BY <1>1, <1>3 DEF StrictRun
  <2> QED BY <1>2, <2>1, NoneAssumption DEF Sane, StrictLocked
<1>8. StrictPending'
  <2> SUFFICES ASSUME NEW q \in Runs, StrictRun(q)', lock' \notin Runs \ {q},
                      NEW j \in Jobs, j \in run'[q].todo \/ Wrote(q, j)'
               PROVE  status'[j] = "pending"
    BY DEF StrictPending
  <2>1. q # s /\ StrictRun(q) /\ run'[q] = run[q] /\ Busy(q) /\ Busy(q)'
    BY <1>1, <1>3 DEF StrictRun
  <2>2. j \in run[q].todo \/ Wrote(q, j)
    BY <1>4, <2>1
  <2>3. lock = q
    BY <2>1, <2>2, NoneAssumption DEF Sane, StrictLocked, RunsSane
  <2> QED BY <2>1, <2>2, <2>3 DEF Sane, StrictPending
<1> QED BY <1>5, <1>6, <1>7, <1>8 DEF Sane

\* The outcome of a job is written, and there are more to do.
LEMMA RecordedSane ==
  ASSUME TypeOK, Sane, NEW s \in Runs, run[s].at = "answered", Recorded(s),
         run[s].todo \ {Job(s)} # {},
         lock \in {None, s}, blocked \in {None, s}, blocked' = None
  PROVE  Sane' /\ status' = status
<1> DEFINE wrote == [run[s].wrote EXCEPT ![Job(s)] = Outcome(s)]
           left == run[s].todo \ {Job(s)}
           next == [at |-> "next", kind |-> run[s].kind, todo |-> left, wrote |-> wrote]
<1>0. Busy(s) /\ run[s].todo \subseteq Jobs /\ run[s].wrote \in [Jobs -> Ends]
  BY AtBusy, RunTyped
<1>1. lock' = s /\ run' = [run EXCEPT ![s] = next] /\ status' = status
  BY DEF Recorded, Here
<1>2. Job(s) \in run[s].todo
  BY <1>0, JobTaken
<1>3. \A j \in Jobs : j # Job(s) => wrote[j] = run[s].wrote[j]
  BY <1>0
<1>4. next # Idle /\ next.at = "next" /\ next.kind = run[s].kind /\ next.todo = left
      /\ next.wrote = wrote
  BY DEF Idle
<1> HIDE DEF next, wrote
<1>5. run'[s] = next /\ \A q \in Runs : q # s => run'[q] = run[q]
  BY <1>1 DEF TypeOK
<1>6. Busy(s)' /\ \A q \in Runs : q # s => (Busy(q)' <=> Busy(q))
  BY <1>4, <1>5 DEF Busy
<1>7. \A j \in Jobs : Wrote(s, j)' => j = Job(s) \/ Wrote(s, j)
  BY <1>0, <1>3, <1>4, <1>5 DEF Wrote
<1>8. \A q \in Runs, j \in Jobs : q # s => ~Wrote(q, j)
  BY NoneAssumption DEF Sane, RunsSane, Wrote
<1>9. \A q \in Runs, j \in Jobs : q # s => ~Wrote(q, j)'
  BY <1>5, <1>6, <1>8 DEF Wrote
<1>10. RunsSane'
  <2> SUFFICES ASSUME NEW q \in Runs, Busy(q)'
      PROVE /\ \A j \in run'[q].todo : KindOf[j] = run'[q].kind /\ ~Wrote(q, j)'
            /\ \A j \in Jobs : Wrote(q, j)' => KindOf[j] = run'[q].kind /\ lock' = q
            /\ run'[q].at \in {"doing", "answered"} => run'[q].todo # {}
            /\ run'[q].todo = {} => \A j \in Jobs : ~Wrote(q, j)'
    BY DEF RunsSane
  <2>1. CASE q = s
    BY <1>0, <1>1, <1>2, <1>4, <1>5, <1>7, <2>1 DEF Sane, RunsSane
  <2>2. CASE q # s
    <3>1. Busy(q) /\ run'[q] = run[q] /\ run[q].todo \subseteq Jobs
      BY <1>5, <1>6, <2>2, RunTyped
    <3> QED BY <1>9, <2>2, <3>1 DEF Sane, RunsSane
  <2> QED BY <2>1, <2>2
<1>11. LockSane'
  BY <1>1, <1>6 DEF LockSane
<1>12. StrictLocked'
  <2> SUFFICES ASSUME NEW q \in Runs, StrictRun(q)', run'[q].todo # {}, q # s
               PROVE  FALSE
    BY <1>1 DEF StrictLocked
  <2>1. StrictRun(q) /\ run'[q] = run[q]
    BY <1>5, <1>6 DEF StrictRun
  <2> QED BY <2>1, NoneAssumption DEF Sane, StrictLocked
<1>13. StrictPending'
  <2> SUFFICES ASSUME NEW q \in Runs, StrictRun(q)', lock' \notin Runs \ {q},
                      NEW j \in Jobs, j \in run'[q].todo \/ Wrote(q, j)'
               PROVE  status'[j] = "pending"
    BY DEF StrictPending
  <2>1. q = s
    BY <1>1
  <2>2. StrictRun(s) /\ lock \notin Runs \ {s}
    BY <1>0, <1>4, <1>5, <2>1, NoneAssumption DEF StrictRun
  <2>3. j \in run[s].todo \/ Wrote(s, j)
    BY <1>2, <1>4, <1>5, <1>7, <2>1
  <2> QED BY <1>1, <2>2, <2>3 DEF Sane, StrictPending
<1> QED BY <1>1, <1>10, <1>11, <1>12, <1>13 DEF Sane

\* The run commits.
LEMMA CommittedSane ==
  ASSUME TypeOK, Sane, NEW s \in Runs, run' = [run EXCEPT ![s] = Idle],
         lock \in {None, s}, lock' = None, blocked \in {None, s}, blocked' = None
  PROVE  Sane'
<1>1. run'[s] = Idle /\ \A q \in Runs : q # s => run'[q] = run[q]
  BY DEF TypeOK
<1>2. \A q \in Runs : Busy(q)' => q # s /\ Busy(q)
  BY <1>1 DEF Busy
<1>3. \A q \in Runs, j \in Jobs : ~Wrote(q, j)'
  BY <1>1, <1>2, NoneAssumption DEF Sane, RunsSane, Wrote
<1>4. \A q \in Runs : StrictRun(q)' => run'[q].todo = {}
  BY <1>1, <1>2, NoneAssumption DEF Sane, StrictLocked, StrictRun
<1>5. RunsSane'
  <2> SUFFICES ASSUME NEW q \in Runs, Busy(q)'
      PROVE /\ \A j \in run'[q].todo : KindOf[j] = run'[q].kind /\ ~Wrote(q, j)'
            /\ \A j \in Jobs : Wrote(q, j)' => KindOf[j] = run'[q].kind /\ lock' = q
            /\ run'[q].at \in {"doing", "answered"} => run'[q].todo # {}
            /\ run'[q].todo = {} => \A j \in Jobs : ~Wrote(q, j)'
    BY DEF RunsSane
  <2>1. Busy(q) /\ q # s /\ run'[q] = run[q] /\ run[q].todo \subseteq Jobs
    BY <1>1, <1>2, RunTyped
  <2> QED BY <1>3, <2>1 DEF Sane, RunsSane
<1>6. LockSane'
  BY NoneAssumption DEF LockSane
<1>7. StrictLocked' /\ StrictPending'
  BY <1>3, <1>4 DEF StrictLocked, StrictPending
<1> QED BY <1>5, <1>6, <1>7 DEF Sane

\* The write of a run, by itself or when its wait is over.
LEMMA WrittenSane ==
  ASSUME TypeOK, Sane, NEW s \in Runs, Busy(s), Wants(s), Written(s),
         lock \in {None, s}, blocked \in {None, s}, blocked' = None
  PROVE  Sane'
<1>1. CASE run[s].at = "answered" /\ run[s].todo \ {Job(s)} # {}
  BY <1>1, RecordedSane DEF Written
<1>2. CASE run[s].at = "answered" /\ run[s].todo \ {Job(s)} = {}
  BY <1>2, CommittedSane DEF Written, Recorded
<1>3. CASE run[s].at # "answered"
  <2>1. run[s].at = "next" /\ run[s].todo # {}
    BY <1>3 DEF Wants
  <2> QED BY <1>3, <2>1, BegunSane DEF Written
<1> QED BY <1>1, <1>2, <1>3

---------------------------------------------------------------------------
(* Every step.                                                             *)

LEMMA StepSane ==
  ASSUME TypeOK, Sane, [Next]_vars
  PROVE  Sane'
<1> USE DEF Here
<1>1. CASE UNCHANGED <<run, lock, blocked, status>>
  BY <1>1 DEF Sane, RunsSane, LockSane, StrictLocked, StrictPending, StrictRun, Busy, Wrote,
              Wants, Unlocked
<1>2. CASE \/ \E k \in Kinds : Elapse(k)
           \/ Skip \/ GiveUp \/ UNCHANGED vars
  BY <1>1, <1>2 DEF Elapse, Skip, GiveUp, vars
<1>3. ASSUME NEW s \in Runs, Call(s) PROVE Sane'
  BY <1>3, CallSane
<1>4. ASSUME NEW s \in Runs, StartJob(s) PROVE Sane'
  BY <1>4, BegunSane DEF StartJob, Unlocked, Loop
<1>5. ASSUME NEW s \in Runs, Write(s) PROVE Sane'
  <2>1. Busy(s) /\ Wants(s) /\ Written(s)
    BY <1>5, AtBusy DEF Write, Wants
  <2> QED BY <1>5, <2>1, WrittenSane DEF Write, Loop
<1>6. ASSUME NEW s \in Runs, Block(s) PROVE Sane'
  <2>1. /\ blocked = None /\ blocked' = s /\ lock # s /\ Wants(s)
        /\ UNCHANGED <<status, run, lock>>
    BY <1>6 DEF Block, Loop
  <2>2. Busy(s)
    BY <2>1, AtBusy DEF Wants
  <2>3. Wants(s)' /\ \A q \in Runs : /\ Busy(q)' <=> Busy(q)
                                    /\ StrictRun(q)' <=> StrictRun(q)
                                    /\ \A j \in Jobs : Wrote(q, j)' <=> Wrote(q, j)
    BY <2>1 DEF Wants, Unlocked, Busy, StrictRun, Wrote
  <2>4. RunsSane'
    BY <2>1, <2>3 DEF Sane, RunsSane, Wrote, Busy
  <2>5. LockSane'
    BY <2>1, <2>2, <2>3 DEF Sane, LockSane, Busy
  <2>6. StrictLocked'
    <3> SUFFICES ASSUME NEW q \in Runs, StrictRun(q)', run'[q].todo # {}
                 PROVE  lock' = q
      BY DEF StrictLocked
    <3>1. StrictRun(q) /\ run[q].todo # {}
      BY <2>1 DEF StrictRun, Busy
    <3> QED BY <2>1, <3>1, NoneAssumption DEF Sane, StrictLocked
  <2>7. StrictPending'
    <3> SUFFICES ASSUME NEW q \in Runs, StrictRun(q)', lock' \notin Runs \ {q},
                        NEW j \in Jobs, j \in run'[q].todo \/ Wrote(q, j)'
                 PROVE  status'[j] = "pending"
      BY DEF StrictPending
    <3>1. StrictRun(q) /\ (j \in run[q].todo \/ Wrote(q, j))
      BY <2>1 DEF StrictRun, Busy, Wrote
    <3> QED BY <2>1, <3>1 DEF Sane, StrictPending
  <2> QED BY <2>4, <2>5, <2>6, <2>7 DEF Sane
<1>7. ASSUME NEW s \in Runs, Finish(s) PROVE Sane'
  BY <1>7, LeavesSane DEF Finish, Loop
<1>8. ASSUME NEW s \in Runs, NEW took \in BOOLEAN, NEW ok \in BOOLEAN, Effect(s, took, ok)
      PROVE  Sane'
  BY <1>8, EffectSane
<1>9. ASSUME NEW s \in Runs, NEW took \in BOOLEAN, Abort(s, took) PROVE Sane'
  BY <1>9, LeavesSane DEF Abort, Dropped, Loop
<1>10. CASE Acquire
  <2>1. blocked \in Runs /\ Busy(blocked) /\ Wants(blocked)
    BY <1>10 DEF Acquire, Loop, Sane, LockSane, TypeOK
  <2> QED BY <1>10, <2>1, WrittenSane DEF Acquire
<1>11. CASE LockTimeout
  <2>1. blocked \in Runs
    BY <1>11 DEF LockTimeout, TypeOK
  <2> QED BY <1>11, <2>1, LeavesSane DEF LockTimeout, Dropped
<1>12. CASE ThreadTakes \/ ThreadLeaves
  <2>1. /\ UNCHANGED <<run, blocked>>
        /\ lock \in {None, Thread} /\ lock' \in {None, Thread}
        /\ \A j \in Jobs : status[j] = "pending" => status'[j] = "pending"
    BY <1>12 DEF ThreadTakes, ThreadLeaves, TypeOK
  <2>2. \A q \in Runs : /\ Busy(q)' <=> Busy(q)
                        /\ StrictRun(q)' <=> StrictRun(q)
                        /\ \A j \in Jobs : Wrote(q, j)' <=> Wrote(q, j)
                        /\ Wants(q)' <=> Wants(q)
    BY <2>1 DEF Wants, Unlocked, Busy, StrictRun, Wrote
  <2>3. lock \notin Runs /\ lock' \notin Runs
    BY <2>1, NoneAssumption
  <2>4. RunsSane'
    <3> SUFFICES ASSUME NEW q \in Runs, Busy(q)'
        PROVE /\ \A j \in run'[q].todo : KindOf[j] = run'[q].kind /\ ~Wrote(q, j)'
              /\ \A j \in Jobs : Wrote(q, j)' => KindOf[j] = run'[q].kind /\ lock' = q
              /\ run'[q].at \in {"doing", "answered"} => run'[q].todo # {}
              /\ run'[q].todo = {} => \A j \in Jobs : ~Wrote(q, j)'
      BY DEF RunsSane
    <3>1. Busy(q) /\ run[q].todo \subseteq Jobs
      BY <2>2, RunTyped
    <3> QED BY <2>1, <2>2, <2>3, <3>1 DEF Sane, RunsSane
  <2>5. LockSane'
    <3>1. blocked # None => blocked \in Runs
      BY DEF TypeOK
    <3>2. blocked' # None => Busy(blocked)' /\ Wants(blocked)' /\ lock' # blocked'
      BY <2>1, <2>2, <2>3, <3>1 DEF Sane, LockSane, Busy, Wants, Unlocked
    <3> QED BY <2>3, <3>2 DEF LockSane
  <2>6. StrictLocked'
    BY <2>1, <2>2, <2>3 DEF Sane, StrictLocked
  <2>7. StrictPending'
    BY <2>1, <2>2, <2>3 DEF Sane, StrictPending
  <2> QED BY <2>4, <2>5, <2>6, <2>7 DEF Sane
<1>13. CASE Restart
  <2>1. (\A q \in Runs : ~Busy(q)') /\ lock' = None /\ blocked' = None
    BY <1>13 DEF Restart, Busy
  <2> QED BY <2>1, NoneAssumption
          DEF Sane, RunsSane, LockSane, StrictLocked, StrictPending, StrictRun, Wrote
<1> QED BY <1>2, <1>3, <1>4, <1>5, <1>6, <1>7, <1>8, <1>9, <1>10, <1>11, <1>12, <1>13
        DEF Next, Step, Served

---------------------------------------------------------------------------
(* Counting.                                                               *)

\* A run that is dropped has not carried out a job that is written first, or
\* a fault is counted.
LEMMA StepCounted ==
  ASSUME TypeOK, Sane, Counted, [Next]_vars
  PROVE  Counted'
<1>0. \A j \in Strict : /\ j \in Jobs /\ made[j] \in Nat /\ faults \in Nat
                        /\ KindOf[j] \in LockFirst
                        /\ status[j] \in {"absent", "pending", "done", "failed"}
  BY DEF Strict, TypeOK, Ends
<1>1. ASSUME NEW j \in Strict,
             UNCHANGED <<made, faults>>, status'[j] = status[j],
             \A s \in Runs : Flying(s, j) => Flying(s, j)'
      PROVE  /\ status'[j] = "absent" => made'[j] = 0
             /\ status'[j] = "pending" /\ ~InFlight(j)' => made'[j] <= faults'
             /\ made'[j] <= 1 + faults'
  BY <1>1 DEF Counted, InFlight
<1>2. CASE UNCHANGED <<made, faults, status, run>>
  <2>1. \A j \in Strict, s \in Runs : Flying(s, j) => Flying(s, j)'
    BY <1>2 DEF Flying, Wrote, Busy, Job
  <2> QED BY <1>1, <1>2, <2>1 DEF Counted
<1>3. CASE \/ \E k \in Kinds : Elapse(k)
           \/ Skip \/ GiveUp \/ ThreadTakes \/ \E s \in Runs : Block(s)
           \/ UNCHANGED vars
  BY <1>2, <1>3 DEF Elapse, Skip, GiveUp, ThreadTakes, Block, vars
\* A run begins, or goes on with a job.
<1>4. ASSUME NEW s \in Runs, UNCHANGED <<made, faults, status>>,
             \A q \in Runs : q # s => run'[q] = run[q],
             \A j \in Strict : ~Flying(s, j)
      PROVE  Counted'
  <2>1. \A j \in Strict, q \in Runs : Flying(q, j) => Flying(q, j)'
    BY <1>4 DEF Flying, Wrote, Busy, Job
  <2> QED BY <1>1, <1>4, <2>1 DEF Counted
<1>5. ASSUME NEW s \in Runs, Call(s) PROVE Counted'
  <2>1. \A j \in Strict : ~Flying(s, j)
    BY <1>5 DEF Call, Flying, Wrote, Busy, Idle
  <2> QED BY <1>4, <1>5, <2>1 DEF Call, TypeOK
<1>6. ASSUME NEW s \in Runs, run[s].at = "next", Begun(s), UNCHANGED <<made, faults, status>>
      PROVE  Counted'
  <2>1. /\ run'[s].at = "doing" /\ run'[s].wrote = run[s].wrote
        /\ \A q \in Runs : q # s => run'[q] = run[q]
    <3>1. run[s] \in RunAt
      BY <1>6, AtBusy DEF TypeOK, Busy
    <3> QED BY <1>6, <3>1 DEF Begun, TypeOK, RunAt
  <2>2. \A j \in Strict, q \in Runs : Flying(q, j) => Flying(q, j)'
    <3> SUFFICES ASSUME NEW j \in Strict, NEW q \in Runs, Flying(q, j)
                 PROVE  Flying(q, j)'
      OBVIOUS
    <3>1. CASE q = s
      BY <1>6, <2>1, <3>1 DEF Flying, Wrote, Busy, Idle
    <3>2. CASE q # s
      BY <2>1, <3>2 DEF Flying, Wrote, Busy, Job
    <3> QED BY <3>1, <3>2
  <2> QED BY <1>1, <1>6, <2>2 DEF Counted
<1>7. ASSUME NEW s \in Runs, StartJob(s) PROVE Counted'
  BY <1>6, <1>7 DEF StartJob, Unlocked
<1>8. ASSUME NEW s \in Runs, run[s].at = "answered", Recorded(s), UNCHANGED <<made, faults>>
      PROVE  Counted'
  <2> DEFINE wrote == [run[s].wrote EXCEPT ![Job(s)] = Outcome(s)]
             left == run[s].todo \ {Job(s)}
  <2>0. Busy(s) /\ run[s].wrote \in [Jobs -> Ends] /\ Job(s) \in run[s].todo
        /\ run[s].todo \subseteq Jobs
    BY <1>8, AtBusy, RunTyped, JobTaken DEF Sane, RunsSane
  \* What was in flight in this run is written.
  <2>1. ASSUME NEW j \in Strict, Flying(s, j) PROVE wrote[j] \in {"done", "failed"}
    <3>1. run[s].kind \notin Kept
      BY <2>1, FlyingLocked, KindAssumption DEF StrictRun
    <3>2. Outcome(s) \in {"done", "failed"}
      BY <3>1 DEF Outcome
    <3>3. CASE j = Job(s)
      BY <1>0, <2>0, <3>2, <3>3
    <3>4. CASE j # Job(s)
      BY <1>0, <2>0, <2>1, <3>4 DEF Flying, Wrote, Ends
    <3> QED BY <3>3, <3>4
  <2>2. CASE left # {}
    <3> DEFINE next == [at |-> "next", kind |-> run[s].kind, todo |-> left, wrote |-> wrote]
    <3>1. run' = [run EXCEPT ![s] = next] /\ status' = status
      BY <1>8, <2>2 DEF Recorded, Here
    <3>2. next # Idle /\ next.wrote = wrote
      BY DEF Idle
    <3> HIDE DEF next, wrote
    <3>3. run'[s] = next /\ \A q \in Runs : q # s => run'[q] = run[q]
      BY <3>1 DEF TypeOK
    <3>4. ASSUME NEW j \in Strict, NEW q \in Runs, Flying(q, j) PROVE Flying(q, j)'
      <4>1. CASE q = s
        <5>1. wrote[j] # "pending"
          BY <2>1, <3>4, <4>1
        <5> QED BY <3>2, <3>3, <4>1, <5>1 DEF Flying, Wrote, Busy
      <4>2. CASE q # s
        BY <3>3, <3>4, <4>2 DEF Flying, Wrote, Busy, Job
      <4> QED BY <4>1, <4>2
    <3> QED BY <1>1, <1>8, <3>1, <3>4 DEF Counted
  <2>3. CASE left = {}
    <3>1. run' = [run EXCEPT ![s] = Idle] /\ status' = Committed(s, wrote)
      BY <1>8, <2>3 DEF Recorded
    <3> HIDE DEF wrote
    <3>2. \A q \in Runs : q # s => run'[q] = run[q]
      BY <3>1 DEF TypeOK
    <3>3. SUFFICES ASSUME NEW j \in Strict
          PROVE  /\ status'[j] = "absent" => made'[j] = 0
                 /\ status'[j] = "pending" /\ ~InFlight(j)' => made'[j] <= faults'
                 /\ made'[j] <= 1 + faults'
      BY DEF Counted
    <3>4. status'[j] = IF wrote[j] # "pending" THEN wrote[j] ELSE status[j]
      BY <1>0, <3>1 DEF Committed
    <3>5. CASE Flying(s, j)
      BY <1>8, <2>1, <3>4, <3>5 DEF Counted
    <3>6. CASE ~Flying(s, j)
      <4>1. j # Job(s) /\ ~Wrote(s, j)
        BY <1>8, <3>6 DEF Flying
      <4>2. wrote[j] = "pending"
        BY <1>0, <2>0, <4>1 DEF Wrote, wrote
      <4>3. \A q \in Runs : Flying(q, j) => Flying(q, j)'
        BY <3>2, <3>6 DEF Flying, Wrote, Busy, Job
      <4> QED BY <1>1, <1>8, <3>4, <4>2, <4>3
    <3> QED BY <3>5, <3>6
  <2> QED BY <2>2, <2>3
<1>9. ASSUME NEW s \in Runs, Wants(s), Written(s), UNCHANGED <<made, faults>> PROVE Counted'
  BY <1>6, <1>8, <1>9 DEF Written, Wants, Here
<1>10. ASSUME NEW s \in Runs, Write(s) PROVE Counted'
  BY <1>9, <1>10 DEF Write
<1>11. CASE Acquire
  <2>1. blocked \in Runs /\ Wants(blocked)
    BY <1>11 DEF Acquire, Loop, Sane, LockSane, TypeOK
  <2> QED BY <1>9, <1>11, <2>1 DEF Acquire
<1>12. ASSUME NEW s \in Runs, Finish(s) PROVE Counted'
  <2>1. \A j \in Strict : ~Flying(s, j)
    <3>1. Busy(s)
      BY <1>12, AtBusy DEF Finish
    <3> QED BY <1>0, <1>12, <3>1 DEF Finish, Flying, Sane, RunsSane
  <2> QED BY <1>4, <1>12, <2>1 DEF Finish, Leaves, TypeOK
<1>13. CASE LockTimeout
  <2>1. blocked \in Runs /\ lock # blocked
    BY <1>13 DEF LockTimeout, Sane, LockSane, TypeOK
  <2>2. \A j \in Strict : ~Flying(blocked, j)
    BY <2>1, FlyingLocked
  <2> QED BY <1>4, <1>13, <2>1, <2>2 DEF LockTimeout, Dropped, Leaves, TypeOK
<1>14. ASSUME NEW s \in Runs, NEW took \in BOOLEAN, NEW ok \in BOOLEAN, Effect(s, took, ok)
       PROVE  Counted'
  <2>1. /\ run[s].at = "doing" /\ Carried(s, took) /\ UNCHANGED <<status, faults>>
        /\ run'[s].at = "answered" /\ run'[s].todo = run[s].todo
        /\ run'[s].wrote = run[s].wrote
        /\ \A q \in Runs : q # s => run'[q] = run[q]
    BY <1>14 DEF Effect, TypeOK
  <2>2. ASSUME NEW j \in Strict, NEW q \in Runs, Flying(q, j) PROVE Flying(q, j)'
    <3>1. CASE q = s
      BY <2>1, <2>2, <3>1 DEF Flying, Wrote, Busy, Idle
    <3>2. CASE q # s
      BY <2>1, <2>2, <3>2 DEF Flying, Wrote, Busy, Job
    <3> QED BY <3>1, <3>2
  <2>3. CASE took /\ Job(s) \in Strict
    <3>1. made' = [made EXCEPT ![Job(s)] = @ + 1]
      BY <2>1, <2>3 DEF Carried
    <3>2. status[Job(s)] = "pending" /\ ~InFlight(Job(s))
      BY <2>1, <2>3, DoingLocked
    <3>3. made[Job(s)] <= faults
      BY <2>3, <3>2 DEF Counted
    <3>4. \A j \in Strict : InFlight(j) => InFlight(j)'
      BY <2>2 DEF InFlight
    <3>5. ASSUME NEW j \in Strict
          PROVE  /\ status'[j] = "absent" => made'[j] = 0
                 /\ status'[j] = "pending" /\ ~InFlight(j)' => made'[j] <= faults'
                 /\ made'[j] <= 1 + faults'
      <4>1. CASE j = Job(s)
        <5>1. made'[j] = made[j] + 1
          BY <2>3, <3>1, <4>1 DEF TypeOK
        <5>2. InFlight(j)'
          BY <2>1, <4>1 DEF InFlight, Flying, Job
        <5>3. made[j] \in Nat /\ faults \in Nat /\ made[j] <= faults /\ status'[j] = "pending"
          BY <1>0, <2>1, <3>2, <3>3, <4>1
        <5> QED BY <2>1, <5>1, <5>2, <5>3
      <4>2. CASE j # Job(s)
        <5>1. made'[j] = made[j]
          BY <3>1, <4>2 DEF TypeOK
        <5> QED BY <2>1, <3>4, <5>1 DEF Counted
      <4> QED BY <4>1, <4>2
    <3> QED BY <3>5 DEF Counted
  <2>4. CASE ~(took /\ Job(s) \in Strict)
    <3>1. made' = made
      BY <2>1, <2>4 DEF Carried
    <3> QED BY <1>1, <2>1, <2>2, <3>1 DEF Counted
  <2> QED BY <2>3, <2>4
\* A fault: one more is allowed for.
<1>15. ASSUME faults' = faults + 1, status' = status,
              \A j \in Strict : \/ made'[j] = made[j]
                               \/ /\ made'[j] = made[j] + 1
                                  /\ made[j] <= faults /\ status[j] # "absent"
       PROVE  Counted'
  <2> SUFFICES ASSUME NEW j \in Strict
      PROVE  /\ status'[j] = "absent" => made'[j] = 0
             /\ made'[j] <= faults' /\ made'[j] <= 1 + faults'
    BY DEF Counted
  <2>1. made[j] <= 1 + faults /\ (status[j] = "absent" => made[j] = 0)
    BY DEF Counted
  <2> QED BY <1>0, <1>15, <2>1
<1>16. ASSUME NEW s \in Runs, NEW took \in BOOLEAN, Abort(s, took) PROVE Counted'
  <2>1. run[s].at = "doing" /\ Carried(s, took) /\ faults' = faults + 1 /\ status' = status
    BY <1>16 DEF Abort
  <2>2. CASE took /\ Job(s) \in Strict
    <3>1. status[Job(s)] = "pending" /\ ~InFlight(Job(s))
      BY <2>1, <2>2, DoingLocked
    <3>2. made[Job(s)] <= faults
      BY <2>2, <3>1 DEF Counted
    <3>3. made' = [made EXCEPT ![Job(s)] = @ + 1]
      BY <2>1, <2>2 DEF Carried
    <3> QED BY <1>15, <2>1, <3>1, <3>2, <3>3 DEF TypeOK
  <2>3. CASE ~(took /\ Job(s) \in Strict)
    BY <1>15, <2>1, <2>3 DEF Carried
  <2> QED BY <2>2, <2>3
<1>17. CASE Restart
  BY <1>15, <1>17 DEF Restart
<1>18. CASE ThreadLeaves
  <2>1. UNCHANGED <<run, made, faults>>
    BY <1>18 DEF ThreadLeaves
  <2>2. \A j \in Strict, s \in Runs : Flying(s, j) => Flying(s, j)'
    BY <2>1 DEF Flying, Wrote, Busy, Job
  <2>3. \A j \in Jobs : status'[j] = status[j] \/ (status[j] = "absent" /\ status'[j] = "pending")
    BY <1>18 DEF ThreadLeaves, TypeOK
  <2> SUFFICES ASSUME NEW j \in Strict
      PROVE  /\ status'[j] = "absent" => made'[j] = 0
             /\ status'[j] = "pending" /\ ~InFlight(j)' => made'[j] <= faults'
             /\ made'[j] <= 1 + faults'
    BY DEF Counted
  <2>4. CASE status'[j] = status[j]
    BY <1>1, <2>1, <2>2, <2>4
  <2>5. CASE status[j] = "absent" /\ status'[j] = "pending"
    <3>1. made[j] = 0
      BY <2>5 DEF Counted
    <3> QED BY <1>0, <2>1, <2>5, <3>1
  <2> QED BY <1>0, <2>3, <2>4, <2>5
<1> QED BY <1>3, <1>5, <1>7, <1>10, <1>11, <1>12, <1>13, <1>14, <1>16, <1>17, <1>18
        DEF Next, Step, Served

---------------------------------------------------------------------------
(* Outbox.                                                                 *)

\* What a run commits about a job that is written first was pending.
LEMMA StepPromised ==
  ASSUME TypeOK, Sane, [Next]_vars
  PROVE  [Promise!Next]_[j \in Strict |-> status[j]]
<1> DEFINE shown == [j \in Strict |-> status[j]]
<1> SUFFICES Promise!Next \/ shown' = shown
  OBVIOUS
<1>1. ASSUME NEW s \in Runs, run[s].at = "answered", Recorded(s) PROVE Promise!Next \/ shown' = shown
  <2> DEFINE wrote == [run[s].wrote EXCEPT ![Job(s)] = Outcome(s)]
  <2>0. Busy(s) /\ run[s].wrote \in [Jobs -> Ends] /\ Job(s) \in run[s].todo
        /\ run[s].todo \subseteq Jobs /\ wrote \in [Jobs -> Ends]
    BY <1>1, AtBusy, RunTyped, JobTaken DEF Sane, RunsSane, Outcome, Ends
  <2>1. CASE run[s].todo \ {Job(s)} # {}
    BY <1>1, <2>1 DEF Recorded
  <2>2. CASE run[s].todo \ {Job(s)} = {}
    <3>1. status' = Committed(s, wrote)
      BY <1>1, <2>2 DEF Recorded
    <3>2. ASSUME NEW j \in Strict
          PROVE  status'[j] = IF status[j] = "pending" THEN wrote[j] ELSE status[j]
      <4>1. j \in Jobs
        BY DEF Strict
      <4>2. status'[j] = IF wrote[j] # "pending" THEN wrote[j] ELSE status[j]
        BY <3>1, <4>1 DEF Committed
      <4>3. wrote[j] # "pending" => Flying(s, j)
        BY <1>1, <2>0, <4>1 DEF Flying, Wrote
      <4> QED BY <4>2, <4>3, FlyingLocked
    <3>3. [j \in Strict |-> wrote[j]] \in [Strict -> {"pending", "done", "failed"}]
      BY <2>0 DEF Strict, Ends
    <3> HIDE DEF wrote
    <3>4. shown' = [j \in Strict |-> IF shown[j] = "pending" THEN [i \in Strict |-> wrote[i]][j]
                                                            ELSE shown[j]]
      BY <3>2
    <3> QED BY <3>3, <3>4 DEF Promise!Next, Promise!End
  <2> QED BY <2>1, <2>2
<1>2. ASSUME NEW s \in Runs, Wants(s), Written(s) PROVE Promise!Next \/ shown' = shown
  BY <1>1, <1>2 DEF Written, Wants
<1>3. ASSUME NEW s \in Runs, Write(s) PROVE Promise!Next \/ shown' = shown
  BY <1>2, <1>3 DEF Write
<1>4. CASE Acquire
  <2>1. blocked \in Runs /\ Wants(blocked)
    BY <1>4 DEF Acquire, Loop, Sane, LockSane, TypeOK
  <2> QED BY <1>2, <1>4, <2>1 DEF Acquire
<1>5. CASE ThreadLeaves
  <2>1. CASE UNCHANGED status
    BY <2>1
  <2>2. ASSUME NEW j \in Jobs, status[j] = "absent", status' = [status EXCEPT ![j] = "pending"]
        PROVE  Promise!Next \/ shown' = shown
    <3>1. CASE j \in Strict
      <4>1. shown[j] = "absent" /\ shown' = [shown EXCEPT ![j] = "pending"]
        BY <2>2, <3>1 DEF TypeOK, Strict
      <4> QED BY <3>1, <4>1 DEF Promise!Next, Promise!Queue
    <3>2. CASE j \notin Strict
      BY <2>2, <3>2 DEF TypeOK, Strict
    <3> QED BY <3>1, <3>2
  <2> QED BY <1>5, <2>1, <2>2 DEF ThreadLeaves
<1>6. CASE UNCHANGED status
  BY <1>6
<1>7. CASE \/ \E k \in Kinds : Elapse(k)
           \/ Skip \/ GiveUp \/ \E s \in Runs : Call(s)
           \/ LockTimeout \/ ThreadTakes \/ Restart \/ UNCHANGED vars
  BY <1>6, <1>7 DEF Elapse, Skip, GiveUp, Call, LockTimeout, ThreadTakes, Restart, vars
<1>8. ASSUME NEW s \in Runs,
             \/ StartJob(s) \/ Block(s) \/ Finish(s)
             \/ \E took, ok \in BOOLEAN : Effect(s, took, ok)
             \/ \E took \in BOOLEAN : Abort(s, took)
      PROVE  Promise!Next \/ shown' = shown
  BY <1>6, <1>8 DEF StartJob, Block, Finish, Effect, Abort
<1> QED BY <1>3, <1>4, <1>5, <1>7, <1>8 DEF Next, Step, Served

---------------------------------------------------------------------------
(* The theorems.                                                           *)

\* Types, the discipline of the lock and the count of the effects: the inductive
\* invariant (scheduler.py, db.py:21-34, membership.py:353-429).
THEOREM RunsInvariant == Spec => []RunsInv
<1>1. Init => RunsInv
  <2> SUFFICES ASSUME Init PROVE RunsInv
    OBVIOUS
  <2>1. 1 \in 1..Len(Order) /\ 0 \in 0..MaxFaults
    BY OrderAssumption, BoundAssumption
  <2>2. TypeOK
    BY <2>1 DEF Init, TypeOK
  <2>3. Sane
    BY NoneAssumption
       DEF Init, Sane, RunsSane, LockSane, StrictLocked, StrictPending, StrictRun, Busy, Wrote
  <2>4. Counted
    BY DEF Init, Counted, Strict
  <2> QED BY <2>2, <2>3, <2>4 DEF RunsInv
<1>2. RunsInv /\ [Next]_vars => RunsInv'
  BY StepTyped, StepSane, StepCounted DEF RunsInv, Sane
<1> QED BY <1>1, <1>2, PTL DEF Spec

\* TypeOK of the run, for any number of jobs, runs and faults.
THEOREM RunsTypeOK == Spec => []TypeOK
<1>1. RunsInv => TypeOK
  BY DEF RunsInv
<1> QED BY <1>1, RunsInvariant, PTL

\* However runs overlap, a restore is carried out once, and once more for each
\* restart or aborted run (membership.py:380).
THEOREM RestoreMadeOnce == Spec => []LockedJobMadeOnce
<1>1. RunsInv => LockedJobMadeOnce
  BY DEF RunsInv, Counted, LockedJobMadeOnce
<1> QED BY <1>1, RunsInvariant, PTL

\* A restore that ended keeps its end: JobRuns implements Outbox for the jobs
\* that are written first (membership.py:362-428).
THEOREM RestoreEndsOnce == Spec => EndsOnce
<1>1. Init => Promise!Init
  BY DEF Init, Promise!Init, Strict
<1>2. RunsInv /\ [Next]_vars => [Promise!Next]_[j \in Strict |-> status[j]]
  BY StepPromised DEF RunsInv
<1> QED BY <1>1, <1>2, RunsInvariant, PTL DEF Spec, EndsOnce, Promise!Spec
=============================================================================
