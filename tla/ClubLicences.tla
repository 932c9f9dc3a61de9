---------------------------- MODULE ClubLicences ----------------------------
(***************************************************************************)
(* Licences of the club's applications.  The licence server keeps one      *)
(* grant per member and product; the bot asks it for the keys of a member  *)
(* ("provision") and tells it to suspend or restore what the club gave.    *)
(* A request may be lost, served after the bot gave up, or answered to     *)
(* nobody.  Licence administrators stop licences by hand on the server,    *)
(* operators issue and revoke keys in the bot.                             *)
(***************************************************************************)
EXTENDS FiniteSets, Functions

CONSTANTS
  Users,     \* members
  Products,  \* the products of the club's catalogue
  Licences,  \* identifiers the server may use
  None,
  MaxLate    \* bound on late

ASSUME NoneAssumption == None \notin Users \cup Licences
ASSUME ProductAssumption == Products # {}
ASSUME LateAssumption == MaxLate \in Nat

VARIABLES
  licence,  \* server: the licences table
  grant,    \* server: club_vip_grants
  byHand,   \* licences an administrator stopped while the club did not hold them
  key,      \* bot: the row of app_keys for each licence
  line,     \* bot: the request a member's handler waits for
  late,     \* requests under way whose answer changes nothing in the bot's rows
  message   \* the keys this step sent to a member on the server's word

server == <<licence, grant>>
vars == <<server, byHand, key, line, late, message>>

---------------------------------------------------------------------------
\* user: whom the record names; made: generated for the club.
Record == [status : {"unused", "active", "suspended", "revoked"},
           user : Users \cup {None}, product : Products, made : BOOLEAN]
\* held: suspended_by_club; code: the encrypted key is there.
Grant == [licence : Licences \cup {None}, managed : BOOLEAN, held : BOOLEAN,
          code : BOOLEAN]
NoGrant == [licence |-> None, managed |-> FALSE, held |-> FALSE, code |-> FALSE]
Key == [status : {"none", "issued", "revoked"}, user : Users \cup {None},
        plan : {"club", "license"}]
NoKey == [status |-> "none", user |-> None, plan |-> "license"]

Request == [user : Users, action : {"provision", "suspend", "restore"},
            known : SUBSET Licences]
Answer == [ok : BOOLEAN, licences : SUBSET Licences, unavailable : SUBSET Products]
Idle == [at |-> "idle"]
Line == {Idle} \cup [at : {"sent"}, request : Request]
               \cup [at : {"answered"}, request : Request, answer : Answer]

Unused == {l \in Licences : licence[l].status = "unused"}
OnRecord(u, p) ==
  {l \in Licences \ Unused : licence[l].user = u /\ licence[l].product = p}
Single(S) == \A l, m \in S : l = m
Granted == {grant[u, p].licence : u \in Users, p \in Products}
ManagedOf(u) == {grant[u, p].licence : p \in {q \in Products : grant[u, q].managed}}
HeldOf(u) == {grant[u, p].licence : p \in {q \in Products : grant[u, q].held}}

---------------------------------------------------------------------------
(* The server.  The advisory lock makes each request of an owner one step. *)

Empty == [ok |-> TRUE, licences |-> {}, unavailable |-> {}]
Rejection == [ok |-> FALSE, licences |-> {}, unavailable |-> {}]

WithStatus(ls, from, to) ==
  [l \in Licences |-> IF l \in ls /\ licence[l].status = from
                      THEN [licence[l] EXCEPT !.status = to] ELSE licence[l]]

\* Mutant of Suspend: the flag is set although nothing was suspended.
SuspendAll(u) ==
  /\ licence' = WithStatus(ManagedOf(u), "active", "suspended")
  /\ grant' = [x \in Users \X Products |->
                 IF x[1] = u /\ grant[x].managed THEN [grant[x] EXCEPT !.held = TRUE]
                                                 ELSE grant[x]]

Suspend(u) ==
  /\ licence' = WithStatus(ManagedOf(u), "active", "suspended")
  /\ grant' = [x \in Users \X Products |->
                 IF x[1] = u /\ grant[x].managed /\ licence[grant[x].licence].status = "active"
                 THEN [grant[x] EXCEPT !.held = TRUE] ELSE grant[x]]

Restore(u) ==
  /\ licence' = WithStatus(ManagedOf(u) \cap HeldOf(u), "suspended", "active")
  /\ grant' = [x \in Users \X Products |->
                 IF x[1] = u /\ grant[x].managed THEN [grant[x] EXCEPT !.held = FALSE]
                                                 ELSE grant[x]]

Missing(u) == {p \in Products : grant[u, p].licence = None}
Candidates(r, p) == {l \in r.known : licence[l].product = p}
\* A key the bot knows is adopted as a personal licence.
Adopted(r) == {p \in Missing(r.user) : Candidates(r, p) # {}}
\* Mutant of Historic: the record is not searched.
NoHistory(r) == {}

\* A licence on record whose key nobody knows is not replaced.
Historic(r) == {p \in Missing(r.user) \ Adopted(r) : OnRecord(r.user, p) # {}}

\* New grants: known[p] is adopted, new[p] generated.
Grants(u, known, new) ==
  [x \in Users \X Products |->
     IF x[1] # u THEN grant[x]
     ELSE IF x[2] \in DOMAIN known
     THEN [licence |-> known[x[2]], managed |-> FALSE, held |-> FALSE, code |-> TRUE]
     ELSE IF x[2] \in DOMAIN new
     THEN [licence |-> new[x[2]], managed |-> TRUE, held |-> FALSE, code |-> TRUE]
     ELSE grant[x]]

\* Licences held by the club become active again, new ones begin active.
Provided(u, new) ==
  [l \in Licences |->
     IF \E p \in DOMAIN new : new[p] = l
     THEN [status |-> "active", user |-> u, made |-> TRUE,
           product |-> CHOOSE p \in DOMAIN new : new[p] = l]
     ELSE WithStatus(ManagedOf(u) \cap HeldOf(u), "suspended", "active")[l]]

Reactivated(u, g) ==
  [x \in Users \X Products |->
     IF x[1] = u /\ g[x].managed /\ g[x].held /\ licence[g[x].licence].status = "suspended"
     THEN [g[x] EXCEPT !.held = FALSE] ELSE g[x]]

AnswerFor(u, l, g) ==
  LET usable == {p \in Products : /\ g[u, p].licence # None /\ g[u, p].code
                                  /\ l[g[u, p].licence].status = "active"}
  IN [ok |-> TRUE, licences |-> {g[u, p].licence : p \in usable},
      unavailable |-> Products \ usable]

\* UNIQUE(license_id) refuses a key that is in somebody's grant already.
Provision(r, answer) ==
  \E known \in [Adopted(r) -> r.known],
     new \in Injection(Missing(r.user) \ (Adopted(r) \cup Historic(r)), Unused) :
    /\ \A p \in Adopted(r) : known[p] \in Candidates(r, p)
    /\ IF Granted \cap Range(known) # {}
       THEN answer = Rejection /\ UNCHANGED server
       ELSE /\ licence' = Provided(r.user, new)
            /\ grant' = Reactivated(r.user, Grants(r.user, known, new))
            /\ answer = AnswerFor(r.user, licence', grant')

Served(r, answer) ==
  \/ r.action = "provision" /\ Provision(r, answer)
  \/ r.action = "suspend" /\ Suspend(r.user) /\ answer = Empty
  \/ r.action = "restore" /\ Restore(r.user) /\ answer = Empty

---------------------------------------------------------------------------
(* The bot.  A handler that asks holds the write lock of the database      *)
(* until it has sent its message, so operators wait.                       *)

Issued(keys, u) == {l \in Licences : keys[l].user = u /\ keys[l].status = "issued"}
Nothing == [to |-> None, shown |-> {}, vouched |-> {}]
Silent == message' = Nothing

\* A member of the group asks for the keys.
Ask(u) ==
  /\ line = Idle
  /\ line' = [at |-> "sent", request |-> [user |-> u, action |-> "provision",
                                         known |-> Issued(key, u)]]
  /\ Silent /\ UNCHANGED <<server, byHand, key, late>>

\* A club.access job found the member in the group, or not.
Switch(u, action) ==
  /\ Cardinality(late) < MaxLate /\ action \in {"suspend", "restore"}
  /\ late' = late \cup {[user |-> u, action |-> action, known |-> {}]}
  /\ Silent /\ UNCHANGED <<server, byHand, key, line>>

Serve ==
  /\ line.at = "sent"
  /\ \E answer \in Answer :
       /\ Served(line.request, answer)
       /\ line' = [at |-> "answered", request |-> line.request, answer |-> answer]
  /\ Silent /\ UNCHANGED <<byHand, key, late>>

ServeLate(r) ==
  /\ r \in late
  /\ \E answer \in Answer : Served(r, answer)
  /\ late' = late \ {r}
  /\ Silent /\ UNCHANGED <<byHand, key, line>>

Lose(r) ==
  /\ r \in late /\ late' = late \ {r}
  /\ Silent /\ UNCHANGED <<server, byHand, key, line>>

\* The request, or its answer, is lost: the member is sent the keys the bot has.
GetsNoAnswer ==
  /\ line # Idle /\ line' = Idle
  /\ Silent /\ UNCHANGED <<server, byHand, key, late>>

\* The handler gives up on a request that is still to be served.
GivesUp ==
  /\ line.at = "sent" /\ Cardinality(late) < MaxLate
  /\ late' = late \cup {line.request}
  /\ line' = Idle
  /\ Silent /\ UNCHANGED <<server, byHand, key>>

\* A licence whose row belongs to another member refuses the whole answer.
Conflict(u, a) == \E l \in a.licences : key[l].status # "none" /\ key[l].user # u
\* Mutant of NewKeys: every licence of the answer is written.
AllKeys(a) == a.licences
\* Rows the bot has already are left as they are.
NewKeys(a) == {l \in a.licences : key[l].status = "none"}
KeysFrom(u, a) ==
  [l \in Licences |->
     IF l \in NewKeys(a)
     THEN [status |-> "issued", user |-> u,
           plan |-> IF grant[u, licence[l].product].managed THEN "club" ELSE "license"]
     ELSE key[l]]
\* Mutant of Withheld: what the server did not vouch for is sent all the same.
NothingWithheld(a) == {}
Withheld(a) == a.unavailable

ReadAnswer ==
  /\ line.at = "answered"
  /\ LET u == line.request.user
         a == line.answer
     IN /\ a.ok /\ ~Conflict(u, a)
        /\ message' = [to |-> u,
                       shown |-> {l \in Issued(KeysFrom(u, a), u) :
                                    licence[l].product \notin Withheld(a)},
                       vouched |-> a.licences]
        /\ key' \in {key, KeysFrom(u, a)}  \* key: undone by a restart
  /\ line' = Idle
  /\ UNCHANGED <<server, byHand, late>>

RefuseAnswer ==
  /\ line.at = "answered"
  /\ \/ ~line.answer.ok
     \/ Conflict(line.request.user, line.answer)
  /\ line' = Idle
  /\ Silent /\ UNCHANGED <<server, byHand, key, late>>

\* The licence sheet, in the bot.
\* Mutant of OperatorIssues: the row of an existing key keeps its plan.
IssuesKeepingPlan(l, u) ==
  /\ line = Idle /\ l \notin Unused
  /\ key' = [key EXCEPT ![l] = [status |-> "issued", user |-> u, plan |-> key[l].plan]]
  /\ Silent /\ UNCHANGED <<server, byHand, line, late>>

OperatorIssues(l, u) ==
  /\ line = Idle /\ l \notin Unused
  /\ key' = [key EXCEPT ![l] = [status |-> "issued", user |-> u, plan |-> "license"]]
  /\ Silent /\ UNCHANGED <<server, byHand, line, late>>

OperatorRevokes(l) ==
  /\ line = Idle /\ key[l].status # "none"
  /\ key' = [key EXCEPT ![l].status = "revoked"]
  /\ Silent /\ UNCHANGED <<server, byHand, line, late>>

---------------------------------------------------------------------------
(* Licence administrators, on the server.                                  *)

Held(l) == \E u \in Users, p \in Products : grant[u, p].licence = l /\ grant[u, p].held

Revoke(l) ==
  /\ licence[l].status \in {"active", "suspended"}
  /\ licence' = [licence EXCEPT ![l].status = "revoked"]
  /\ byHand' = byHand \cup {l}
  /\ Silent /\ UNCHANGED <<grant, key, line, late>>

\* Mutant of SuspendByHand: a status the rest of the server does not know.
PauseByHand(l) ==
  /\ licence[l].status = "active"
  /\ licence' = [licence EXCEPT ![l].status = "paused"]
  /\ byHand' = byHand \cup {l}
  /\ Silent /\ UNCHANGED <<grant, key, line, late>>

\* A licence the club holds may come back with the member.
SuspendByHand(l) ==
  /\ licence[l].status = "active"
  /\ licence' = [licence EXCEPT ![l].status = "suspended"]
  /\ byHand' = IF Held(l) THEN byHand ELSE byHand \cup {l}
  /\ Silent /\ UNCHANGED <<grant, key, line, late>>

ResumeByHand(l) ==
  /\ licence[l].status = "suspended"
  /\ licence' = [licence EXCEPT ![l].status = "active"]
  /\ byHand' = byHand \ {l}
  /\ Silent /\ UNCHANGED <<grant, key, line, late>>

---------------------------------------------------------------------------
Free(l) == [status |-> "unused", user |-> None, made |-> FALSE,
            product |-> CHOOSE p \in Products : TRUE]
Sold(u, p) == [status |-> "active", user |-> u, made |-> FALSE, product |-> p]

FirstRecords == {Free(l) : l \in Licences}
                  \cup {Sold(u, p) : u \in Users \cup {None}, p \in Products}
FirstGrants == {NoGrant} \cup {[NoGrant EXCEPT !.licence = l] : l \in Licences}

\* Personal licences were sold before; some are kept by a grant without code.
Init ==
  /\ licence \in [Licences -> FirstRecords]
  /\ \A u \in Users, p \in Products : Single(OnRecord(u, p))
  /\ grant \in {g \in [Users \X Products -> FirstGrants] :
                  \A u \in Users, p \in Products : g[u, p] # NoGrant =>
                     g[u, p].licence \in OnRecord(u, p)}
  /\ byHand = {} /\ key = [l \in Licences |-> NoKey]
  /\ line = Idle /\ late = {} /\ message = Nothing

Next ==
  \/ \E u \in Users : Ask(u)
  \/ \E u \in Users, action \in {"suspend", "restore"} : Switch(u, action)
  \/ Serve \/ GetsNoAnswer \/ GivesUp \/ ReadAnswer \/ RefuseAnswer
  \/ \E r \in late : ServeLate(r) \/ Lose(r)
  \/ \E l \in Licences, u \in Users : OperatorIssues(l, u)
  \/ \E l \in Licences : OperatorRevokes(l)
  \/ \E l \in Licences : Revoke(l) \/ SuspendByHand(l) \/ ResumeByHand(l)

Spec == Init /\ [][Next]_vars

---------------------------------------------------------------------------
TypeOK ==
  /\ licence \in [Licences -> Record]
  /\ grant \in [Users \X Products -> Grant]
  /\ byHand \subseteq Licences
  /\ key \in [Licences -> Key]
  /\ line \in Line
  /\ late \subseteq Request
  /\ message \in [to : Users \cup {None}, shown : SUBSET Licences, vouched : SUBSET Licences]

\* A lost answer, a late request, two callers or a key nobody knows never give
\* a member a second licence for a product (club_vip.py:48-69).
NoSecondLicence ==
  \A u \in Users, p \in Products : Single(OnRecord(u, p))

\* What licence administrators stopped stays stopped, whatever the club
\* suspends, restores or provides, and the club never suspends a licence it did
\* not make (club_vip.py:39-47, 72-75).
AdministratorsDecide ==
  \A l \in Licences :
    /\ l \in byHand => licence[l].status # "active"
    /\ licence[l].status = "suspended" /\ ~licence[l].made => l \in byHand

\* A key the bot keeps as the club's is one the server manages for the same
\* member, through lost answers, restarts and the operators' own rows
\* (club_licenses.py:66-69).
ClubKeyIsGranted ==
  \A l \in Licences :
    key[l].status # "none" /\ key[l].plan = "club" =>
      LET g == grant[key[l].user, licence[l].product] IN g.licence = l /\ g.managed

\* A key that was revoked in the bot is issued again by an operator only, not
\* by a member who asks (club_licenses.py:66-68, keys.py:73-87).
RevokedKeyStaysRevoked ==
  [][\A l \in Licences :
       key[l].status = "revoked" /\ key'[l].status = "issued" =>
         \E u \in Users : OperatorIssues(l, u)]_vars

\* When the server answered, the member is sent no key of a granted licence the
\* server did not vouch for in that answer: one that was stopped, whatever the
\* bot's own rows say (club_licenses.py:70-75, telegram_updates.py:236).
ShownIsVouchedFor ==
  \A l \in message.shown \ message.vouched :
    grant[message.to, licence[l].product].licence # l
=============================================================================
