-------------------------- MODULE ClubLicencesProofs --------------------------
(***************************************************************************)
(* For any number of members, products and licences: the variables of      *)
(* ClubLicences keep their types, nobody gets a second licence, decisions   *)
(* of administrators stand, and the bot's keys agree with the grants.       *)
(***************************************************************************)
EXTENDS ClubLicences, TLAPS

---------------------------------------------------------------------------
(* The invariant.                                                          *)

\* A grant names a licence of its product; what the club manages it has made,
\* and it holds back only what it manages.
GrantsSane ==
  \A u \in Users, p \in Products :
    /\ grant[u, p].licence # None =>
         /\ licence[grant[u, p].licence].product = p
         /\ licence[grant[u, p].licence].status # "unused"
    /\ grant[u, p].held => grant[u, p].managed
    /\ grant[u, p].managed =>
         grant[u, p].licence # None /\ licence[grant[u, p].licence].made

\* What was stopped by hand is not active, and is not brought back by the club.
HandsSane ==
  \A l \in Licences :
    /\ l \in byHand => licence[l].status \in {"suspended", "revoked"}
    /\ licence[l].status = "suspended" /\ ~licence[l].made => l \in byHand
    /\ licence[l].status = "suspended" /\ Held(l) => l \notin byHand

ServerSane == GrantsSane /\ HandsSane /\ NoSecondLicence

\* Keys of the bot, and those it sends along, are keys of licences in use.
KeysSane ==
  \A l \in Licences : key[l].status # "none" =>
    licence[l].status # "unused" /\ key[l].user \in Users

Used(r) == \A l \in r.known : licence[l].status # "unused"
RequestsSane ==
  /\ line # Idle => line.request.action = "provision" /\ Used(line.request)
  /\ \A r \in late : Used(r)

\* An answer stays true: grants are never taken back.
Vouches(u, a) ==
  /\ \A l \in a.licences : grant[u, licence[l].product].licence = l
  /\ \A p \in Products \ a.unavailable : grant[u, p].licence \in a.licences
AnswerSane ==
  line.at = "answered" /\ line.answer.ok => Vouches(line.request.user, line.answer)

ClubInv ==
  /\ TypeOK /\ ServerSane /\ KeysSane /\ RequestsSane /\ AnswerSane
  /\ ClubKeyIsGranted /\ ShownIsVouchedFor

---------------------------------------------------------------------------
(* The server.                                                             *)

\* What a step of the server leaves alone.
Keeps ==
  /\ \A l \in Licences : licence[l].status # "unused" =>
       /\ licence'[l].status # "unused" /\ licence'[l].product = licence[l].product
       /\ licence'[l].user = licence[l].user /\ licence'[l].made = licence[l].made
  /\ \A u \in Users, p \in Products : grant[u, p].licence # None =>
       /\ grant'[u, p].licence = grant[u, p].licence
       /\ grant'[u, p].managed = grant[u, p].managed

Typed == licence' \in [Licences -> Record] /\ grant' \in [Users \X Products -> Grant]

LEMMA GrantTyped ==
  ASSUME TypeOK, NEW u \in Users, NEW p \in Products
  PROVE  /\ grant[u, p].licence \in Licences \cup {None}
         /\ grant[u, p].managed \in BOOLEAN /\ grant[u, p].held \in BOOLEAN
         /\ grant[u, p].code \in BOOLEAN
BY DEF TypeOK, Grant

LEMMA WithStatusKeeps ==
  ASSUME TypeOK, NEW ls, NEW from, NEW to \in {"active", "suspended"}
  PROVE  /\ WithStatus(ls, from, to) \in [Licences -> Record]
         /\ \A l \in Licences :
              LET n == WithStatus(ls, from, to)[l] IN
              /\ n.user = licence[l].user /\ n.product = licence[l].product
              /\ n.made = licence[l].made
              /\ n.status = IF l \in ls /\ licence[l].status = from THEN to ELSE licence[l].status
BY DEF WithStatus, TypeOK, Record

\* Licences suspended or restored for a member.
LEMMA SuspendSane ==
  ASSUME TypeOK, ServerSane, NEW u \in Users, Suspend(u), byHand' = byHand
  PROVE  Typed /\ Keeps /\ ServerSane'
<1>1. /\ Typed
      /\ \A l \in Licences :
           /\ licence'[l].user = licence[l].user /\ licence'[l].product = licence[l].product
           /\ licence'[l].made = licence[l].made
           /\ licence'[l].status = IF l \in ManagedOf(u) /\ licence[l].status = "active"
                                   THEN "suspended" ELSE licence[l].status
  <2>1. licence' = WithStatus(ManagedOf(u), "active", "suspended")
    BY DEF Suspend
  <2>2. grant' \in [Users \X Products -> Grant]
    <3>1. grant \in [Users \X Products -> Grant]
      BY DEF TypeOK
    <3>2. \A g \in Grant : [g EXCEPT !.held = TRUE] \in Grant
      BY DEF Grant
    <3> QED BY <3>1, <3>2 DEF Suspend
  <2> QED BY <2>1, <2>2, WithStatusKeeps DEF Typed
<1>2. \A v \in Users, p \in Products :
        /\ grant'[v, p].licence = grant[v, p].licence /\ grant'[v, p].managed = grant[v, p].managed
        /\ grant'[v, p].held =
             \/ grant[v, p].held
             \/ v = u /\ grant[v, p].managed /\ licence[grant[v, p].licence].status = "active"
  BY GrantTyped DEF Suspend, TypeOK, Grant
<1>3. Keeps
  BY <1>1, <1>2 DEF Keeps, TypeOK, Record
<1>4. GrantsSane'
  <2> SUFFICES ASSUME NEW v \in Users, NEW p \in Products
      PROVE /\ grant'[v, p].licence # None =>
                 /\ licence'[grant'[v, p].licence].product = p
                 /\ licence'[grant'[v, p].licence].status # "unused"
            /\ grant'[v, p].held => grant'[v, p].managed
            /\ grant'[v, p].managed =>
                 grant'[v, p].licence # None /\ licence'[grant'[v, p].licence].made
    BY DEF GrantsSane
  <2>1. grant'[v, p].licence = grant[v, p].licence /\ grant'[v, p].managed = grant[v, p].managed
    BY <1>2
  <2>2. CASE grant[v, p].licence = None
    BY <1>2, <2>1, <2>2 DEF ServerSane, GrantsSane
  <2>3. CASE grant[v, p].licence # None
    <3>1. grant[v, p].licence \in Licences
      BY <2>3, GrantTyped
    <3>2. /\ licence[grant[v, p].licence].product = p
          /\ licence[grant[v, p].licence].status # "unused"
          /\ grant[v, p].managed => licence[grant[v, p].licence].made
          /\ grant[v, p].held => grant[v, p].managed
      BY <2>3 DEF ServerSane, GrantsSane
    <3>3. grant'[v, p].held => grant'[v, p].managed
      BY <1>2, <2>1, <3>2
    <3>4. /\ licence'[grant[v, p].licence].product = p
          /\ licence'[grant[v, p].licence].status # "unused"
          /\ licence'[grant[v, p].licence].made = licence[grant[v, p].licence].made
      BY <1>1, <3>1, <3>2
    <3> QED BY <2>1, <2>3, <3>2, <3>3, <3>4
  <2> QED BY <2>2, <2>3
<1>5. \A l \in ManagedOf(u) : l \in Licences => licence[l].made
  <2>1. \A q \in Products : grant[u, q].managed => licence[grant[u, q].licence].made
    BY DEF ServerSane, GrantsSane
  <2> QED BY <2>1 DEF ManagedOf
<1>6. ASSUME NEW l \in Licences, Held(l)' PROVE Held(l) \/ licence[l].status = "active"
  <2>1. PICK v \in Users, p \in Products : grant'[v, p].licence = l /\ grant'[v, p].held
    BY <1>6 DEF Held
  <2>2. grant[v, p].licence = l /\ (grant[v, p].held \/ licence[l].status = "active")
    BY <1>2, <2>1
  <2> QED BY <2>2 DEF Held
<1>7. HandsSane'
  <2> SUFFICES ASSUME NEW l \in Licences
      PROVE /\ l \in byHand' => licence'[l].status \in {"suspended", "revoked"}
            /\ licence'[l].status = "suspended" /\ ~licence'[l].made => l \in byHand'
            /\ licence'[l].status = "suspended" /\ Held(l)' => l \notin byHand'
    BY DEF HandsSane
  <2> QED BY <1>1, <1>5, <1>6 DEF ServerSane, HandsSane
<1>8. \A v \in Users, p \in Products : OnRecord(v, p)' = OnRecord(v, p)
  BY <1>1 DEF OnRecord, Unused
<1>9. NoSecondLicence'
  BY <1>8 DEF ServerSane, NoSecondLicence, Single
<1> QED BY <1>1, <1>3, <1>4, <1>7, <1>9 DEF ServerSane

LEMMA RestoreSane ==
  ASSUME TypeOK, ServerSane, NEW u \in Users, Restore(u), byHand' = byHand
  PROVE  Typed /\ Keeps /\ ServerSane'
<1>1. /\ Typed
      /\ \A l \in Licences :
           /\ licence'[l].user = licence[l].user /\ licence'[l].product = licence[l].product
           /\ licence'[l].made = licence[l].made
           /\ licence'[l].status = IF /\ l \in ManagedOf(u) \cap HeldOf(u)
                                      /\ licence[l].status = "suspended"
                                   THEN "active" ELSE licence[l].status
  <2>1. licence' = WithStatus(ManagedOf(u) \cap HeldOf(u), "suspended", "active")
    BY DEF Restore
  <2>2. grant' \in [Users \X Products -> Grant]
    <3>1. grant \in [Users \X Products -> Grant]
      BY DEF TypeOK
    <3>2. \A g \in Grant : [g EXCEPT !.held = FALSE] \in Grant
      BY DEF Grant
    <3> QED BY <3>1, <3>2 DEF Restore
  <2> QED BY <2>1, <2>2, WithStatusKeeps DEF Typed
<1>2. \A v \in Users, p \in Products :
        /\ grant'[v, p].licence = grant[v, p].licence /\ grant'[v, p].managed = grant[v, p].managed
        /\ grant'[v, p].held => grant[v, p].held
  BY GrantTyped DEF Restore, TypeOK, Grant
<1>3. Keeps
  BY <1>1, <1>2 DEF Keeps, TypeOK, Record
<1>4. GrantsSane'
  <2> SUFFICES ASSUME NEW v \in Users, NEW p \in Products
      PROVE /\ grant'[v, p].licence # None =>
                 /\ licence'[grant'[v, p].licence].product = p
                 /\ licence'[grant'[v, p].licence].status # "unused"
            /\ grant'[v, p].held => grant'[v, p].managed
            /\ grant'[v, p].managed =>
                 grant'[v, p].licence # None /\ licence'[grant'[v, p].licence].made
    BY DEF GrantsSane
  <2>1. grant'[v, p].licence = grant[v, p].licence /\ grant'[v, p].managed = grant[v, p].managed
    BY <1>2
  <2>2. CASE grant[v, p].licence = None
    BY <1>2, <2>1, <2>2 DEF ServerSane, GrantsSane
  <2>3. CASE grant[v, p].licence # None
    <3>1. grant[v, p].licence \in Licences
      BY <2>3, GrantTyped
    <3>2. /\ licence[grant[v, p].licence].product = p
          /\ licence[grant[v, p].licence].status # "unused"
          /\ grant[v, p].managed => licence[grant[v, p].licence].made
          /\ grant[v, p].held => grant[v, p].managed
      BY <2>3 DEF ServerSane, GrantsSane
    <3>3. grant'[v, p].held => grant'[v, p].managed
      BY <1>2, <2>1, <3>2
    <3>4. /\ licence'[grant[v, p].licence].product = p
          /\ licence'[grant[v, p].licence].status # "unused"
          /\ licence'[grant[v, p].licence].made = licence[grant[v, p].licence].made
      BY <1>1, <3>1, <3>2
    <3> QED BY <2>1, <2>3, <3>2, <3>3, <3>4
  <2> QED BY <2>2, <2>3
<1>5. \A l \in HeldOf(u) : l \in Licences => Held(l)
  BY DEF HeldOf, Held
<1>6. ASSUME NEW l \in Licences, Held(l)' PROVE Held(l)
  <2>1. PICK v \in Users, p \in Products : grant'[v, p].licence = l /\ grant'[v, p].held
    BY <1>6 DEF Held
  <2>2. grant[v, p].licence = l /\ grant[v, p].held
    BY <1>2, <2>1
  <2> QED BY <2>2 DEF Held
<1>7. HandsSane'
  <2> SUFFICES ASSUME NEW l \in Licences
      PROVE /\ l \in byHand' => licence'[l].status \in {"suspended", "revoked"}
            /\ licence'[l].status = "suspended" /\ ~licence'[l].made => l \in byHand'
            /\ licence'[l].status = "suspended" /\ Held(l)' => l \notin byHand'
    BY DEF HandsSane
  <2> QED BY <1>1, <1>5, <1>6 DEF ServerSane, HandsSane
<1>8. \A v \in Users, p \in Products : OnRecord(v, p)' = OnRecord(v, p)
  BY <1>1 DEF OnRecord, Unused
<1>9. NoSecondLicence'
  BY <1>8 DEF ServerSane, NoSecondLicence, Single
<1> QED BY <1>1, <1>3, <1>4, <1>7, <1>9 DEF ServerSane

\* Licences adopted, made, and given back to a member who asks.
LEMMA ProvisionSane ==
  ASSUME TypeOK, ServerSane, NEW r \in Request, Used(r), NEW answer \in Answer,
         Provision(r, answer), byHand' = byHand
  PROVE  Typed /\ Keeps /\ ServerSane' /\ (answer.ok => Vouches(r.user, answer)')
<1> DEFINE u == r.user
           Fresh == Missing(u) \ (Adopted(r) \cup Historic(r))
<1>0. u \in Users /\ r.known \subseteq Licences
  BY DEF Request
<1>1. PICK known \in [Adopted(r) -> r.known], new \in Injection(Fresh, Unused) :
        /\ \A p \in Adopted(r) : known[p] \in Candidates(r, p)
        /\ IF Granted \cap Range(known) # {}
           THEN answer = Rejection /\ UNCHANGED server
           ELSE /\ licence' = Provided(u, new)
                /\ grant' = Reactivated(u, Grants(u, known, new))
                /\ answer = AnswerFor(u, licence', grant')
  BY DEF Provision
<1>2. CASE Granted \cap Range(known) # {}
  <2>1. UNCHANGED <<licence, grant, byHand>> /\ answer.ok = FALSE
    BY <1>1, <1>2 DEF server, Rejection
  <2>2. Typed /\ Keeps
    BY <2>1 DEF Typed, Keeps, TypeOK
  <2>3. GrantsSane' /\ HandsSane'
    BY <2>1 DEF ServerSane, GrantsSane, HandsSane, Held
  <2>4. NoSecondLicence'
    BY <2>1 DEF ServerSane, NoSecondLicence, OnRecord, Unused
  <2> QED BY <2>1, <2>2, <2>3, <2>4 DEF ServerSane
<1>3. CASE Granted \cap Range(known) = {}
  <2> DEFINE Back == ManagedOf(u) \cap HeldOf(u)
  <2>1. /\ licence' = Provided(u, new)
        /\ grant' = Reactivated(u, Grants(u, known, new))
        /\ answer = AnswerFor(u, licence', grant')
    BY <1>1, <1>3
  <2>2. /\ new \in [Fresh -> Unused] /\ \A p, q \in Fresh : new[p] = new[q] => p = q
        /\ DOMAIN new = Fresh /\ DOMAIN known = Adopted(r)
        /\ \A p \in Fresh : /\ p \in Products /\ grant[u, p].licence = None
                             /\ p \notin Adopted(r) /\ OnRecord(u, p) = {}
        /\ \A p \in Adopted(r) : p \in Products /\ grant[u, p].licence = None
    <3>1. new \in [Fresh -> Unused] /\ \A p, q \in Fresh : new[p] = new[q] => p = q
      BY <1>1 DEF Injection, IsInjective
    <3>2. \A p \in Fresh : /\ p \in Products /\ grant[u, p].licence = None
                           /\ p \notin Adopted(r) /\ OnRecord(u, p) = {}
      BY DEF Missing, Historic
    <3>3. \A p \in Adopted(r) : p \in Products /\ grant[u, p].licence = None
      BY DEF Missing, Adopted
    <3> QED BY <3>1, <3>2, <3>3
  <2> HIDE DEF Fresh, Back
  \* The licences.
  <2>3. ASSUME NEW p \in Fresh
        PROVE  /\ new[p] \in Licences /\ new[p] # None /\ licence[new[p]].status = "unused"
               /\ licence'[new[p]] \in Record /\ licence'[new[p]].status = "active"
               /\ licence'[new[p]].user = u /\ licence'[new[p]].made
               /\ licence'[new[p]].product = p
    <3>1. new[p] \in Licences /\ licence[new[p]].status = "unused"
      BY <2>2 DEF Unused
    <3>2. \A q \in Fresh : new[q] = new[p] => q = p
      BY <2>2
    <3>3. \E q \in DOMAIN new : new[q] = new[p]
      BY <2>2
    <3>4. (CHOOSE q \in DOMAIN new : new[q] = new[p]) = p
      BY <2>2, <3>2
    <3>5. licence'[new[p]] = [status |-> "active", user |-> u, made |-> TRUE, product |-> p]
      BY <2>1, <3>1, <3>3, <3>4 DEF Provided
    <3>6. p \in Products
      BY <2>2
    <3>7. [status |-> "active", user |-> u, made |-> TRUE, product |-> p] \in Record
      BY <1>0, <3>6 DEF Record
    <3>8. licence'[new[p]] \in Record
      BY <3>5, <3>7
    <3>9. /\ licence'[new[p]].status = "active" /\ licence'[new[p]].user = u
          /\ licence'[new[p]].made /\ licence'[new[p]].product = p
      BY <3>5
    <3> QED BY <3>1, <3>8, <3>9, NoneAssumption
  <2>4. ASSUME NEW l \in Licences, \A p \in Fresh : new[p] # l
        PROVE  /\ licence'[l] \in Record
               /\ licence'[l].user = licence[l].user /\ licence'[l].product = licence[l].product
               /\ licence'[l].made = licence[l].made
               /\ licence'[l].status = IF l \in Back /\ licence[l].status = "suspended"
                                       THEN "active" ELSE licence[l].status
    <3>1. licence'[l] = WithStatus(Back, "suspended", "active")[l]
      BY <2>1, <2>2, <2>4 DEF Provided, Back
    <3> HIDE DEF u
    <3>2. /\ WithStatus(Back, "suspended", "active") \in [Licences -> Record]
          /\ \A m \in Licences :
              LET n == WithStatus(Back, "suspended", "active")[m] IN
              /\ n.user = licence[m].user /\ n.product = licence[m].product
              /\ n.made = licence[m].made
              /\ n.status = IF m \in Back /\ licence[m].status = "suspended"
                            THEN "active" ELSE licence[m].status
      BY WithStatusKeeps
    <3> QED BY <3>1, <3>2
  <2>5. licence' \in [Licences -> Record]
    <3>1. ASSUME NEW p \in Fresh PROVE licence'[new[p]] \in Record
      BY <2>3
    <3>2. ASSUME NEW l \in Licences PROVE licence'[l] \in Record
      <4>1. CASE \E p \in Fresh : new[p] = l
        BY <3>1, <4>1
      <4>2. CASE \A p \in Fresh : new[p] # l
        BY <2>4, <4>2
      <4> QED BY <4>1, <4>2
    <3>3. licence' = [l \in Licences |-> licence'[l]]
      BY <2>1 DEF Provided
    <3> QED BY <3>2, <3>3
  \* The grants.
  <2> DEFINE Kept(v, p) == /\ grant'[v, p].licence = grant[v, p].licence
                           /\ grant'[v, p].managed = grant[v, p].managed
                           /\ grant'[v, p].held => grant[v, p].held
             Taken(v, p) == /\ v = u /\ p \in Adopted(r) /\ grant[v, p].licence = None
                            /\ grant'[v, p].licence = known[p]
                            /\ ~grant'[v, p].managed /\ ~grant'[v, p].held
             Given(v, p) == /\ v = u /\ p \in Fresh /\ grant[v, p].licence = None
                            /\ grant'[v, p].licence = new[p]
                            /\ grant'[v, p].managed /\ ~grant'[v, p].held
  <2>6. ASSUME NEW v \in Users, NEW p \in Products
        PROVE  grant'[v, p] \in Grant /\ (Kept(v, p) \/ Taken(v, p) \/ Given(v, p))
    <3> DEFINE g == Grants(u, known, new)
    <3>1. /\ grant'[v, p] \in {g[v, p], [g[v, p] EXCEPT !.held = FALSE]}
          /\ ~g[v, p].held => grant'[v, p] = g[v, p]
      BY <2>1 DEF Reactivated
    <3> HIDE DEF g
    <3>2. CASE v # u \/ p \notin Adopted(r) \cup Fresh
      <4>1. g[v, p] = grant[v, p]
        BY <2>2, <3>2 DEF Grants, g
      <4>2. grant[v, p] \in Grant
        BY DEF TypeOK
      <4> QED BY <3>1, <4>1, <4>2 DEF Grant
    <3>3. CASE v = u /\ p \in Adopted(r)
      <4> DEFINE row == [licence |-> known[p], managed |-> FALSE, held |-> FALSE, code |-> TRUE]
      <4>1. g[v, p] = row
        BY <2>2, <3>3 DEF Grants, g
      <4>2. grant[v, p].licence = None /\ known[p] \in Licences
        BY <1>0, <1>1, <2>2, <3>3
      <4>3. row \in Grant
        BY <4>2 DEF Grant
      <4>4. row.licence = known[p] /\ ~row.managed /\ ~row.held
        OBVIOUS
      <4> HIDE DEF row
      <4>5. grant'[v, p] = row
        BY <3>1, <4>1, <4>4
      <4> QED BY <3>3, <4>2, <4>3, <4>4, <4>5
    <3>4. CASE v = u /\ p \in Fresh
      <4> DEFINE row == [licence |-> new[p], managed |-> TRUE, held |-> FALSE, code |-> TRUE]
      <4>1. g[v, p] = row
        BY <2>2, <3>4 DEF Grants, g
      <4>2. grant[v, p].licence = None /\ new[p] \in Licences
        BY <2>2, <2>3, <3>4
      <4>3. row \in Grant
        BY <4>2 DEF Grant
      <4>4. row.licence = new[p] /\ row.managed /\ ~row.held
        OBVIOUS
      <4> HIDE DEF row
      <4>5. grant'[v, p] = row
        BY <3>1, <4>1, <4>4
      <4> QED BY <3>4, <4>2, <4>3, <4>4, <4>5
    <3> QED BY <3>2, <3>3, <3>4
  <2>7. Typed
    <3>1. grant' = [x \in Users \X Products |-> grant'[x]]
      BY <2>1 DEF Reactivated
    <3>2. ASSUME NEW x \in Users \X Products PROVE grant'[x] \in Grant
      <4>1. PICK v \in Users, p \in Products : x = <<v, p>>
        OBVIOUS
      <4> QED BY <2>6, <4>1
    <3> HIDE DEF u
    <3> QED BY <2>5, <3>1, <3>2 DEF Typed
  <2>8. Keeps
    <3>1. ASSUME NEW l \in Licences, licence[l].status # "unused"
          PROVE  /\ licence'[l].status # "unused" /\ licence'[l].product = licence[l].product
                 /\ licence'[l].user = licence[l].user /\ licence'[l].made = licence[l].made
      <4>1. \A p \in Fresh : new[p] # l
        BY <2>3, <3>1
      <4> QED BY <2>4, <3>1, <4>1
    <3> QED BY <2>6, <3>1 DEF Keeps
  <2>9. GrantsSane'
    <3> SUFFICES ASSUME NEW v \in Users, NEW p \in Products
        PROVE /\ grant'[v, p].licence # None =>
                   /\ licence'[grant'[v, p].licence].product = p
                   /\ licence'[grant'[v, p].licence].status # "unused"
              /\ grant'[v, p].held => grant'[v, p].managed
              /\ grant'[v, p].managed =>
                   grant'[v, p].licence # None /\ licence'[grant'[v, p].licence].made
      BY DEF GrantsSane
    <3>1. CASE Kept(v, p)
      <4>1. /\ grant[v, p].held => grant[v, p].managed
            /\ grant[v, p].managed => grant[v, p].licence # None
        BY DEF ServerSane, GrantsSane
      <4>2. CASE grant[v, p].licence = None
        BY <3>1, <4>1, <4>2
      <4>3. CASE grant[v, p].licence # None
        <5> DEFINE l == grant[v, p].licence
        <5>1. /\ l \in Licences /\ licence[l].product = p /\ licence[l].status # "unused"
              /\ grant[v, p].managed => licence[l].made
          BY <4>3, GrantTyped DEF ServerSane, GrantsSane
        <5>2. /\ licence'[l].status # "unused" /\ licence'[l].product = p
              /\ licence'[l].made = licence[l].made
          BY <2>8, <5>1 DEF Keeps
        <5>3. grant'[v, p].managed => licence'[l].made
          BY <3>1, <5>1, <5>2
        <5>4. grant'[v, p].held => grant'[v, p].managed
          BY <3>1, <4>1
        <5> QED BY <3>1, <4>3, <5>2, <5>3, <5>4
      <4> QED BY <4>2, <4>3
    <3>2. CASE Taken(v, p)
      <4> HIDE DEF u
      <4>1. known[p] \in r.known /\ known[p] \in Licences /\ licence[known[p]].product = p
        BY <1>0, <1>1, <3>2 DEF Candidates
      <4>2. licence[known[p]].status # "unused"
        BY <4>1 DEF Used
      <4>3. licence'[known[p]].status # "unused" /\ licence'[known[p]].product = p
        BY <2>8, <4>1, <4>2 DEF Keeps
      <4> QED BY <3>2, <4>3
    <3>3. CASE Given(v, p)
      <4>1. /\ new[p] # None /\ licence'[new[p]].product = p
            /\ licence'[new[p]].status = "active" /\ licence'[new[p]].made
        BY <2>3, <3>3
      <4> QED BY <3>3, <4>1
    <3> HIDE DEF Kept, Taken, Given
    <3> QED BY <2>6, <3>1, <3>2, <3>3
  <2>10. HandsSane'
    <3> SUFFICES ASSUME NEW l \in Licences
        PROVE /\ l \in byHand' => licence'[l].status \in {"suspended", "revoked"}
              /\ licence'[l].status = "suspended" /\ ~licence'[l].made => l \in byHand'
              /\ licence'[l].status = "suspended" /\ Held(l)' => l \notin byHand'
      BY DEF HandsSane
    <3>1. CASE \E p \in Fresh : new[p] = l
      <4>1. licence[l].status = "unused" /\ licence'[l].status = "active"
        BY <2>3, <3>1
      <4>2. l \notin byHand
        BY <4>1 DEF ServerSane, HandsSane
      <4> QED BY <4>1, <4>2
    <3>2. CASE \A p \in Fresh : new[p] # l
      <4>1. Held(l)' => Held(l)
        <5> SUFFICES ASSUME NEW v \in Users, NEW p \in Products,
                            grant'[v, p].licence = l, grant'[v, p].held
                     PROVE  grant[v, p].licence = l /\ grant[v, p].held
          BY DEF Held
        <5> QED BY <2>6
      <4>2. l \in HeldOf(u) => Held(l)
        BY <1>0 DEF HeldOf, Held
      <4>3. licence'[l].made = licence[l].made
        BY <2>4, <3>2
      <4>4. licence'[l].status = IF l \in Back /\ licence[l].status = "suspended"
                                 THEN "active" ELSE licence[l].status
        BY <2>4, <3>2
      <4>5. licence'[l].status = "suspended" => licence[l].status = "suspended"
        BY <4>4
      <4>6. licence'[l].status = "suspended" /\ ~licence'[l].made => l \in byHand
        BY <4>3, <4>5 DEF ServerSane, HandsSane
      <4>7. licence'[l].status = "suspended" /\ Held(l)' => l \notin byHand
        BY <4>1, <4>5 DEF ServerSane, HandsSane
      <4>8. l \in byHand => licence'[l].status \in {"suspended", "revoked"}
        BY <4>2, <4>4 DEF ServerSane, HandsSane, Back
      <4> QED BY <4>6, <4>7, <4>8
    <3> QED BY <3>1, <3>2
  <2>11. NoSecondLicence'
    <3> SUFFICES ASSUME NEW v \in Users, NEW p \in Products,
                        NEW l \in OnRecord(v, p)', NEW m \in OnRecord(v, p)'
                 PROVE  l = m
      BY DEF NoSecondLicence, Single
    \* Only a product without a licence on record is given a fresh one.
    <3>1. ASSUME NEW k \in OnRecord(v, p)'
          PROVE  \/ k \in OnRecord(v, p)
                 \/ v = u /\ p \in Fresh /\ k = new[p]
      <4>1. /\ k \in Licences /\ licence'[k].status # "unused" /\ licence'[k].user = v
            /\ licence'[k].product = p
        BY <3>1 DEF OnRecord, Unused
      <4>2. CASE \E q \in Fresh : new[q] = k
        <5>1. PICK q \in Fresh : new[q] = k
          BY <4>2
        <5>2. licence'[k].user = u /\ licence'[k].product = q
          BY <2>3, <5>1
        <5> QED BY <4>1, <5>1, <5>2
      <4>3. CASE \A q \in Fresh : new[q] # k
        <5>1. /\ licence'[k].user = licence[k].user /\ licence'[k].product = licence[k].product
              /\ licence[k].status = "unused" => licence'[k].status = "unused"
          BY <2>4, <4>1, <4>3
        <5> QED BY <4>1, <5>1 DEF OnRecord, Unused
      <4> QED BY <4>2, <4>3
    <3>2. v = u /\ p \in Fresh => OnRecord(v, p) = {}
      BY <2>2
    <3>3. \A i, j \in OnRecord(v, p) : i = j
      BY DEF ServerSane, NoSecondLicence, Single
    <3> QED BY <3>1, <3>2, <3>3
  <2>12. Vouches(u, answer)'
    <3> DEFINE usable == {p \in Products : /\ grant'[u, p].licence # None /\ grant'[u, p].code
                                           /\ licence'[grant'[u, p].licence].status = "active"}
    <3>1. /\ answer.licences = {grant'[u, p].licence : p \in usable}
          /\ answer.unavailable = Products \ usable
      BY <2>1 DEF AnswerFor
    <3>2. \A p \in usable : licence'[grant'[u, p].licence].product = p
      BY <1>0, <2>9 DEF GrantsSane
    <3>3. \A p \in Products \ answer.unavailable : p \in usable
      BY <3>1
    <3>4. \A p \in usable : grant'[u, p].licence \in answer.licences
      BY <3>1
    <3>5. \A l \in answer.licences : grant'[u, licence'[l].product].licence = l
      BY <3>1, <3>2
    <3> HIDE DEF usable
    <3> QED BY <3>3, <3>4, <3>5 DEF Vouches
  <2> QED BY <2>7, <2>8, <2>9, <2>10, <2>11, <2>12 DEF ServerSane
<1> QED BY <1>2, <1>3

\* Any request.
LEMMA ServedSane ==
  ASSUME TypeOK, ServerSane, NEW r \in Request, Used(r), NEW answer \in Answer,
         Served(r, answer), byHand' = byHand
  PROVE  /\ Typed /\ Keeps /\ ServerSane'
         /\ r.action = "provision" /\ answer.ok => Vouches(r.user, answer)'
<1>1. r.user \in Users
  BY DEF Request
<1> QED BY <1>1, ProvisionSane, SuspendSane, RestoreSane DEF Served

---------------------------------------------------------------------------
(* The steps.                                                              *)

LEMMA LineTyped ==
  ASSUME TypeOK
  PROVE  /\ line = Idle => line.at = "idle"
         /\ line.at \in {"sent", "answered"} => line # Idle /\ line.request \in Request
         /\ line # Idle => line.at \in {"sent", "answered"}
         /\ line.at = "answered" => line.answer \in Answer
<1>1. CASE line = Idle
  BY <1>1 DEF Idle
<1>2. CASE line \in [at : {"sent"}, request : Request]
  BY <1>2 DEF Idle
<1>3. CASE line \in [at : {"answered"}, request : Request, answer : Answer]
  BY <1>3 DEF Idle
<1> QED BY <1>1, <1>2, <1>3 DEF TypeOK, Line

\* The bot's state after a step of the server that writes no key.
LEMMA ServerStep ==
  ASSUME ClubInv, Typed, Keeps, ServerSane', UNCHANGED key, Silent
  PROVE  /\ KeysSane' /\ ClubKeyIsGranted' /\ ShownIsVouchedFor'
         /\ message' \in [to : Users \cup {None}, shown : SUBSET Licences,
                          vouched : SUBSET Licences]
         /\ \A r \in Request : Used(r) => Used(r)'
         /\ AnswerSane /\ line' = line => AnswerSane'
<1>1. KeysSane'
  BY DEF ClubInv, KeysSane, Keeps
<1>2. ClubKeyIsGranted'
  <2> SUFFICES ASSUME NEW l \in Licences, key[l].status # "none", key[l].plan = "club"
      PROVE  /\ grant'[key[l].user, licence'[l].product].licence = l
             /\ grant'[key[l].user, licence'[l].product].managed
    BY DEF ClubKeyIsGranted
  <2>1. licence[l].status # "unused" /\ key[l].user \in Users /\ licence[l].product \in Products
    BY DEF ClubInv, KeysSane, TypeOK, Record
  <2>2. /\ grant[key[l].user, licence[l].product].licence = l
        /\ grant[key[l].user, licence[l].product].managed
    BY DEF ClubInv, ClubKeyIsGranted
  <2>3. licence'[l].product = licence[l].product
    BY <2>1 DEF Keeps
  <2>4. PICK u \in Users, p \in Products : u = key[l].user /\ p = licence[l].product
    BY <2>1
  <2>5. grant[u, p].licence = l /\ grant[u, p].managed /\ l # None
    BY <2>2, <2>4, NoneAssumption
  <2>6. grant'[u, p].licence = l /\ grant'[u, p].managed
    BY <2>5 DEF Keeps
  <2> QED BY <2>3, <2>4, <2>6
<1>3. ShownIsVouchedFor'
  BY DEF Silent, Nothing, ShownIsVouchedFor
<1>4. message' \in [to : Users \cup {None}, shown : SUBSET Licences,
                    vouched : SUBSET Licences]
  BY DEF Silent, Nothing
<1>5. ASSUME NEW r \in Request, Used(r) PROVE Used(r)'
  BY <1>5 DEF Used, Request, Keeps
<1>6. ASSUME AnswerSane, line' = line PROVE AnswerSane'
  <2> SUFFICES ASSUME line.at = "answered", line.answer.ok
      PROVE  Vouches(line.request.user, line.answer)'
    BY <1>6 DEF AnswerSane
  <2> DEFINE u == line.request.user
             a == line.answer
  <2>1. u \in Users /\ a.licences \subseteq Licences /\ a.unavailable \subseteq Products
    BY LineTyped DEF ClubInv, Request, Answer
  <2>2. Vouches(u, a)
    BY <1>6 DEF AnswerSane
  <2>3. line' = line
    BY <1>6
  <2> HIDE DEF u, a
  <2>4. ASSUME NEW l \in a.licences
        PROVE  grant'[u, licence'[l].product].licence = l
    <3>1. l \in Licences /\ l # None
      BY <2>1, NoneAssumption
    <3>2. licence[l].product \in Products
      BY <2>1, <3>1 DEF ClubInv, TypeOK, Record
    <3>3. grant[u, licence[l].product].licence = l
      BY <2>2 DEF Vouches
    <3>4. licence[l].status # "unused"
      <4>1. GrantsSane
        BY DEF ClubInv, ServerSane
      <4> QED BY <2>1, <3>1, <3>2, <3>3, <4>1 DEF GrantsSane
    <3>5. licence'[l].product = licence[l].product
      BY <2>1, <3>1, <3>4 DEF Keeps
    <3>6. grant'[u, licence[l].product].licence = grant[u, licence[l].product].licence
      BY <2>1, <3>1, <3>2, <3>3 DEF Keeps
    <3> QED BY <3>3, <3>5, <3>6
  <2>5. ASSUME NEW p \in Products \ a.unavailable
        PROVE  grant'[u, p].licence \in a.licences
    <3>1. grant[u, p].licence \in a.licences
      BY <2>2 DEF Vouches
    <3>2. grant[u, p].licence # None
      BY <2>1, <3>1, NoneAssumption
    <3> QED BY <2>1, <3>1, <3>2 DEF Keeps
  <2> QED BY <2>3, <2>4, <2>5 DEF Vouches, u, a
<1> QED BY <1>1, <1>2, <1>3, <1>4, <1>5, <1>6

\* What a step of the bot that leaves server and keys alone has to show.
LEMMA SilentStep ==
  ASSUME ClubInv, UNCHANGED <<server, byHand, key>>, Silent
  PROVE  /\ Typed /\ ServerSane' /\ KeysSane' /\ ClubKeyIsGranted' /\ ShownIsVouchedFor'
         /\ message' \in [to : Users \cup {None}, shown : SUBSET Licences,
                          vouched : SUBSET Licences]
         /\ byHand' \subseteq Licences /\ key' \in [Licences -> Key]
         /\ \A r : Used(r) => Used(r)'
         /\ line' = line => AnswerSane'
<1>1. licence' = licence /\ grant' = grant /\ byHand' = byHand /\ key' = key
  BY DEF server
<1>2. Typed /\ byHand' \subseteq Licences /\ key' \in [Licences -> Key]
  BY <1>1 DEF Typed, ClubInv, TypeOK
<1>3. ServerSane'
  BY <1>1 DEF ClubInv, ServerSane, GrantsSane, HandsSane, NoSecondLicence, Held, OnRecord, Unused
<1>4. KeysSane' /\ ClubKeyIsGranted'
  BY <1>1 DEF ClubInv, KeysSane, ClubKeyIsGranted
<1>5. /\ ShownIsVouchedFor'
      /\ message' \in [to : Users \cup {None}, shown : SUBSET Licences,
                       vouched : SUBSET Licences]
  BY DEF Silent, Nothing, ShownIsVouchedFor
<1>6. \A r : Used(r) => Used(r)'
  BY <1>1 DEF Used
<1>7. line' = line => AnswerSane'
  BY <1>1 DEF ClubInv, AnswerSane, Vouches
<1> QED BY <1>2, <1>3, <1>4, <1>5, <1>6, <1>7

LEMMA AskStep ==
  ASSUME ClubInv, NEW u \in Users, Ask(u)
  PROVE  ClubInv'
<1> DEFINE r == [user |-> u, action |-> "provision", known |-> Issued(key, u)]
<1>1. /\ UNCHANGED <<server, byHand, key, late>> /\ Silent
      /\ line' = [at |-> "sent", request |-> r]
  BY DEF Ask
<1>2. r \in Request /\ Used(r) /\ r.action = "provision"
  BY DEF Request, Issued, Used, ClubInv, KeysSane
<1> HIDE DEF r
<1>3. TypeOK'
  BY <1>1, <1>2, SilentStep DEF ClubInv, TypeOK, Typed, Line
<1>4. line'.at = "sent" /\ line'.request = r
  BY <1>1
<1>5. RequestsSane' /\ AnswerSane'
  BY <1>1, <1>2, <1>4, SilentStep DEF ClubInv, RequestsSane, AnswerSane
<1> QED BY <1>1, <1>3, <1>5, SilentStep DEF ClubInv

LEMMA SwitchStep ==
  ASSUME ClubInv, NEW u \in Users, NEW action \in {"suspend", "restore"}, Switch(u, action)
  PROVE  ClubInv'
<1> DEFINE r == [user |-> u, action |-> action, known |-> {}]
<1>1. UNCHANGED <<server, byHand, key, line>> /\ Silent /\ late' = late \cup {r}
  BY DEF Switch
<1>2. r \in Request /\ Used(r)
  BY DEF Request, Used
<1> HIDE DEF r
<1>3. TypeOK'
  BY <1>1, <1>2, SilentStep DEF ClubInv, TypeOK, Typed
<1>4. RequestsSane'
  BY <1>1, <1>2, SilentStep DEF ClubInv, RequestsSane
<1> QED BY <1>1, <1>3, <1>4, SilentStep DEF ClubInv

LEMMA LoseStep ==
  ASSUME ClubInv, NEW r \in late, Lose(r)
  PROVE  ClubInv'
<1>1. UNCHANGED <<server, byHand, key, line>> /\ Silent /\ late' = late \ {r}
  BY DEF Lose
<1>2. TypeOK'
  BY <1>1, SilentStep DEF ClubInv, TypeOK, Typed
<1>3. RequestsSane'
  BY <1>1, SilentStep DEF ClubInv, RequestsSane
<1> QED BY <1>1, <1>2, <1>3, SilentStep DEF ClubInv

LEMMA IdleStep ==
  ASSUME ClubInv, GetsNoAnswer \/ GivesUp \/ RefuseAnswer
  PROVE  ClubInv'
<1>1. /\ UNCHANGED <<server, byHand, key>> /\ Silent
      /\ line' = Idle /\ late' \subseteq late \cup {line.request} /\ line # Idle
      /\ late' = late \/ line.at = "sent"
  BY LineTyped DEF GetsNoAnswer, GivesUp, RefuseAnswer, ClubInv
<1>2. line.request \in Request /\ Used(line.request)
  BY <1>1, LineTyped DEF ClubInv, RequestsSane
<1>3. TypeOK'
  BY <1>1, <1>2, SilentStep DEF ClubInv, TypeOK, Typed, Line
<1>4. RequestsSane' /\ AnswerSane'
  BY <1>1, <1>2, SilentStep DEF ClubInv, RequestsSane, AnswerSane, Idle
<1> QED BY <1>1, <1>3, <1>4, SilentStep DEF ClubInv

LEMMA ServeStep ==
  ASSUME ClubInv, Serve
  PROVE  ClubInv'
<1>1. /\ line.at = "sent" /\ UNCHANGED <<byHand, key, late>> /\ Silent
  BY DEF Serve
<1>2. PICK r \in Request : r = line.request
  BY <1>1, LineTyped DEF ClubInv
<1>3. r \in Request /\ Used(r) /\ r.action = "provision"
  BY <1>1, <1>2, LineTyped DEF ClubInv, RequestsSane
<1>4. PICK answer \in Answer :
        Served(r, answer) /\ line' = [at |-> "answered", request |-> r, answer |-> answer]
  BY <1>2 DEF Serve
<1>5. Typed /\ Keeps /\ ServerSane' /\ (answer.ok => Vouches(r.user, answer)')
  BY <1>1, <1>3, <1>4, ServedSane DEF ClubInv
<1>6. line'.at = "answered" /\ line'.request = r /\ line'.answer = answer
  BY <1>4
<1>7. TypeOK'
  BY <1>1, <1>3, <1>5, <1>4, ServerStep DEF ClubInv, TypeOK, Typed, Line
<1>8. RequestsSane'
  BY <1>1, <1>3, <1>5, <1>6, ServerStep DEF ClubInv, RequestsSane, TypeOK
<1>9. AnswerSane'
  BY <1>5, <1>6 DEF AnswerSane, Vouches
<1> QED BY <1>1, <1>5, <1>7, <1>8, <1>9, ServerStep DEF ClubInv

\* Steps of the server that leave the line alone.
LEMMA BackgroundStep ==
  ASSUME ClubInv, Typed, Keeps, ServerSane', byHand' \subseteq Licences,
         UNCHANGED <<key, line>>, Silent, late' \subseteq late
  PROVE  ClubInv'
<1>1. /\ KeysSane' /\ ClubKeyIsGranted' /\ ShownIsVouchedFor' /\ AnswerSane'
      /\ message' \in [to : Users \cup {None}, shown : SUBSET Licences,
                       vouched : SUBSET Licences]
      /\ \A r \in Request : Used(r) => Used(r)'
  BY ServerStep DEF ClubInv
<1>2. TypeOK'
  BY <1>1 DEF ClubInv, TypeOK, Typed
<1>3. RequestsSane'
  BY <1>1, LineTyped DEF ClubInv, RequestsSane, TypeOK
<1> QED BY <1>1, <1>2, <1>3 DEF ClubInv

LEMMA ServeLateStep ==
  ASSUME ClubInv, NEW r \in late, ServeLate(r)
  PROVE  ClubInv'
<1>1. PICK answer \in Answer : Served(r, answer)
  BY DEF ServeLate
<1>2. UNCHANGED <<byHand, key, line>> /\ Silent /\ late' \subseteq late
  BY DEF ServeLate
<1>3. r \in Request /\ Used(r)
  BY DEF ClubInv, TypeOK, RequestsSane
<1>4. Typed /\ Keeps /\ ServerSane'
  BY <1>1, <1>2, <1>3, ServedSane DEF ClubInv
<1> QED BY <1>2, <1>4, BackgroundStep DEF ClubInv, TypeOK

\* The answer is read, and its new keys are written.
LEMMA ReadAnswerStep ==
  ASSUME ClubInv, ReadAnswer
  PROVE  ClubInv'
<1>1. /\ line.at = "answered" /\ line' = Idle /\ UNCHANGED <<server, byHand, late>>
  BY DEF ReadAnswer
<1>2. PICK u \in Users, a \in Answer : u = line.request.user /\ a = line.answer
  BY <1>1, LineTyped DEF ClubInv, Request
<1>3. /\ a.ok /\ key' \in {key, KeysFrom(u, a)}
      /\ message' = [to |-> u,
                     shown |-> {l \in Issued(KeysFrom(u, a), u) :
                                  licence[l].product \notin Withheld(a)},
                     vouched |-> a.licences]
  BY <1>2 DEF ReadAnswer
<1>4. Vouches(u, a)
  BY <1>1, <1>2, <1>3 DEF ClubInv, AnswerSane
<1>5. licence' = licence /\ grant' = grant /\ byHand' = byHand /\ late' = late
  BY <1>1 DEF server
<1>6. a.licences \subseteq Licences
  BY DEF Answer
<1>7. ASSUME NEW l \in a.licences
      PROVE  /\ licence[l].product \in Products /\ licence[l].status # "unused"
             /\ grant[u, licence[l].product].licence = l
  <2>1. l \in Licences /\ l # None /\ licence[l].product \in Products
    BY <1>6, NoneAssumption DEF ClubInv, TypeOK, Record
  <2>2. grant[u, licence[l].product].licence = l
    BY <1>4 DEF Vouches
  <2>3. PICK p \in Products : p = licence[l].product
    BY <2>1
  <2>4. grant[u, p].licence = l
    BY <2>2, <2>3
  <2>5. licence[l].status # "unused"
    BY <2>1, <2>4 DEF ClubInv, ServerSane, GrantsSane
  <2> QED BY <2>1, <2>2, <2>5
<1>8. ASSUME NEW l \in Licences
      PROVE  \/ key'[l] = key[l]
             \/ /\ l \in a.licences /\ key'[l] \in Key
                /\ key'[l].status = "issued" /\ key'[l].user = u
                /\ key'[l].plan = "club" => grant[u, licence[l].product].managed
  <2>1. CASE key' = KeysFrom(u, a) /\ l \in NewKeys(a)
    <3> DEFINE plan == IF grant[u, licence[l].product].managed THEN "club" ELSE "license"
               row == [status |-> "issued", user |-> u, plan |-> plan]
    <3>1. key'[l] = row
      BY <2>1 DEF KeysFrom
    <3>2. row \in Key
      BY DEF Key
    <3>3. /\ row.status = "issued" /\ row.user = u
          /\ row.plan = "club" => grant[u, licence[l].product].managed
      OBVIOUS
    <3> HIDE DEF row
    <3> QED BY <2>1, <3>1, <3>2, <3>3 DEF NewKeys
  <2>2. CASE key' = key \/ l \notin NewKeys(a)
    BY <1>3, <2>2 DEF KeysFrom
  <2> QED BY <1>3, <2>1, <2>2
<1>9. TypeOK'
  <2>1. key' = [l \in Licences |-> key'[l]]
    BY <1>3 DEF KeysFrom, ClubInv, TypeOK
  <2>2. \A l \in Licences : key'[l] \in Key
    BY <1>8 DEF ClubInv, TypeOK
  <2>3. key' \in [Licences -> Key]
    BY <2>1, <2>2
  <2>4. message' \in [to : Users \cup {None}, shown : SUBSET Licences,
                      vouched : SUBSET Licences]
    BY <1>3, <1>6 DEF Issued
  <2>5. /\ licence' \in [Licences -> Record] /\ grant' \in [Users \X Products -> Grant]
        /\ byHand' \subseteq Licences
    BY <1>5 DEF ClubInv, TypeOK
  <2>6. line' \in Line /\ late' \subseteq Request
    BY <1>1, <1>5 DEF ClubInv, TypeOK, Line
  <2> QED BY <2>3, <2>4, <2>5, <2>6 DEF TypeOK
<1>10. ServerSane'
  <2>1. GrantsSane /\ UNCHANGED <<licence, grant>>
    BY <1>5 DEF ClubInv, ServerSane
  <2>2. GrantsSane'
    <3> SUFFICES ASSUME NEW v \in Users, NEW p \in Products
        PROVE /\ grant'[v, p].licence # None =>
                   /\ licence'[grant'[v, p].licence].product = p
                   /\ licence'[grant'[v, p].licence].status # "unused"
              /\ grant'[v, p].held => grant'[v, p].managed
              /\ grant'[v, p].managed =>
                   grant'[v, p].licence # None /\ licence'[grant'[v, p].licence].made
      BY DEF GrantsSane
    <3> QED BY <2>1 DEF GrantsSane
  <2>3. HandsSane'
    BY <1>5 DEF ClubInv, ServerSane, HandsSane, Held
  <2>4. NoSecondLicence'
    BY <1>5 DEF ClubInv, ServerSane, NoSecondLicence, OnRecord, Unused
  <2> QED BY <2>2, <2>3, <2>4 DEF ServerSane
<1>11. KeysSane'
  BY <1>5, <1>7, <1>8 DEF ClubInv, KeysSane
<1>12. RequestsSane' /\ AnswerSane'
  BY <1>1, <1>5 DEF ClubInv, RequestsSane, AnswerSane, Used, Idle
<1>13. ClubKeyIsGranted'
  <2> SUFFICES ASSUME NEW l \in Licences, key'[l].status # "none", key'[l].plan = "club"
      PROVE  /\ grant[key'[l].user, licence[l].product].licence = l
             /\ grant[key'[l].user, licence[l].product].managed
    BY <1>5 DEF ClubKeyIsGranted
  <2>1. CASE key'[l] = key[l]
    BY <2>1 DEF ClubInv, ClubKeyIsGranted
  <2>2. CASE /\ l \in a.licences /\ key'[l].user = u
             /\ key'[l].plan = "club" => grant[u, licence[l].product].managed
    BY <1>7, <2>2
  <2> QED BY <1>8, <2>1, <2>2
<1>14. ShownIsVouchedFor'
  <2> SUFFICES ASSUME NEW l \in message'.shown \ message'.vouched
      PROVE  grant[message'.to, licence[l].product].licence # l
    BY <1>5 DEF ShownIsVouchedFor
  <2>1. l \in Licences /\ l \notin a.licences /\ licence[l].product \notin a.unavailable
    BY <1>3 DEF Issued, Withheld
  <2>2. licence[l].product \in Products
    BY <2>1 DEF ClubInv, TypeOK, Record
  <2>3. grant[u, licence[l].product].licence \in a.licences
    BY <1>4, <2>1, <2>2 DEF Vouches
  <2> QED BY <1>3, <2>1, <2>3
<1> QED BY <1>9, <1>10, <1>11, <1>12, <1>13, <1>14 DEF ClubInv

LEMMA OperatorStep ==
  ASSUME ClubInv, NEW l \in Licences, NEW u \in Users,
         OperatorIssues(l, u) \/ OperatorRevokes(l)
  PROVE  ClubInv'
<1>1. UNCHANGED <<server, byHand, line, late>> /\ Silent /\ line = Idle
  BY DEF OperatorIssues, OperatorRevokes
<1>2. licence' = licence /\ grant' = grant /\ byHand' = byHand /\ late' = late
  BY <1>1 DEF server
<1>3. \A k \in Licences \ {l} : key'[k] = key[k]
  BY DEF OperatorIssues, OperatorRevokes, ClubInv, TypeOK
<1>4. /\ key' \in [Licences -> Key] /\ key'[l].user \in Users
      /\ licence[l].status # "unused"
      /\ \/ key'[l].plan # "club"
         \/ /\ key[l].status # "none" /\ key'[l].plan = key[l].plan
            /\ key'[l].user = key[l].user
  <2>1. CASE OperatorIssues(l, u)
    <3> DEFINE row == [status |-> "issued", user |-> u, plan |-> "license"]
    <3>1. key' = [key EXCEPT ![l] = row]
      BY <2>1 DEF OperatorIssues
    <3>2. row \in Key /\ row.user = u /\ row.plan = "license"
      BY DEF Key
    <3> HIDE DEF row
    <3>3. key' \in [Licences -> Key] /\ key'[l] = row
      BY <3>1, <3>2 DEF ClubInv, TypeOK
    <3> QED BY <2>1, <3>2, <3>3 DEF OperatorIssues, Unused
  <2>2. CASE OperatorRevokes(l)
    BY <2>2 DEF OperatorRevokes, ClubInv, TypeOK, Key, KeysSane
  <2> QED BY <2>1, <2>2
<1>5. /\ ShownIsVouchedFor'
      /\ message' \in [to : Users \cup {None}, shown : SUBSET Licences,
                       vouched : SUBSET Licences]
  BY <1>1 DEF Silent, Nothing, ShownIsVouchedFor
<1>6. TypeOK'
  BY <1>1, <1>2, <1>4, <1>5 DEF ClubInv, TypeOK
<1>7. ServerSane'
  BY <1>2 DEF ClubInv, ServerSane, GrantsSane, HandsSane, NoSecondLicence, Held, OnRecord, Unused
<1>8. KeysSane'
  BY <1>2, <1>3, <1>4 DEF ClubInv, KeysSane
<1>9. RequestsSane' /\ AnswerSane'
  BY <1>1, <1>2 DEF ClubInv, RequestsSane, AnswerSane, Used, Idle
<1>10. ClubKeyIsGranted'
  <2> SUFFICES ASSUME NEW k \in Licences, key'[k].status # "none", key'[k].plan = "club"
      PROVE  /\ grant[key'[k].user, licence[k].product].licence = k
             /\ grant[key'[k].user, licence[k].product].managed
    BY <1>2 DEF ClubKeyIsGranted
  <2>1. key[k].status # "none" /\ key[k].plan = "club" /\ key'[k].user = key[k].user
    BY <1>3, <1>4
  <2> QED BY <2>1 DEF ClubInv, ClubKeyIsGranted
<1> QED BY <1>5, <1>6, <1>7, <1>8, <1>9, <1>10 DEF ClubInv

\* Administrators.
LEMMA HandStep ==
  ASSUME ClubInv, NEW l \in Licences,
         Revoke(l) \/ SuspendByHand(l) \/ ResumeByHand(l)
  PROVE  ClubInv'
<1>1. /\ UNCHANGED <<grant, key, line, late>> /\ Silent
      /\ byHand' \subseteq Licences
      /\ \A k \in Licences \ {l} : k \in byHand' <=> k \in byHand
  BY DEF Revoke, SuspendByHand, ResumeByHand, ClubInv, TypeOK
<1>2. PICK status \in {"revoked", "suspended", "active"} :
        licence' = [licence EXCEPT ![l].status = status]
  BY DEF Revoke, SuspendByHand, ResumeByHand
<1>3. licence[l].status \in {"active", "suspended"}
  BY DEF Revoke, SuspendByHand, ResumeByHand
<1>4. /\ licence' \in [Licences -> Record]
      /\ \A k \in Licences :
           /\ licence'[k].user = licence[k].user /\ licence'[k].product = licence[k].product
           /\ licence'[k].made = licence[k].made
           /\ k # l => licence'[k].status = licence[k].status
      /\ licence'[l].status = status
  BY <1>2 DEF ClubInv, TypeOK, Record
<1>5. Typed /\ Keeps
  BY <1>1, <1>3, <1>4 DEF Typed, Keeps, ClubInv, TypeOK
<1>6. GrantsSane'
  <2> SUFFICES ASSUME NEW v \in Users, NEW p \in Products
      PROVE /\ grant[v, p].licence # None =>
                 /\ licence'[grant[v, p].licence].product = p
                 /\ licence'[grant[v, p].licence].status # "unused"
            /\ grant[v, p].held => grant[v, p].managed
            /\ grant[v, p].managed =>
                 grant[v, p].licence # None /\ licence'[grant[v, p].licence].made
    BY <1>1 DEF GrantsSane
  <2>1. /\ grant[v, p].licence # None =>
             /\ licence[grant[v, p].licence].product = p
             /\ licence[grant[v, p].licence].status # "unused"
        /\ grant[v, p].held => grant[v, p].managed
        /\ grant[v, p].managed =>
             grant[v, p].licence # None /\ licence[grant[v, p].licence].made
    BY DEF ClubInv, ServerSane, GrantsSane
  <2>2. CASE grant[v, p].licence = None
    BY <2>1, <2>2
  <2>3. CASE grant[v, p].licence # None
    <3>1. grant[v, p].licence \in Licences
      BY <2>3, GrantTyped DEF ClubInv
    <3> QED BY <1>4, <2>1, <2>3, <3>1
  <2> QED BY <2>2, <2>3
<1>7. HandsSane'
  <2> SUFFICES ASSUME NEW k \in Licences
      PROVE /\ k \in byHand' => licence'[k].status \in {"suspended", "revoked"}
            /\ licence'[k].status = "suspended" /\ ~licence'[k].made => k \in byHand'
            /\ licence'[k].status = "suspended" /\ Held(k) => k \notin byHand'
    BY <1>1 DEF HandsSane, Held
  <2>1. CASE k # l
    BY <1>1, <1>4, <2>1 DEF ClubInv, ServerSane, HandsSane
  <2>2. CASE k = l
    <3>1. Held(l) => licence[l].made
      BY GrantTyped DEF Held, ClubInv, ServerSane, GrantsSane
    <3>2. licence'[l].made = licence[l].made
      BY <1>4
    <3>3. CASE Revoke(l)
      BY <2>2, <1>4, <3>3 DEF Revoke, ClubInv, TypeOK
    <3>4. CASE SuspendByHand(l)
      <4>1. byHand' = IF Held(l) THEN byHand ELSE byHand \cup {l}
        BY <3>4 DEF SuspendByHand
      <4>2. licence[l].status = "active" /\ licence'[l].status = "suspended"
        BY <3>4 DEF SuspendByHand, ClubInv, TypeOK, Record
      <4>3. l \notin byHand
        BY <4>2 DEF ClubInv, ServerSane, HandsSane
      <4> QED BY <2>2, <3>1, <3>2, <4>1, <4>2, <4>3
    <3>5. CASE ResumeByHand(l)
      BY <2>2, <1>4, <3>5 DEF ResumeByHand, ClubInv, TypeOK, Record
    <3> QED BY <3>3, <3>4, <3>5
  <2> QED BY <2>1, <2>2
<1>8. \A v \in Users, p \in Products : OnRecord(v, p)' = OnRecord(v, p)
  BY <1>3, <1>4 DEF OnRecord, Unused
<1>9. NoSecondLicence'
  BY <1>8 DEF ClubInv, ServerSane, NoSecondLicence, Single
<1> QED BY <1>1, <1>5, <1>6, <1>7, <1>9, BackgroundStep DEF ServerSane

---------------------------------------------------------------------------
(* The theorems.                                                           *)

LEMMA InitInv == Init => ClubInv
<1> SUFFICES ASSUME Init PROVE ClubInv
  OBVIOUS
<1>1. \A l \in Licences : Free(l) \in Record /\ Free(l).status = "unused"
  BY ProductAssumption DEF Free, Record
<1>2. \A u \in Users \cup {None}, p \in Products :
        Sold(u, p) \in Record /\ Sold(u, p).status = "active"
  BY DEF Sold, Record
<1>3. /\ licence \in [Licences -> Record]
      /\ \A l \in Licences : licence[l].status \in {"unused", "active"}
  <2>1. \A f \in FirstRecords : f \in Record /\ f.status \in {"unused", "active"}
    BY <1>1, <1>2 DEF FirstRecords
  <2>2. licence \in [Licences -> FirstRecords]
    BY DEF Init
  <2> QED BY <2>1, <2>2
<1>4. ASSUME NEW g \in FirstGrants
      PROVE  /\ g \in Grant /\ ~g.held /\ ~g.managed
             /\ g.licence # None => g # NoGrant
  <2>1. NoGrant \in Grant /\ ~NoGrant.held /\ ~NoGrant.managed /\ NoGrant.licence = None
    BY DEF NoGrant, Grant
  <2>2. CASE g # NoGrant
    <3>1. PICK l \in Licences : g = [NoGrant EXCEPT !.licence = l]
      BY <2>2 DEF FirstGrants
    <3> QED BY <2>1, <2>2, <3>1 DEF Grant
  <2> QED BY <2>1, <2>2
<1>5. /\ grant \in [Users \X Products -> FirstGrants]
      /\ \A u \in Users, p \in Products :
           grant[u, p] # NoGrant => grant[u, p].licence \in OnRecord(u, p)
  BY DEF Init
<1>6. ASSUME NEW u \in Users, NEW p \in Products
      PROVE  /\ grant[u, p] \in Grant /\ ~grant[u, p].held /\ ~grant[u, p].managed
             /\ grant[u, p].licence # None => grant[u, p].licence \in OnRecord(u, p)
  <2>1. grant[u, p] \in FirstGrants
    BY <1>5
  <2> QED BY <1>4, <1>5, <2>1
<1>7. grant \in [Users \X Products -> Grant]
  BY <1>4, <1>5
<1>8. NoKey \in Key /\ NoKey.status = "none"
  BY DEF NoKey, Key
<1>9. key \in [Licences -> Key] /\ \A l \in Licences : key[l].status = "none"
  BY <1>8 DEF Init
<1>10. byHand = {} /\ line = Idle /\ line.at = "idle" /\ late = {} /\ message = Nothing
  BY DEF Init, Idle
<1>11. TypeOK
  BY <1>3, <1>7, <1>9, <1>10 DEF TypeOK, Line, Nothing
<1>12. ServerSane
  <2>1. GrantsSane
    <3> SUFFICES ASSUME NEW u \in Users, NEW p \in Products
        PROVE /\ grant[u, p].licence # None =>
                   /\ licence[grant[u, p].licence].product = p
                   /\ licence[grant[u, p].licence].status # "unused"
              /\ grant[u, p].held => grant[u, p].managed
              /\ grant[u, p].managed =>
                   grant[u, p].licence # None /\ licence[grant[u, p].licence].made
      BY DEF GrantsSane
    <3>1. grant[u, p].licence # None => grant[u, p].licence \in OnRecord(u, p)
      BY <1>6
    <3>2. \A l \in OnRecord(u, p) : licence[l].product = p /\ licence[l].status # "unused"
      BY DEF OnRecord, Unused
    <3> QED BY <1>6, <3>1, <3>2
  <2>2. HandsSane
    <3> SUFFICES ASSUME NEW l \in Licences
        PROVE /\ l \in byHand => licence[l].status \in {"suspended", "revoked"}
              /\ licence[l].status = "suspended" /\ ~licence[l].made => l \in byHand
              /\ licence[l].status = "suspended" /\ Held(l) => l \notin byHand
      BY DEF HandsSane
    <3>1. licence[l].status # "suspended"
      BY <1>3
    <3>2. l \notin byHand
      BY <1>10
    <3> QED BY <3>1, <3>2
  <2>3. NoSecondLicence
    BY DEF Init, NoSecondLicence
  <2> QED BY <2>1, <2>2, <2>3 DEF ServerSane
<1>13. KeysSane /\ ClubKeyIsGranted
  BY <1>9 DEF KeysSane, ClubKeyIsGranted
<1>14. RequestsSane /\ AnswerSane /\ ShownIsVouchedFor
  BY <1>10 DEF RequestsSane, AnswerSane, ShownIsVouchedFor, Nothing
<1> QED BY <1>11, <1>12, <1>13, <1>14 DEF ClubInv

LEMMA StepInv == ClubInv /\ [Next]_vars => ClubInv'
<1> SUFFICES ASSUME ClubInv, [Next]_vars PROVE ClubInv'
  OBVIOUS
<1>1. CASE \E u \in Users : Ask(u)
  BY <1>1, AskStep
<1>2. CASE \E u \in Users, action \in {"suspend", "restore"} : Switch(u, action)
  BY <1>2, SwitchStep
<1>3. CASE Serve
  BY <1>3, ServeStep
<1>4. CASE GetsNoAnswer \/ GivesUp \/ RefuseAnswer
  BY <1>4, IdleStep
<1>5. CASE ReadAnswer
  BY <1>5, ReadAnswerStep
<1>6. CASE \E r \in late : ServeLate(r) \/ Lose(r)
  BY <1>6, ServeLateStep, LoseStep
<1>7. CASE \/ \E l \in Licences, u \in Users : OperatorIssues(l, u)
           \/ \E l \in Licences : OperatorRevokes(l)
  <2>1. CASE \E l \in Licences, u \in Users : OperatorIssues(l, u)
    BY <2>1, OperatorStep
  <2>2. CASE \E l \in Licences : OperatorRevokes(l)
    <3>1. PICK l \in Licences : OperatorRevokes(l)
      BY <2>2
    <3>2. key[l].user \in Users
      BY <3>1 DEF OperatorRevokes, ClubInv, KeysSane
    <3>3. PICK u \in Users : TRUE
      BY <3>2
    <3> QED BY <3>1, <3>3, OperatorStep
  <2> QED BY <1>7, <2>1, <2>2
<1>8. CASE \E l \in Licences : Revoke(l) \/ SuspendByHand(l) \/ ResumeByHand(l)
  BY <1>8, HandStep
<1>9. CASE UNCHANGED vars
  <2>1. /\ licence' = licence /\ grant' = grant /\ byHand' = byHand /\ key' = key
        /\ line' = line /\ late' = late /\ message' = message
    BY <1>9 DEF vars, server
  <2>2. TypeOK' /\ KeysSane' /\ ClubKeyIsGranted' /\ ShownIsVouchedFor'
    BY <2>1 DEF ClubInv, TypeOK, KeysSane, ClubKeyIsGranted, ShownIsVouchedFor
  <2>3. ServerSane'
    BY <2>1 DEF ClubInv, ServerSane, GrantsSane, HandsSane, NoSecondLicence, Held, OnRecord,
       Unused
  <2>4. RequestsSane' /\ AnswerSane'
    BY <2>1 DEF ClubInv, RequestsSane, AnswerSane, Vouches, Used
  <2> QED BY <2>2, <2>3, <2>4 DEF ClubInv
<1> QED BY <1>1, <1>2, <1>3, <1>4, <1>5, <1>6, <1>7, <1>8, <1>9 DEF Next

\* The invariant holds always.
THEOREM ClubInvariant == Spec => []ClubInv
BY InitInv, StepInv, PTL DEF Spec

\* Whatever is lost, late or done by hand, the tables of the server, the rows of
\* the bot and the requests keep their types.
THEOREM ClubTypeOK == Spec => []TypeOK
<1>1. ClubInv => TypeOK
  BY DEF ClubInv
<1> QED BY <1>1, ClubInvariant, PTL

\* No member is ever given a second licence for a product (club_vip.py:48-69).
THEOREM ClubGivesOneLicence == Spec => []NoSecondLicence
<1>1. ClubInv => NoSecondLicence
  BY DEF ClubInv, ServerSane
<1> QED BY <1>1, ClubInvariant, PTL

\* A licence an administrator stopped is started by an administrator only, and the
\* club suspends only what it made (club_vip.py:39-47, 72-75).
THEOREM AdministratorsHaveTheirWay == Spec => []AdministratorsDecide
<1>1. ClubInv => AdministratorsDecide
  BY DEF ClubInv, ServerSane, HandsSane, AdministratorsDecide
<1> QED BY <1>1, ClubInvariant, PTL

\* What the bot keeps as a key of the club is a managed grant of the same member
\* (club_licenses.py:66-69).
THEOREM ClubKeysAreGranted == Spec => []ClubKeyIsGranted
<1>1. ClubInv => ClubKeyIsGranted
  BY DEF ClubInv
<1> QED BY <1>1, ClubInvariant, PTL

\* A member is sent no key of a granted licence the server did not vouch for
\* (club_licenses.py:70-75).
THEOREM ShownKeysAreVouchedFor == Spec => []ShownIsVouchedFor
<1>1. ClubInv => ShownIsVouchedFor
  BY DEF ClubInv
<1> QED BY <1>1, ClubInvariant, PTL

\* Only an operator issues a revoked key again (club_licenses.py:66-68).
THEOREM RevokedKeysStayRevoked == Spec => RevokedKeyStaysRevoked
<1> DEFINE Stays == \A l \in Licences :
                      key[l].status = "revoked" /\ key'[l].status = "issued" =>
                        \E u \in Users : OperatorIssues(l, u)
<1>1. ClubInv /\ [Next]_vars => [Stays]_vars
  <2> SUFFICES ASSUME ClubInv, Next, NEW l \in Licences,
                      key[l].status = "revoked", key'[l].status = "issued"
               PROVE  \E u \in Users : OperatorIssues(l, u)
    BY DEF Stays
  <2>1. key' # key
    OBVIOUS
  <2>2. CASE ReadAnswer
    BY <2>2 DEF ReadAnswer, KeysFrom, NewKeys
  <2>3. CASE \E k \in Licences, u \in Users : OperatorIssues(k, u)
    <3>1. PICK k \in Licences, u \in Users : OperatorIssues(k, u)
      BY <2>3
    <3>2. k = l
      BY <3>1 DEF OperatorIssues, ClubInv, TypeOK
    <3> QED BY <3>1, <3>2
  <2>4. CASE \E k \in Licences : OperatorRevokes(k)
    BY <2>4 DEF OperatorRevokes, ClubInv, TypeOK, Key
  <2> QED BY <2>1, <2>2, <2>3, <2>4 DEF Next, Ask, Switch, Serve, GetsNoAnswer, GivesUp,
          RefuseAnswer, ServeLate, Lose, Revoke, SuspendByHand, ResumeByHand
<1>2. [][Stays]_vars <=> RevokedKeyStaysRevoked
  BY DEF RevokedKeyStaysRevoked, Stays
<1> QED BY <1>1, <1>2, ClubInvariant, PTL DEF Spec
=============================================================================
