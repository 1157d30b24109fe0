-------------------- MODULE ProjectConfigurationProofs ----------------------
(***************************************************************************)
(* Theorems about ProjectConfiguration, for any providers, models, agents, *)
(* templates and users and any number of overlapping requests.             *)
(***************************************************************************)
EXTENDS ProjectConfiguration, TLAPS

USE DEF vars, catalog, project, tools

-----------------------------------------------------------------------------
(* Type correctness.                                                       *)

\* A request that begins leaves the rows alone and is well typed if what it has
\* read is.
LEMMA BeginTypeOK ==
  ASSUME TypeOK, NEW q \in Requests, NEW kind, NEW at, NEW arg, NEW seen,
         Begin(q, kind, at, arg, seen),
         LET r == [step |-> "read", kind |-> kind, at |-> at, arg |-> arg, seen |-> seen] IN
           CatalogRequestOK(r) /\ ProjectRequestOK(r)
  PROVE  TypeOK'
<1> DEFINE r == [step |-> "read", kind |-> kind, at |-> at, arg |-> arg, seen |-> seen]
<1>1. RowsOK'
  BY DEF TypeOK, RowsOK, Begin
<1>2. req' = [req EXCEPT ![q] = r] /\ CatalogRequestOK(r) /\ ProjectRequestOK(r)
  BY DEF Begin
<1>3. overlaps' \subseteq SUBSET Requests
  BY DEF TypeOK, RequestsOK, Begin, Open
<1> HIDE DEF r
<1>4. r.step = "read" /\ DOMAIN r = {"step", "kind", "at", "arg", "seen"}
  BY DEF r
<1>5. RequestsOK'
  BY <1>2, <1>3, <1>4 DEF TypeOK, RequestsOK
<1> QED BY <1>1, <1>5 DEF TypeOK

\* A commit leaves the other requests as they are and forgets what it has read.
LEMMA CommitRequestsOK ==
  ASSUME RequestsOK, NEW q \in Requests, NEW kind, Commit(q, kind)
  PROVE  /\ RequestsOK'
         /\ req'[q].step = "committed" /\ req'[q].kind = kind
         /\ req[q].step = "read" /\ req[q].kind = kind
         /\ CatalogRequestOK(req[q]) /\ ProjectRequestOK(req[q])
         /\ \A p \in Requests \ {q} : req'[p] = req[p]
BY DEF RequestsOK, Commit


\* Beginning a request on the catalog keeps the types.
LEMMA BeginCatalogTypeOK ==
  ASSUME TypeOK, NEW q \in Requests,
         \/ \E p \in Providers : \/ BeginCreateProvider(q, p) \/ BeginRegister(q, p)
                                 \/ BeginUnregister(q, p) \/ BeginReplace(q, p)
                                 \/ BeginSwitch(q, p) \/ BeginDrop(q, p)
         \/ \E r \in Rules : BeginPricing(q, r)
  PROVE  TypeOK'
<1> USE DEF CatalogRequestOK, ProjectRequestOK, TypeOK, RowsOK, ProviderRows, Platform
<1>1. ASSUME NEW p \in Providers, BeginCreateProvider(q, p) PROVE TypeOK'
  BY <1>1, BeginTypeOK DEF BeginCreateProvider, ProviderRow
<1>2. ASSUME NEW p \in Providers, BeginRegister(q, p) PROVE TypeOK'
  BY <1>2, BeginTypeOK DEF BeginRegister
<1>3. ASSUME NEW p \in Providers, BeginUnregister(q, p) PROVE TypeOK'
  BY <1>3, BeginTypeOK DEF BeginUnregister, OrphanRules
<1>4. ASSUME NEW p \in Providers, BeginReplace(q, p) PROVE TypeOK'
  BY <1>4, BeginTypeOK DEF BeginReplace, Entries
<1>5. ASSUME NEW p \in Providers, BeginSwitch(q, p) PROVE TypeOK'
  BY <1>5, BeginTypeOK DEF BeginSwitch
<1>6. ASSUME NEW p \in Providers, BeginDrop(q, p) PROVE TypeOK'
  BY <1>6, BeginTypeOK DEF BeginDrop, OrphanRules
<1>7. ASSUME NEW r \in Rules, BeginPricing(q, r) PROVE TypeOK'
  BY <1>7, BeginTypeOK DEF BeginPricing, Listing
<1> QED BY <1>1, <1>2, <1>3, <1>4, <1>5, <1>6, <1>7

\* Beginning a request on a project keeps the types.
LEMMA BeginProjectTypeOK ==
  ASSUME TypeOK, NEW q \in Requests, NEW u \in Users,
         \/ BeginSelect(q, u) \/ BeginPublish(q, u) \/ BeginRun(q, u) \/ BeginRemoveAccount(q, u)
         \/ \E other \in Users : BeginMember(q, u, other)
         \/ \E a \in Agents : BeginUpdateAgent(q, u, a) \/ BeginActivate(q, u, a) \/ BeginFire(q, u, a)
         \/ \E t \in Templates : BeginTemplate(q, u, t)
  PROVE  TypeOK'
<1> USE DEF CatalogRequestOK, ProjectRequestOK, TypeOK, RowsOK, AgentRows, TemplateRows, Bindings
<1>1. CASE BeginSelect(q, u)
  BY <1>1, BeginTypeOK DEF BeginSelect
<1>2. CASE BeginPublish(q, u)
  BY <1>2, BeginTypeOK DEF BeginPublish
<1>3. CASE BeginRun(q, u)
  BY <1>3, BeginTypeOK DEF BeginRun
<1>4. CASE BeginRemoveAccount(q, u)
  BY <1>4, BeginTypeOK DEF BeginRemoveAccount, Users
<1>5. ASSUME NEW other \in Users, BeginMember(q, u, other) PROVE TypeOK'
  BY <1>5, BeginTypeOK DEF BeginMember, MemberRoles
<1>6. ASSUME NEW a \in Agents, BeginUpdateAgent(q, u, a) PROVE TypeOK'
  <2>1. ASSUME NEW m \in References \cup {None}, NEW bind \in Bindings,
               Begin(q, "hire", a, AgentRow(u, m, bind), None)
        PROVE  TypeOK'
    <3>1. AgentRow(u, m, bind) \in AgentRows
      BY DEF AgentRow
    <3> HIDE DEF AgentRows
    <3> QED BY <2>1, <3>1, BeginTypeOK
  <2>2. ASSUME NEW new \in AgentRows, agent[a] # None, Begin(q, "agent", a, new, agent[a])
        PROVE  TypeOK'
    <3> HIDE DEF AgentRows
    <3> QED BY <2>2, BeginTypeOK
  <2>3. ASSUME NEW bind \in Bindings
        PROVE  bind \subseteq Phases \X Templates
    OBVIOUS
  <2>4. ASSUME agent[a] # None
        PROVE  /\ [agent[a] EXCEPT !.enabled = ~agent[a].enabled] \in AgentRows
               /\ \A m \in References \cup {None} : [agent[a] EXCEPT !.model = m] \in AgentRows
               /\ \A bind \in Bindings : [agent[a] EXCEPT !.bind = bind] \in AgentRows
    <3>1. agent[a] \in AgentRows
      BY <2>4
    <3> QED BY <3>1, <2>3
  <2> HIDE DEF AgentRows, Bindings, TypeOK, RowsOK
  <2> QED BY <1>6, <2>1, <2>2, <2>4 DEF BeginUpdateAgent
<1>7. ASSUME NEW a \in Agents, BeginActivate(q, u, a) \/ BeginFire(q, u, a) PROVE TypeOK'
  BY <1>7, BeginTypeOK DEF BeginActivate, BeginFire
<1>8. ASSUME NEW t \in Templates, BeginTemplate(q, u, t) PROVE TypeOK'
  BY <1>8, BeginTypeOK DEF BeginTemplate, TemplateRow
<1> QED BY <1>1, <1>2, <1>3, <1>4, <1>5, <1>6, <1>7, <1>8

\* Committing a request on the catalog keeps the types.
LEMMA CommitCatalogTypeOK ==
  ASSUME TypeOK, NEW q \in Requests,
         CreateProvider(q) \/ Register(q) \/ Unregister(q) \/ Replace(q) \/ Switch(q) \/ Drop(q)
         \/ Price(q) \/ RenamePrice(q)
  PROVE  TypeOK'
<1> USE CommitRequestsOK DEF TypeOK, RowsOK, CatalogRequestOK
<1> SUFFICES RowsOK'
  BY DEF CreateProvider, Register, Unregister, Replace, Switch, Drop, Price, RenamePrice
<1>1. CASE CreateProvider(q)
  BY <1>1 DEF CreateProvider
<1>2. CASE Register(q)
  <2>1. req[q].seen \cup req[q].arg \subseteq Entries
    BY <1>2 DEF Register
  <2> QED BY <1>2, <2>1 DEF Register, Assigned, ProviderRows
<1>3. CASE Unregister(q)
  BY <1>3 DEF Unregister, Pruned, ProviderRows
<1>4. CASE Replace(q)
  <2>1. Relisted(req[q].seen, req[q].arg) \subseteq Entries
    BY <1>4 DEF Replace, Relisted
  <2> QED BY <1>4, <2>1 DEF Replace, Assigned, ProviderRows
<1>5. CASE Switch(q)
  BY <1>5 DEF Switch, ProviderRows
<1>6. CASE Drop(q)
  BY <1>6 DEF Drop, Pruned
<1>7. CASE Price(q)
  BY <1>7 DEF Price
<1>8. CASE RenamePrice(q)
  <2>1. ASSUME NEW p \in DOMAIN req[q].seen.lists
        PROVE  Renamed(req[q].seen.lists[p], req[q].seen.model, req[q].arg) \subseteq Entries
    BY <1>8 DEF RenamePrice, Renamed, Entries
  <2>2. provider' \in [Providers -> ProviderRows \cup {None}]
    BY <1>8, <2>1 DEF RenamePrice, ProviderRows
  <2>3. price' \in [Rules -> Models \cup {None}]
    BY <1>8 DEF RenamePrice
  <2> QED BY <1>8, <2>2, <2>3 DEF RenamePrice
<1> QED BY <1>1, <1>2, <1>3, <1>4, <1>5, <1>6, <1>7, <1>8

\* Committing a request on a project keeps the types.
LEMMA CommitProjectTypeOK ==
  ASSUME TypeOK, NEW q \in Requests,
         \/ Select(q) \/ Publish(q) \/ SetMember(q)
         \/ UpdateAgent(q) \/ Activate(q) \/ Fire(q) \/ StartRun(q) \/ SetTemplate(q)
         \/ RemoveAccount(q)
  PROVE  TypeOK'
<1> USE CommitRequestsOK, RowsAssumption DEF TypeOK, RowsOK, ProjectRequestOK
<1> SUFFICES RowsOK'
  BY DEF Select, Publish, SetMember, UpdateAgent, Activate, Fire, StartRun, SetTemplate,
         RemoveAccount
<1>1. CASE Select(q)
  BY <1>1 DEF Select, Assigned
<1>2. CASE Publish(q)
  BY <1>2 DEF Publish
<1>3. CASE SetMember(q)
  BY <1>3 DEF SetMember
<1>4. CASE UpdateAgent(q)
  <2>1. agent' \in [Agents -> AgentRows \cup {None}]
    BY <1>4, SMTT(20) DEF UpdateAgent, Assigned, AgentRows
  <2>2. \A a \in Agents : agent[a] # None => agent'[a] # None
    BY <1>4, SMTT(20) DEF UpdateAgent, Assigned, AgentRows
  <2> QED BY <1>4, <2>1, <2>2 DEF UpdateAgent
<1>5. CASE Activate(q)
  BY <1>5 DEF Activate, Assigned
<1>6. CASE Fire(q)
  BY <1>6 DEF Fire
<1>7. CASE StartRun(q)
  BY <1>7 DEF StartRun
<1>8. CASE SetTemplate(q)
  BY <1>8 DEF SetTemplate, Assigned
<1>9. CASE RemoveAccount(q)
  BY <1>9 DEF RemoveAccount
<1> QED BY <1>1, <1>2, <1>3, <1>4, <1>5, <1>6, <1>7, <1>8, <1>9

\* Every reachable state is well typed, and no row refers to an agent that is gone
\* through a foreign key.
THEOREM TypeCorrect == Spec => []TypeOK
<1>1. Init => TypeOK
  <2> SUFFICES ASSUME Init PROVE TypeOK
    OBVIOUS
  <2> USE DEF Init
  <2>1. provider \in [Providers -> ProviderRows \cup {None}]
    <3>1. \A o \in {None, Owner} : ProviderRow(o, Entries) \in ProviderRows
      BY DEF ProviderRow, ProviderRows
    <3> QED BY <3>1
  <2>2. component \in [Kinds -> References \cup {None}]
    OBVIOUS
  <2>3. template \in [Templates -> TemplateRows \cup {None}]
    BY DEF TemplateRow, TemplateRows, Users
  <2>4. agent \in [Agents -> AgentRows \cup {None}]
    BY RowsAssumption, <2>3 DEF AgentRow, AgentRows, TemplateRows, Users
  <2>5. \A a \in Agents : agent[a] # None
    <3>1. \A a \in Agents : DOMAIN agent[a] = {"creator", "enabled", "model", "bind"}
      BY DEF AgentRow
    <3>2. ASSUME NEW a \in Agents, agent[a] = None PROVE FALSE
      <4>1. None.creator = Owner /\ None.enabled = TRUE /\ None.model = None
            /\ None.bind \subseteq Phases \X Templates
        BY <2>3, <3>2 DEF AgentRow, TemplateRows
      <4>2. None = [creator |-> Owner, enabled |-> TRUE, model |-> None, bind |-> None.bind]
        BY <3>2 DEF AgentRow
      <4>3. None \in AgentRows
        BY <4>1, <4>2 DEF AgentRows, Users
      <4> QED BY <4>3, RowsAssumption
    <3> QED BY <3>2
  <2>6. RowsOK
    BY <2>1, <2>2, <2>3, <2>4, <2>5 DEF RowsOK, Visibilities, MemberRoles
  <2>7. RequestsOK
    BY DEF RequestsOK, NewRequest
  <2> QED BY <2>6, <2>7 DEF TypeOK
<1>2. TypeOK /\ [Next]_vars => TypeOK'
  <2> SUFFICES ASSUME TypeOK, [Next]_vars PROVE TypeOK'
    OBVIOUS
  <2>1. CASE UNCHANGED vars
    BY <2>1 DEF TypeOK, RowsOK, RequestsOK
  <2>2. ASSUME NEW q \in Requests, Rollback(q) PROVE TypeOK'
    BY <2>2 DEF TypeOK, RowsOK, RequestsOK, Rollback, NewRequest
  <2> QED
    BY <2>1, <2>2, BeginCatalogTypeOK, BeginProjectTypeOK, CommitCatalogTypeOK,
       CommitProjectTypeOK DEF Next, BeginRequest, CommitRequest
<1> QED BY <1>1, <1>2, PTL DEF Spec

-----------------------------------------------------------------------------
(* Requests that overlap.                                                  *)

\* q overlapped a request of one of these kinds, which has committed.
Met(q, kinds) ==
  \E p \in Requests : {p, q} \in overlaps /\ req[p].step = "committed" /\ req[p].kind \in kinds

OpenRequestsMeet == \A p, q \in Open : p # q => {p, q} \in overlaps

\* What a request does to the requests: it begins, commits or leaves no trace.
Moves(q) ==
  \/ \E kind, at, arg, seen : Begin(q, kind, at, arg, seen)
  \/ \E kind : Commit(q, kind)
  \/ Rollback(q)

\* Whatever route a request enters by, it begins with a read.
LEMMA BeginMoves ==
  ASSUME NEW q \in Requests, BeginRequest(q)
  PROVE  \E kind, at, arg, seen : Begin(q, kind, at, arg, seen)
BY DEF BeginRequest, BeginCreateProvider, BeginRegister, BeginUnregister, BeginReplace,
   BeginSwitch, BeginDrop, BeginPricing, BeginSelect, BeginPublish, BeginRun,
   BeginRemoveAccount, BeginMember, BeginUpdateAgent, BeginActivate, BeginFire, BeginTemplate

\* Whatever a request writes, it ends with one commit.
LEMMA CommitMoves ==
  ASSUME NEW q \in Requests, CommitRequest(q)
  PROVE  \E kind : Commit(q, kind)
BY DEF CommitRequest, CreateProvider, Register, Unregister, Replace, Switch, Drop,
   Price, RenamePrice, Select, Publish, SetMember, UpdateAgent, Activate, Fire, StartRun,
   SetTemplate, RemoveAccount

\* A request begins, commits or rolls back.
LEMMA RequestsMove ==
  ASSUME NEW q \in Requests, BeginRequest(q) \/ CommitRequest(q) \/ Rollback(q)
  PROVE  Moves(q)
BY BeginMoves, CommitMoves DEF Moves

\* What a request that begins or commits does to itself and to the others.
LEMMA BeginFrame ==
  ASSUME TypeOK, NEW q \in Requests, BeginRequest(q)
  PROVE  /\ UNCHANGED <<catalog, project, tools, gone>>
         /\ req[q].step = "new" /\ req'[q].step = "read"
         /\ \A p \in Requests \ {q} : req'[p] = req[p]
         /\ Open' = Open \cup {q}
         /\ overlaps \subseteq overlaps'
<1> PICK kind, at, arg, seen : Begin(q, kind, at, arg, seen)
  BY BeginMoves
<1> QED BY DEF Begin, TypeOK, RequestsOK, Open

\* The record a request has once it has begun.
LEMMA BeginSets ==
  ASSUME TypeOK, NEW q \in Requests, NEW kind, NEW at, NEW arg, NEW seen,
         Begin(q, kind, at, arg, seen)
  PROVE  /\ req'[q].step = "read" /\ req'[q].kind = kind /\ req'[q].at = at
         /\ req'[q].arg = arg /\ req'[q].seen = seen
BY DEF Begin, TypeOK, RequestsOK

\* Which request an open one is, from its kind.
LEMMA BeginKinds ==
  ASSUME TypeOK, NEW q \in Requests, BeginRequest(q)
  PROVE  \/ req'[q].kind = "create" /\ \E p \in Providers : BeginCreateProvider(q, p)
         \/ req'[q].kind = "register" /\ \E p \in Providers : BeginRegister(q, p)
         \/ req'[q].kind = "unregister" /\ \E p \in Providers : BeginUnregister(q, p)
         \/ req'[q].kind = "replace" /\ \E p \in Providers : BeginReplace(q, p)
         \/ req'[q].kind = "switch" /\ \E p \in Providers : BeginSwitch(q, p)
         \/ req'[q].kind = "drop" /\ \E p \in Providers : BeginDrop(q, p)
         \/ req'[q].kind \in {"price", "rename", "unprice"} /\ \E r \in Rules : BeginPricing(q, r)
         \/ req'[q].kind = "select" /\ \E u \in Users : BeginSelect(q, u)
         \/ req'[q].kind \in {"publish", "remove", "run", "invite", "role", "expel"}
         \/ req'[q].kind \in {"hire", "agent"} /\ \E u \in Users, a \in Agents : BeginUpdateAgent(q, u, a)
         \/ req'[q].kind = "activate" /\ \E u \in Users, a \in Agents : BeginActivate(q, u, a)
         \/ req'[q].kind = "fire" /\ \E u \in Users, a \in Agents : BeginFire(q, u, a)
         \/ req'[q].kind \in {"draft", "template", "scrap"}
              /\ \E u \in Users, t \in Templates : BeginTemplate(q, u, t)
<1> USE BeginSets
<1>1. ASSUME NEW p \in Providers, BeginCreateProvider(q, p) PROVE req'[q].kind = "create"
  BY <1>1 DEF BeginCreateProvider
<1>2. ASSUME NEW p \in Providers, BeginRegister(q, p) PROVE req'[q].kind = "register"
  BY <1>2 DEF BeginRegister
<1>3. ASSUME NEW p \in Providers, BeginUnregister(q, p) PROVE req'[q].kind = "unregister"
  BY <1>3 DEF BeginUnregister
<1>4. ASSUME NEW p \in Providers, BeginReplace(q, p) PROVE req'[q].kind = "replace"
  BY <1>4 DEF BeginReplace
<1>5. ASSUME NEW p \in Providers, BeginSwitch(q, p) PROVE req'[q].kind = "switch"
  BY <1>5 DEF BeginSwitch
<1>6. ASSUME NEW p \in Providers, BeginDrop(q, p) PROVE req'[q].kind = "drop"
  BY <1>6 DEF BeginDrop
<1>7. ASSUME NEW r \in Rules, BeginPricing(q, r)
      PROVE  req'[q].kind \in {"price", "rename", "unprice"}
  BY <1>7 DEF BeginPricing
<1>8. ASSUME NEW u \in Users, BeginSelect(q, u) PROVE req'[q].kind = "select"
  BY <1>8 DEF BeginSelect
<1>9. ASSUME NEW u \in Users,
             \/ BeginPublish(q, u) \/ BeginRun(q, u) \/ BeginRemoveAccount(q, u)
             \/ \E other \in Users : BeginMember(q, u, other)
      PROVE  req'[q].kind \in {"publish", "remove", "run", "invite", "role", "expel"}
  BY <1>9 DEF BeginPublish, BeginRun, BeginRemoveAccount, BeginMember
<1>10. ASSUME NEW u \in Users, NEW a \in Agents, BeginUpdateAgent(q, u, a)
       PROVE  req'[q].kind \in {"hire", "agent"}
  BY <1>10, ZenonT(40) DEF BeginUpdateAgent
<1>11. ASSUME NEW u \in Users, NEW a \in Agents, BeginActivate(q, u, a)
       PROVE  req'[q].kind = "activate"
  BY <1>11 DEF BeginActivate
<1>12. ASSUME NEW u \in Users, NEW a \in Agents, BeginFire(q, u, a)
       PROVE  req'[q].kind = "fire"
  BY <1>12 DEF BeginFire
<1>13. ASSUME NEW u \in Users, NEW t \in Templates, BeginTemplate(q, u, t)
       PROVE  req'[q].kind \in {"draft", "template", "scrap"}
  BY <1>13 DEF BeginTemplate
<1> QED
  BY <1>1, <1>2, <1>3, <1>4, <1>5, <1>6, <1>7, <1>8, <1>9, <1>10, <1>11, <1>12, <1>13
  DEF BeginRequest

\* Committing closes the request and leaves every other request as it was.
LEMMA CommitFrame ==
  ASSUME TypeOK, NEW q \in Requests, NEW kind, Commit(q, kind)
  PROVE  /\ q \in Open /\ req[q].kind = kind
         /\ req'[q].step = "committed" /\ req'[q].kind = kind
         /\ \A p \in Requests \ {q} : req'[p] = req[p]
         /\ Open' = Open \ {q}
         /\ overlaps' = overlaps
BY DEF Commit, TypeOK, RequestsOK, Open

\* A rolled back request leaves no row behind and gives its slot back.
LEMMA RollbackFrame ==
  ASSUME TypeOK, NEW q \in Requests, Rollback(q)
  PROVE  /\ UNCHANGED <<catalog, project, tools, gone>>
         /\ q \in Open /\ req'[q].step = "new"
         /\ \A p \in Requests \ {q} : req'[p] = req[p]
         /\ Open' = Open \ {q}
         /\ \A p, o \in Requests \ {q} : {p, o} \in overlaps => {p, o} \in overlaps'
BY DEF Rollback, NewRequest, TypeOK, RequestsOK, Open

\* Two requests that are open together have overlapped: no step breaks that.
LEMMA OpenRequestsMeetStep ==
  ASSUME TypeOK, OpenRequestsMeet, NEW q \in Requests, Moves(q)
  PROVE  OpenRequestsMeet'
<1> USE DEF TypeOK, RequestsOK, OpenRequestsMeet, Open
<1>1. ASSUME NEW kind, NEW at, NEW arg, NEW seen, Begin(q, kind, at, arg, seen)
      PROVE  OpenRequestsMeet'
  <2>1. \A p \in Requests : p \in Open' => p = q \/ p \in Open
    BY <1>1 DEF Begin
  <2>2. \A p \in Open : {p, q} \in overlaps' /\ {q, p} \in overlaps'
    BY <1>1 DEF Begin
  <2> QED BY <1>1, <2>1, <2>2 DEF Begin
<1>2. ASSUME NEW kind, Commit(q, kind) PROVE OpenRequestsMeet'
  BY <1>2 DEF Commit
<1>3. CASE Rollback(q)
  <2>1. \A p \in Requests : p \in Open' => p # q /\ p \in Open
    BY <1>3 DEF Rollback, NewRequest
  <2> QED BY <1>3, <2>1 DEF Rollback
<1> QED BY <1>1, <1>2, <1>3 DEF Moves

\* What has overlapped a committed request has done so for good, unless it leaves
\* no trace itself.
LEMMA MetStays ==
  ASSUME TypeOK, NEW q \in Requests, Moves(q), NEW o \in Requests, NEW kinds,
         Met(o, kinds), req'[o].step # "new"
  PROVE  Met(o, kinds)'
<1> PICK p \in Requests : {p, o} \in overlaps /\ req[p].step = "committed" /\ req[p].kind \in kinds
  BY DEF Met
<1> USE DEF TypeOK, RequestsOK
<1>1. q # p
  BY DEF Moves, Begin, Commit, Rollback, Open
<1>2. req'[p] = req[p]
  BY <1>1 DEF Moves, Begin, Commit, Rollback
<1>3. {p, o} \in overlaps'
  <2>1. CASE Rollback(q)
    <3>1. req'[q].step = "new"
      BY <2>1 DEF Rollback, NewRequest
    <3> QED BY <1>1, <2>1, <3>1 DEF Rollback
  <2> QED BY <2>1 DEF Moves, Begin, Commit
<1> QED BY <1>2, <1>3 DEF Met

\* A commit counts as met by every request that is still open.
LEMMA CommitMeetsOpen ==
  ASSUME TypeOK, OpenRequestsMeet, NEW q \in Requests, NEW kind, Commit(q, kind),
         NEW o \in Open, o # q, NEW kinds, kind \in kinds
  PROVE  Met(o, kinds)'
<1>1. {q, o} \in overlaps /\ o \in Requests
  BY DEF OpenRequestsMeet, Open, Commit
<1>2. overlaps' = overlaps /\ req'[q].step = "committed" /\ req'[q].kind = kind
  BY DEF TypeOK, RequestsOK, Commit
<1> QED BY <1>1, <1>2 DEF Met

\* Two committed requests that overlapped are found by Overlapping from then on.
LEMMA CommitOverlaps ==
  ASSUME TypeOK, NEW q \in Requests, NEW kind, Commit(q, kind), NEW kinds, Met(q, kinds)
  PROVE  \A mine : kind \in mine => Overlapping(mine, kinds)' /\ Overlapping(kinds, mine)'
<1> PICK p \in Requests : {p, q} \in overlaps /\ req[p].step = "committed" /\ req[p].kind \in kinds
  BY DEF Met
<1>1. p # q /\ {p, q} = {q, p}
  BY DEF Commit
<1>2. req'[p] = req[p] /\ req'[q].step = "committed" /\ req'[q].kind = kind /\ overlaps' = overlaps
  BY <1>1 DEF TypeOK, RequestsOK, Commit
<1> QED BY <1>1, <1>2 DEF Overlapping

\* An overlap between two kinds of committed requests is never forgotten.
LEMMA OverlappingStays ==
  ASSUME TypeOK, NEW q \in Requests, Moves(q), NEW these, NEW those, Overlapping(these, those)
  PROVE  Overlapping(these, those)'
<1> PICK p \in Requests, o \in Requests :
      /\ {p, o} \in overlaps
      /\ req[p].step = "committed" /\ req[p].kind \in these
      /\ req[o].step = "committed" /\ req[o].kind \in those
  BY DEF Overlapping
<1> USE DEF TypeOK, RequestsOK
<1>1. q # p /\ q # o
  BY DEF Moves, Begin, Commit, Rollback, Open
<1>2. req'[p] = req[p] /\ req'[o] = req[o]
  BY <1>1 DEF Moves, Begin, Commit, Rollback
<1>3. {p, o} \in overlaps'
  BY <1>1 DEF Moves, Begin, Commit, Rollback
<1> QED BY <1>2, <1>3 DEF Overlapping

-----------------------------------------------------------------------------
(* The inductive invariants: what an open request found stands until it     *)
(* commits, unless one that could change it has committed in the meantime.  *)

CatalogWriters ==
  {"create", "register", "unregister", "replace", "switch", "drop", "price", "rename", "unprice"}

\* The runs of an agent that is being deleted started while it was.
DeletionsOverlapRuns ==
  /\ \A r \in runs : req[r.by].step = "committed"
  /\ \A q \in Open : req[q].kind = "fire" =>
       \A r \in runs : r.agent = req[q].at => {q, r.by} \in overlaps

\* No other platform provider than p offers the model of r.
Orphan(r, p) == \A o \in Platform \ {p} : price[r] \notin Names(provider[o].models)

RulesStand(q) ==
  /\ req[q].kind = "unregister" => \A r \in req[q].arg.rules : Orphan(r, req[q].at)
  /\ req[q].kind = "drop" => \A r \in req[q].arg : Orphan(r, req[q].at)

RulesAreOrphans == \A q \in Open : Met(q, CatalogWriters) \/ RulesStand(q)

Registered(ref) ==
  ref # None => provider[ref[1]] # None /\ ref[2] \in Names(provider[ref[1]].models)

RenameCommitted == \E q \in Requests : req[q].kind = "rename" /\ req[q].step = "committed"

ModelsExcused ==
  Overlapping(ModelWriters, ModelWriters \cup ReferenceWriters) \/ RenameCommitted

\* What the requests that select models or change them have found.
SelectionsStand(q) ==
  LET r == req[q] IN
  /\ r.kind = "select" => \A k \in Kinds : Registered(r.arg[k])
  /\ r.kind = "hire" => Registered(r.arg.model)
  /\ r.kind = "agent" /\ r.arg.model # r.seen.model => Registered(r.arg.model)

ListsStand(q) ==
  LET r == req[q] IN
  r.kind \in {"register", "unregister", "replace"} =>
    provider[r.at] # None /\ provider[r.at].models = r.seen

NotInUse(q) ==
  LET r == req[q] IN
  /\ r.kind = "unregister" => <<r.at, r.arg.entry[2]>> \notin InUse
  /\ r.kind = "replace" =>
       RefsOf(r.at, {e \in r.seen : e[1] = r.arg.kind} \ r.arg.list) \cap InUse = {}
  /\ r.kind = "drop" => \A ref \in InUse : ref[1] # r.at

NewProvider(q) ==
  req[q].kind = "create" =>
    /\ provider[req[q].at] = None
    /\ \A p \in Open : req[p].kind = "create" /\ req[p].at = req[q].at => p = q

ModelsInv ==
  /\ ModelsExcused \/ \A ref \in InUse : Registered(ref)
  /\ \A q \in Open : NewProvider(q)
  /\ \A q \in Open : Met(q, ModelWriters) \/ (SelectionsStand(q) /\ ListsStand(q))
  /\ \A q \in Open : Met(q, ModelWriters \cup ReferenceWriters) \/ NotInUse(q)

\* A template that an agent binds fits its phase or went with the account of its owner.
Fits(b) == IF template[b[2]] = None THEN b[2] \in gone ELSE template[b[2]].phase = b[1]

BindingsStand(q) ==
  LET r == req[q] IN
  /\ r.kind = "hire" => \A b \in r.arg.bind : Fits(b)
  /\ r.kind = "agent" /\ r.arg.bind # r.seen.bind => \A b \in r.arg.bind : Fits(b)

NotBound(q) ==
  LET r == req[q] IN
  /\ r.kind = "template" /\ r.arg # r.seen => ~Bound(r.at)
  /\ r.kind = "scrap" => ~Bound(r.at)

NewTemplate(q) ==
  req[q].kind = "draft" =>
    /\ template[req[q].at] = None /\ req[q].at \notin gone
    /\ \A p \in Open : req[p].kind = "draft" /\ req[p].at = req[q].at => p = q

TemplatesInv ==
  /\ BoundTemplatesFit
  /\ \A q \in Open : NewTemplate(q)
  /\ \A q \in Open : Met(q, {"template", "scrap"}) \/ BindingsStand(q)
  /\ \A q \in Open : Met(q, {"agent", "hire"}) \/ NotBound(q)

Usable(a) == agent[a] # None /\ agent[a].enabled

Idle(q) ==
  LET r == req[q] IN
  /\ r.kind = "agent" /\ r.arg.enabled # r.seen.enabled /\ ~r.arg.enabled => active # r.at
  /\ r.kind = "fire" => active # r.at

ActivationStands(q) == req[q].kind = "activate" => Usable(req[q].at)

HiredEnabled(q) == req[q].kind = "hire" => req[q].arg.enabled

ActiveInv ==
  /\ ActiveAgentIsEnabled
  /\ \A q \in Open : HiredEnabled(q)
  /\ \A q \in Open : Met(q, {"agent", "fire"}) \/ ActivationStands(q)
  /\ \A q \in Open : Met(q, {"activate"}) \/ Idle(q)

-----------------------------------------------------------------------------
(* Accepted runs.                                                          *)

\* Every step keeps it true that the runs of an agent being deleted started while it was.
LEMMA DeletionsOverlapRunsStep ==
  ASSUME TypeOK, OpenRequestsMeet, DeletionsOverlapRuns, NEW q \in Requests,
         BeginRequest(q) \/ CommitRequest(q) \/ Rollback(q)
  PROVE  DeletionsOverlapRuns'
<1> USE DEF TypeOK, RowsOK, DeletionsOverlapRuns
<1>1. CASE BeginRequest(q)
  <2>1. req'[q].kind = "fire" => \A r \in runs : r.agent # req'[q].at
    BY <1>1, BeginKinds, BeginSets DEF BeginFire
  <2> QED BY <1>1, <2>1, BeginFrame DEF Open
<1>2. CASE CommitRequest(q)
  <2>1. PICK kind : Commit(q, kind)
    BY <1>2, CommitMoves
  <2>2. \A r \in runs' : r \in runs \/ r.by = q
    <3>1. CASE StartRun(q)
      BY <3>1 DEF StartRun
    <3>2. CASE Fire(q)
      BY <3>2 DEF Fire
    <3> QED
      BY <1>2, <3>1, <3>2 DEF CommitRequest, CreateProvider, Register, Unregister, Replace,
         Switch, Drop, Price, RenamePrice, Select, Publish, SetMember, UpdateAgent, Activate,
         SetTemplate, RemoveAccount
  <2>3. \A o \in Open' : o \in Open /\ o # q /\ {o, q} \in overlaps
    BY <2>1, CommitFrame DEF OpenRequestsMeet
  <2>4. \A r \in runs' : req'[r.by].step = "committed"
    BY <2>1, <2>2, CommitFrame
  <2>5. \A o \in Open' : req'[o] = req[o]
    BY <2>1, CommitFrame DEF Open
  <2>6. overlaps' = overlaps /\ \A o : {o, q} = {q, o}
    BY <2>1, CommitFrame
  <2> QED BY <2>2, <2>3, <2>4, <2>5, <2>6
<1>3. CASE Rollback(q)
  <2>1. \A r \in runs : r.by # q
    BY <1>3, RollbackFrame DEF Open
  <2> QED BY <1>3, <2>1, RollbackFrame DEF Open
<1> QED BY <1>1, <1>2, <1>3

\* The invariant holds of every reachable state, with the fact about overlaps that
\* carries it.
LEMMA DeletionsOverlap == Spec => [](TypeOK /\ OpenRequestsMeet /\ DeletionsOverlapRuns)
<1> DEFINE Inv == TypeOK /\ OpenRequestsMeet /\ DeletionsOverlapRuns
<1>1. Init => OpenRequestsMeet /\ DeletionsOverlapRuns
  BY DEF Init, OpenRequestsMeet, DeletionsOverlapRuns, Open, NewRequest
<1>2. TypeOK /\ TypeOK' /\ OpenRequestsMeet /\ DeletionsOverlapRuns /\ [Next]_vars
        => OpenRequestsMeet' /\ DeletionsOverlapRuns'
  <2>1. CASE UNCHANGED vars
    BY <2>1 DEF OpenRequestsMeet, DeletionsOverlapRuns, Open
  <2> QED
    BY <2>1, RequestsMove, OpenRequestsMeetStep, DeletionsOverlapRunsStep DEF Next
<1> QED BY <1>1, <1>2, TypeCorrect, PTL DEF Spec

\* A run that was accepted is deleted only by the deletion of its agent, begun before
\* the run had started (delete_project_agent, agent_runs.agent_id ON DELETE CASCADE).
THEOREM RunsOutliveTheirAgents == Spec => AcceptedRunsStay
<1> DEFINE Stays == \A r \in runs \ runs' :
                      \E q \in Requests : Committing(q, {"fire"}) /\ {q, r.by} \in overlaps
<1>1. TypeOK /\ OpenRequestsMeet /\ DeletionsOverlapRuns /\ [Next]_vars => [Stays]_vars
  <2> SUFFICES ASSUME TypeOK, DeletionsOverlapRuns, Next, NEW r \in runs \ runs'
               PROVE  \E q \in Requests : Committing(q, {"fire"}) /\ {q, r.by} \in overlaps
    OBVIOUS
  <2>1. PICK q \in Requests : Fire(q)
    <3>1. PICK q \in Requests : BeginRequest(q) \/ CommitRequest(q) \/ Rollback(q)
      BY DEF Next
    <3>2. CommitRequest(q)
      BY <3>1, BeginFrame, RollbackFrame
    <3> QED
      BY <3>2 DEF CommitRequest, CreateProvider, Register, Unregister, Replace,
         Switch, Drop, Price, RenamePrice, Select, Publish, SetMember, UpdateAgent, Activate,
         StartRun, SetTemplate, RemoveAccount
  <2>2. q \in Open /\ req[q].kind = "fire" /\ req'[q].step = "committed"
    BY <2>1 DEF Fire, Commit, Open, TypeOK, RequestsOK
  <2>3. r.agent = req[q].at
    BY <2>1 DEF Fire
  <2> QED BY <2>2, <2>3 DEF DeletionsOverlapRuns, Committing, Open
<1> QED BY <1>1, DeletionsOverlap, PTL DEF Spec, AcceptedRunsStay

-----------------------------------------------------------------------------
(* Prices.                                                                 *)

\* Another request that stays open keeps what it has read and whom it has met.
LEMMA OthersKeep ==
  ASSUME TypeOK, NEW q \in Requests, BeginRequest(q) \/ CommitRequest(q) \/ Rollback(q),
         NEW o \in Open', o # q
  PROVE  /\ o \in Open /\ o \in Requests /\ req'[o] = req[o]
         /\ \A kinds : Met(o, kinds) => Met(o, kinds)'
<1>1. o \in Open /\ o \in Requests /\ req'[o] = req[o]
  BY BeginFrame, CommitMoves, CommitFrame, RollbackFrame DEF Open
<1>2. req'[o].step # "new"
  BY <1>1 DEF Open
<1> QED BY <1>1, <1>2, RequestsMove, MetStays

\* Only the requests named as its writers change the catalog.
LEMMA CatalogFrame ==
  ASSUME NEW q \in Requests, CommitRequest(q)
  PROVE  UNCHANGED catalog \/ \E kind \in CatalogWriters : Commit(q, kind)
BY DEF CommitRequest, CreateProvider, Register, Unregister, Replace, Switch, Drop, Price,
   RenamePrice, Select, Publish, SetMember, UpdateAgent, Activate, Fire, StartRun, SetTemplate,
   RemoveAccount, CatalogWriters

\* Every step keeps a rule without its model excused by the overlap that orphaned it.
LEMMA RulesAreOrphansStep ==
  ASSUME TypeOK, OpenRequestsMeet, RulesAreOrphans, NEW q \in Requests,
         BeginRequest(q) \/ CommitRequest(q) \/ Rollback(q)
  PROVE  RulesAreOrphans'
<1> SUFFICES ASSUME NEW o \in Open'
             PROVE  Met(o, CatalogWriters)' \/ RulesStand(o)'
  BY DEF RulesAreOrphans
<1>1. CASE o # q /\ UNCHANGED catalog
  <2>1. req'[o] = req[o] /\ o \in Open /\ (Met(o, CatalogWriters) => Met(o, CatalogWriters)')
    BY <1>1, OthersKeep
  <2>2. RulesStand(o) => RulesStand(o)'
    BY <1>1, <2>1 DEF RulesStand, Orphan, Platform
  <2> QED BY <2>1, <2>2 DEF RulesAreOrphans
<1>2. ASSUME o # q, NEW kind \in CatalogWriters, Commit(q, kind)
      PROVE  Met(o, CatalogWriters)'
  <2>1. o \in Open
    BY <1>2, CommitFrame
  <2> QED BY <1>2, <2>1, CommitMeetsOpen
<1>3. CASE o = q
  <2>1. BeginRequest(q)
    BY <1>3, CommitMoves, CommitFrame, RollbackFrame
  <2>2. UNCHANGED catalog
    BY <2>1, BeginFrame
  <2>3. \A p \in Providers : \A names : \A r \in OrphanRules(p, names) : Orphan(r, p)'
    BY <2>2 DEF OrphanRules, Orphan, Platform
  <2>4. CASE req'[q].kind = "unregister"
    <3> PICK p \in Providers : BeginUnregister(q, p)
      BY <2>1, <2>4, BeginKinds
    <3>1. PICK entry \in Entries :
            Begin(q, "unregister", p, [entry |-> entry, rules |-> OrphanRules(p, {entry[2]})],
                  provider[p].models)
      BY DEF BeginUnregister
    <3>2. req'[q].at = p /\ req'[q].arg.rules = OrphanRules(p, {entry[2]})
      BY <3>1, BeginSets
    <3>3. \A r \in req'[q].arg.rules : Orphan(r, p)'
      BY <2>3, <3>2
    <3> QED BY <1>3, <2>4, <3>2, <3>3 DEF RulesStand, Orphan
  <2>5. CASE req'[q].kind = "drop"
    <3> PICK p \in Providers : BeginDrop(q, p)
      BY <2>1, <2>5, BeginKinds
    <3>1. req'[q].at = p
          /\ req'[q].arg \in {OrphanRules(p, Names(provider[p].models)), {}}
      BY BeginSets DEF BeginDrop
    <3>2. \A r \in req'[q].arg : Orphan(r, p)'
      BY <2>3, <3>1
    <3> QED BY <1>3, <2>5, <3>1, <3>2 DEF RulesStand, Orphan
  <2> QED BY <1>3, <2>4, <2>5 DEF RulesStand
<1> QED BY <1>1, <1>2, <1>3, BeginFrame, RollbackFrame, CatalogFrame

\* The pricing theorem's invariant, as an invariant of the specification.
LEMMA OrphansStand == Spec => [](TypeOK /\ OpenRequestsMeet /\ RulesAreOrphans)
<1>1. Init => OpenRequestsMeet /\ RulesAreOrphans
  BY DEF Init, OpenRequestsMeet, RulesAreOrphans, Open, NewRequest
<1>2. TypeOK /\ OpenRequestsMeet /\ RulesAreOrphans /\ [Next]_vars
        => OpenRequestsMeet' /\ RulesAreOrphans'
  <2>1. CASE UNCHANGED vars
    BY <2>1 DEF OpenRequestsMeet, RulesAreOrphans, RulesStand, Open, Met, Orphan, Platform
  <2> QED
    BY <2>1, RequestsMove, OpenRequestsMeetStep, RulesAreOrphansStep DEF Next
<1> QED BY <1>1, <1>2, TypeCorrect, PTL DEF Spec

\* Removing a model or a provider takes no price from a model that another platform
\* provider offers, unless requests overlapped (_prune_orphan_model_references).
THEOREM PricesOutliveProviders == Spec => OfferedModelsKeepTheirPrice
<1> DEFINE Keeps ==
      \A q \in Requests, r \in Rules :
        Committing(q, {"unregister", "drop"}) /\ price[r] # None /\ price'[r] = None =>
          \/ \A p \in Platform' \ {req[q].at} : price[r] \notin Names(provider'[p].models)
          \/ \E p \in Requests : {p, q} \in overlaps
<1>1. TypeOK /\ OpenRequestsMeet /\ RulesAreOrphans /\ [Next]_vars => [Keeps]_vars
  <2> SUFFICES ASSUME TypeOK, RulesAreOrphans, Next, NEW q \in Requests, NEW r \in Rules,
                      Committing(q, {"unregister", "drop"}), price[r] # None, price'[r] = None,
                      ~ \E p \in Requests : {p, q} \in overlaps
               PROVE  \A p \in Platform' \ {req[q].at} : price[r] \notin Names(provider'[p].models)
    OBVIOUS
  <2>1. q \in Open /\ ~Met(q, CatalogWriters)
    BY DEF Committing, Open, Met
  <2>2. CommitRequest(q)
    <3>1. PICK o \in Requests : BeginRequest(o) \/ CommitRequest(o) \/ Rollback(o)
      BY DEF Next
    <3>2. req'[q].step = "committed" /\ req[q].step = "read"
      BY DEF Committing
    <3> QED BY <3>1, <3>2, BeginFrame, RollbackFrame, CommitMoves, CommitFrame
  <2>3. CASE req[q].kind = "unregister"
    <3>1. Unregister(q)
      BY <2>2, <2>3 DEF CommitRequest, CreateProvider, Register, Replace, Switch, Drop, Price,
         RenamePrice, Select, Publish, SetMember, UpdateAgent, Activate, Fire, StartRun,
         SetTemplate, RemoveAccount, Commit
    <3>2. r \in req[q].arg.rules
      BY <3>1 DEF Unregister, Pruned
    <3>3. Orphan(r, req[q].at)
      BY <2>1, <2>3, <3>2 DEF RulesAreOrphans, RulesStand
    <3>4. \A p \in Providers \ {req[q].at} : provider'[p] = provider[p]
      BY <3>1 DEF Unregister, TypeOK, RowsOK
    <3> QED BY <3>3, <3>4 DEF Orphan, Platform
  <2>4. CASE req[q].kind = "drop"
    <3>1. Drop(q)
      BY <2>2, <2>4 DEF CommitRequest, CreateProvider, Register, Unregister, Replace, Switch,
         Price, RenamePrice, Select, Publish, SetMember, UpdateAgent, Activate, Fire, StartRun,
         SetTemplate, RemoveAccount, Commit
    <3>2. r \in req[q].arg
      BY <3>1 DEF Drop, Pruned
    <3>3. Orphan(r, req[q].at)
      BY <2>1, <2>4, <3>2 DEF RulesAreOrphans, RulesStand
    <3>4. \A p \in Providers \ {req[q].at} : provider'[p] = provider[p]
      BY <3>1 DEF Drop, TypeOK, RowsOK
    <3> QED BY <3>3, <3>4 DEF Orphan, Platform
  <2> QED BY <2>3, <2>4 DEF Committing
<1> QED BY <1>1, OrphansStand, PTL DEF Spec, OfferedModelsKeepTheirPrice

-----------------------------------------------------------------------------
(* The active agent.                                                       *)

\* Only hiring, editing, activating and firing change agents and the active one.
LEMMA AgentFrame ==
  ASSUME NEW q \in Requests, CommitRequest(q)
  PROVE  \/ UNCHANGED <<agent, active>>
         \/ Commit(q, "hire") /\ UpdateAgent(q)
         \/ Commit(q, "agent") /\ UpdateAgent(q)
         \/ Commit(q, "activate") /\ Activate(q)
         \/ Commit(q, "fire") /\ Fire(q)
BY DEF CommitRequest, CreateProvider, Register, Unregister, Replace, Switch, Drop, Price,
   RenamePrice, Select, Publish, SetMember, UpdateAgent, Activate, Fire, StartRun, SetTemplate,
   RemoveAccount

\* Every step keeps the active agent an enabled one where no overlap excuses it.
LEMMA ActiveAgentStep ==
  ASSUME TypeOK, TypeOK', ActiveInv, NEW q \in Requests,
         BeginRequest(q) \/ CommitRequest(q) \/ Rollback(q)
  PROVE  ActiveAgentIsEnabled'
<1> USE DEF ActiveInv, ActiveAgentIsEnabled
<1>1. CASE Overlapping({"activate"}, {"agent", "fire"})
  BY <1>1, RequestsMove, OverlappingStays
<1>2. CASE active # None /\ agent[active].enabled /\ UNCHANGED <<agent, active>>
  BY <1>2
<1>3. ASSUME active # None /\ agent[active].enabled, NEW kind \in {"hire", "agent"},
             Commit(q, kind), UpdateAgent(q)
      PROVE  ActiveAgentIsEnabled'
  <2>1. CASE Met(q, {"activate"}) /\ kind = "agent"
    BY <1>3, <2>1, CommitOverlaps
  <2>2. CASE kind = "hire"
    <3>1. req[q].arg.enabled /\ agent' = [agent EXCEPT ![req[q].at] = req[q].arg] /\ active' = active
      BY <1>3, <2>2, CommitFrame DEF UpdateAgent, Commit, HiredEnabled
    <3> QED BY <1>3, <3>1 DEF TypeOK, RowsOK
  <2>3. CASE ~Met(q, {"activate"}) /\ kind = "agent"
    <3>1. Idle(q) /\ req[q].kind = "agent" /\ active' = active
      BY <1>3, <2>3, CommitFrame DEF UpdateAgent
    <3>2. CASE active # req[q].at
      <4>1. agent'[active] = agent[active]
        BY <1>3, <3>2 DEF UpdateAgent, TypeOK, RowsOK
      <4> QED BY <1>3, <3>1, <4>1
    <3>3. CASE active = req[q].at
      <4>1. req[q].arg.enabled = req[q].seen.enabled \/ req[q].arg.enabled
        BY <3>1, <3>3 DEF Idle
      <4>2. agent[active] \in AgentRows
        BY <1>3 DEF TypeOK, RowsOK
      <4>3. agent'[active].enabled
              = Assigned(req[q].seen.enabled, req[q].arg.enabled, agent[active].enabled)
        <5>1. agent' = [agent EXCEPT
                ![active].enabled = Assigned(req[q].seen.enabled, req[q].arg.enabled, @),
                ![active].model = Assigned(req[q].seen.model, req[q].arg.model, @),
                ![active].bind = Assigned(req[q].seen.bind, req[q].arg.bind, @)]
          BY <1>3, <3>1, <3>3 DEF UpdateAgent, Commit
        <5> QED BY <5>1, <3>3, <4>2, <2>3, <1>3, CommitRequestsOK
            DEF TypeOK, RowsOK, AgentRows, ProjectRequestOK
      <4> QED BY <1>3, <3>1, <4>1, <4>3 DEF Assigned
    <3> QED BY <3>2, <3>3
  <2> QED BY <1>3, <2>1, <2>2, <2>3
<1>4. ASSUME active # None /\ agent[active].enabled, Commit(q, "activate"), Activate(q)
      PROVE  ActiveAgentIsEnabled'
  <2>1. CASE Met(q, {"agent", "fire"})
    BY <1>4, <2>1, CommitOverlaps
  <2>2. CASE ActivationStands(q)
    <3>1. Usable(req[q].at) /\ req[q].at \in Agents
      BY <1>4, <2>2, CommitFrame, CommitRequestsOK DEF ActivationStands, TypeOK, ProjectRequestOK
    <3> QED BY <1>4, <3>1, IdsAssumption DEF Activate, Assigned, Usable
  <2> QED BY <1>4, <2>1, <2>2, CommitFrame
<1>5. ASSUME active # None /\ agent[active].enabled, Commit(q, "fire"), Fire(q)
      PROVE  ActiveAgentIsEnabled'
  <2>1. CASE Met(q, {"activate"})
    BY <1>5, <2>1, CommitOverlaps
  <2>2. CASE Idle(q)
    <3>1. active # req[q].at
      BY <1>5, <2>2, CommitFrame DEF Idle
    <3> QED BY <1>5, <3>1 DEF Fire, TypeOK, RowsOK
  <2> QED BY <1>5, <2>1, <2>2, CommitFrame
<1> QED BY <1>1, <1>2, <1>3, <1>4, <1>5, AgentFrame, BeginFrame, RollbackFrame

\* What a request that begins has found of the agents.
LEMMA BeginFindsAgents ==
  ASSUME TypeOK, NEW q \in Requests, BeginRequest(q)
  PROVE  HiredEnabled(q)' /\ ActivationStands(q)' /\ Idle(q)'
<1> USE BeginSets, BeginFrame DEF HiredEnabled, ActivationStands, Idle, Usable
<1>1. ASSUME NEW u \in Users, NEW a \in Agents, BeginUpdateAgent(q, u, a)
      PROVE  HiredEnabled(q)' /\ Idle(q)'
  <2>1. ASSUME NEW m, NEW bind, Begin(q, "hire", a, AgentRow(u, m, bind), None)
        PROVE  HiredEnabled(q)' /\ Idle(q)'
    BY <2>1 DEF AgentRow
  <2>2. ASSUME agent[a] # None, agent[a].enabled => active # a,
               Begin(q, "agent", a, [agent[a] EXCEPT !.enabled = ~agent[a].enabled], agent[a])
        PROVE  HiredEnabled(q)' /\ Idle(q)'
    <3>1. agent[a] \in AgentRows
      BY <2>2 DEF TypeOK, RowsOK
    <3> DEFINE new == [agent[a] EXCEPT !.enabled = ~agent[a].enabled]
    <3>2. ~new.enabled => agent[a].enabled
      BY <3>1 DEF AgentRows
    <3> HIDE DEF new
    <3>3. req'[q].arg = new
      BY <2>2 DEF new
    <3>4. req'[q].kind = "agent" /\ req'[q].at = a /\ active' = active
      BY <2>2
    <3> QED BY <2>2, <3>2, <3>3, <3>4
  <2>3. ASSUME agent[a] # None, NEW new, new.enabled = agent[a].enabled,
               Begin(q, "agent", a, new, agent[a])
        PROVE  HiredEnabled(q)' /\ Idle(q)'
    BY <2>3
  <2>4. ASSUME agent[a] # None
        PROVE  /\ \A m : [agent[a] EXCEPT !.model = m].enabled = agent[a].enabled
               /\ \A bind : [agent[a] EXCEPT !.bind = bind].enabled = agent[a].enabled
    BY <2>4 DEF TypeOK, RowsOK, AgentRows
  <2> QED BY <1>1, <2>1, <2>2, <2>3, <2>4 DEF BeginUpdateAgent
<1>2. ASSUME NEW u \in Users, NEW a \in Agents, BeginActivate(q, u, a)
      PROVE  ActivationStands(q)'
  BY <1>2 DEF BeginActivate
<1>3. ASSUME NEW u \in Users, NEW a \in Agents, BeginFire(q, u, a)
      PROVE  Idle(q)'
  BY <1>3 DEF BeginFire
<1> QED BY <1>1, <1>2, <1>3, BeginKinds

\* What another request has found of the agents stands, or the request that changed it
\* has overlapped it.
LEMMA FoundAgentsStand ==
  ASSUME TypeOK, OpenRequestsMeet, ActiveInv, NEW q \in Requests,
         BeginRequest(q) \/ CommitRequest(q) \/ Rollback(q),
         NEW o \in Open', o # q
  PROVE  /\ HiredEnabled(o)'
         /\ Met(o, {"agent", "fire"})' \/ ActivationStands(o)'
         /\ Met(o, {"activate"})' \/ Idle(o)'
<1> USE DEF HiredEnabled, ActivationStands, Idle
<1>0. /\ o \in Open /\ o \in Requests /\ req'[o] = req[o] /\ HiredEnabled(o)
      /\ \A kinds : Met(o, kinds) => Met(o, kinds)'
  BY OthersKeep DEF ActiveInv
<1>1. HiredEnabled(o)'
  BY <1>0
<1>2. CASE UNCHANGED <<agent, active>>
  <2>1. ActivationStands(o) => ActivationStands(o)'
    BY <1>0, <1>2 DEF Usable
  <2>2. Idle(o) => Idle(o)'
    BY <1>0, <1>2
  <2> QED BY <1>0, <2>1, <2>2 DEF ActiveInv
<1>3. ASSUME Commit(q, "hire"), UpdateAgent(q)
      PROVE  ActivationStands(o) => ActivationStands(o)'
  <2>1. /\ agent' = [agent EXCEPT ![req[q].at] = req[q].arg]
        /\ req[q].arg.enabled /\ req[q].arg \in AgentRows
    BY <1>3, CommitFrame, CommitRequestsOK
    DEF UpdateAgent, Commit, ActiveInv, TypeOK, ProjectRequestOK
  <2>2. \A a \in Agents : Usable(a) => Usable(a)'
    BY <2>1, RowsAssumption DEF Usable, TypeOK, RowsOK
  <2> QED BY <1>0, <2>2 DEF Open, TypeOK, RequestsOK, ProjectRequestOK
<1>4. ASSUME NEW kind \in {"agent", "fire"}, Commit(q, kind)
      PROVE  Met(o, {"agent", "fire"})'
  BY <1>0, <1>4, CommitMeetsOpen
<1>5. ASSUME Commit(q, "activate")
      PROVE  Met(o, {"activate"})'
  BY <1>0, <1>5, CommitMeetsOpen
<1>6. ASSUME UpdateAgent(q) \/ Fire(q)
      PROVE  Idle(o) => Idle(o)'
  <2>1. active' \in {active, None}
    BY <1>6 DEF UpdateAgent, Fire
  <2>2. req[o].kind \in {"agent", "fire"} => req[o].at # None
    BY <1>0, IdsAssumption DEF Open, TypeOK, RequestsOK, ProjectRequestOK
  <2> QED BY <1>0, <2>1, <2>2
<1>7. ASSUME Activate(q)
      PROVE  ActivationStands(o) => ActivationStands(o)'
  BY <1>0, <1>7 DEF Activate, Usable
<1> QED
  BY <1>0, <1>1, <1>2, <1>3, <1>4, <1>5, <1>6, <1>7, AgentFrame, BeginFrame, RollbackFrame
  DEF ActiveInv

\* Every step keeps what open requests rely on about the active agent.
LEMMA ActiveInvStep ==
  ASSUME TypeOK, TypeOK', OpenRequestsMeet, ActiveInv, NEW q \in Requests,
         BeginRequest(q) \/ CommitRequest(q) \/ Rollback(q)
  PROVE  ActiveInv'
<1>1. ASSUME NEW o \in Open'
      PROVE  /\ HiredEnabled(o)'
             /\ Met(o, {"agent", "fire"})' \/ ActivationStands(o)'
             /\ Met(o, {"activate"})' \/ Idle(o)'
  <2>1. CASE o = q
    BY <2>1, BeginFindsAgents, CommitMoves, CommitFrame, RollbackFrame
  <2> QED BY <2>1, FoundAgentsStand
<1> QED BY <1>1, ActiveAgentStep DEF ActiveInv

-----------------------------------------------------------------------------
(* Prompt templates.                                                       *)

\* Only agent, template and account requests change agents and templates.
LEMMA TemplateFrame ==
  ASSUME NEW q \in Requests, CommitRequest(q)
  PROVE  \/ UNCHANGED <<agent, template, gone>>
         \/ (Commit(q, "hire") \/ Commit(q, "agent")) /\ UpdateAgent(q)
         \/ Commit(q, "fire") /\ Fire(q)
         \/ (Commit(q, "draft") \/ Commit(q, "template") \/ Commit(q, "scrap")) /\ SetTemplate(q)
         \/ Commit(q, "remove") /\ RemoveAccount(q)
BY DEF CommitRequest, CreateProvider, Register, Unregister, Replace, Switch, Drop, Price,
   RenamePrice, Select, Publish, SetMember, UpdateAgent, Activate, Fire, StartRun, SetTemplate,
   RemoveAccount

\* The bindings of an agent after its update are those it had or those of the request.
LEMMA UpdatedBindings ==
  ASSUME TypeOK, NEW q \in Requests, UpdateAgent(q), NEW a \in Agents, agent'[a] # None,
         NEW b \in agent'[a].bind
  PROVE  \/ agent[a] # None /\ b \in agent[a].bind
         \/ /\ b \in req[q].arg.bind
            /\ req[q].kind = "hire" \/ (req[q].kind = "agent" /\ req[q].arg.bind # req[q].seen.bind)
<1>1. CASE a # req[q].at
  <2>1. agent'[a] = agent[a]
    BY <1>1 DEF UpdateAgent, TypeOK, RowsOK
  <2> QED BY <2>1
<1>2. CASE a = req[q].at /\ Commit(q, "hire")
  <2>1. req[q].kind = "hire" /\ agent' = [agent EXCEPT ![req[q].at] = req[q].arg]
    BY <1>2 DEF UpdateAgent, Commit
  <2>2. agent'[a] = req[q].arg
    BY <1>2, <2>1 DEF TypeOK, RowsOK
  <2> QED BY <2>1, <2>2
<1>3. CASE a = req[q].at /\ Commit(q, "agent")
  <2>1. req[q].kind = "agent" /\ agent[a] # None /\ agent[a] \in AgentRows
        /\ agent' = [agent EXCEPT
             ![a].enabled = Assigned(req[q].seen.enabled, req[q].arg.enabled, @),
             ![a].model = Assigned(req[q].seen.model, req[q].arg.model, @),
             ![a].bind = Assigned(req[q].seen.bind, req[q].arg.bind, @)]
    BY <1>3 DEF UpdateAgent, Commit, TypeOK, RowsOK
  <2>2. agent'[a].bind = Assigned(req[q].seen.bind, req[q].arg.bind, agent[a].bind)
    BY <2>1 DEF TypeOK, RowsOK, AgentRows
  <2> QED BY <2>1, <2>2 DEF Assigned
<1> QED BY <1>1, <1>2, <1>3 DEF UpdateAgent

\* Every step keeps bound templates fitting where no overlap excuses it.
LEMMA BoundTemplatesStep ==
  ASSUME TypeOK, TypeOK', TemplatesInv, NEW q \in Requests,
         BeginRequest(q) \/ CommitRequest(q) \/ Rollback(q)
  PROVE  BoundTemplatesFit'
<1> DEFINE Fitting == \A a \in Agents : agent[a] # None => \A b \in agent[a].bind : Fits(b)
<1>0. /\ BoundTemplatesFit <=> Fitting \/ Overlapping({"agent", "hire"}, {"template", "scrap"})
      /\ (BoundTemplatesFit <=> Fitting \/ Overlapping({"agent", "hire"}, {"template", "scrap"}))'
  BY DEF BoundTemplatesFit, Fits
<1>1. CASE Overlapping({"agent", "hire"}, {"template", "scrap"})
  BY <1>0, <1>1, RequestsMove, OverlappingStays
<1>2. CASE Fitting /\ UNCHANGED <<agent, template, gone>>
  BY <1>0, <1>2 DEF Fits
<1>3. ASSUME Fitting, NEW kind \in {"hire", "agent"}, Commit(q, kind), UpdateAgent(q)
      PROVE  BoundTemplatesFit'
  <2>1. CASE Met(q, {"template", "scrap"})
    BY <1>0, <1>3, <2>1, CommitOverlaps
  <2>2. CASE BindingsStand(q)
    <3>1. UNCHANGED <<template, gone>>
      BY <1>3 DEF UpdateAgent
    <3>2. \A a \in Agents : agent'[a] # None => \A b \in agent'[a].bind : Fits(b)
      BY <1>3, <2>2, UpdatedBindings DEF BindingsStand
    <3> QED BY <1>0, <3>1, <3>2 DEF Fits
  <2> QED BY <1>3, <2>1, <2>2, CommitFrame DEF TemplatesInv
<1>4. ASSUME Fitting, Fire(q)
      PROVE  Fitting'
  BY <1>4 DEF Fire, Fits, TypeOK, RowsOK
<1>5. ASSUME Fitting, NEW kind \in {"template", "scrap"}, Commit(q, kind), SetTemplate(q)
      PROVE  BoundTemplatesFit'
  <2>1. CASE Met(q, {"agent", "hire"})
    BY <1>0, <1>5, <2>1, CommitOverlaps
  <2>2. CASE NotBound(q)
    <3>1. req[q].kind = kind /\ UNCHANGED <<agent, gone>>
      BY <1>5, CommitFrame DEF SetTemplate
    <3>2. \A t \in Templates : template'[t] = template[t] \/ (t = req[q].at /\ ~Bound(t))
      BY <1>5, <2>2, <3>1 DEF SetTemplate, Commit, NotBound, Assigned, TypeOK, RowsOK
    <3>3. ASSUME NEW a \in Agents, agent[a] # None, NEW b \in agent[a].bind
          PROVE  Fits(b)'
      <4>1. Fits(b) /\ b[2] \in Templates /\ Bound(b[2])
        BY <1>5, <3>3 DEF TypeOK, RowsOK, AgentRows, Bound
      <4> QED BY <3>1, <3>2, <4>1 DEF Fits
    <3> QED BY <1>0, <3>1, <3>3
  <2> QED BY <1>5, <2>1, <2>2, CommitFrame DEF TemplatesInv
<1>6. ASSUME Fitting, Commit(q, "draft"), SetTemplate(q)
      PROVE  Fitting'
  <2>1. template[req[q].at] = None /\ req[q].at \notin gone
    BY <1>6, CommitFrame DEF TemplatesInv, NewTemplate
  <2>2. template' = [template EXCEPT ![req[q].at] = req[q].arg] /\ UNCHANGED <<agent, gone>>
    BY <1>6 DEF SetTemplate, Commit
  <2>3. ASSUME NEW a \in Agents, agent[a] # None, NEW b \in agent[a].bind
        PROVE  Fits(b)'
    <3>1. Fits(b) /\ b[2] \in Templates
      BY <1>6, <2>3 DEF TypeOK, RowsOK, AgentRows
    <3> QED BY <2>1, <2>2, <3>1 DEF Fits, TypeOK, RowsOK
  <2> QED BY <2>2, <2>3
<1>7. ASSUME Fitting, RemoveAccount(q)
      PROVE  Fitting'
  <2>1. ASSUME NEW a \in Agents, agent[a] # None, NEW b \in agent[a].bind
        PROVE  Fits(b)'
    <3>1. Fits(b) /\ b[2] \in Templates
      BY <1>7, <2>1 DEF TypeOK, RowsOK, AgentRows
    <3> QED BY <1>7, <3>1 DEF Fits, RemoveAccount
  <2> QED BY <1>7, <2>1 DEF RemoveAccount
<1> QED
  BY <1>0, <1>1, <1>2, <1>3, <1>4, <1>5, <1>6, <1>7, TemplateFrame, BeginFrame, RollbackFrame
  DEF TemplatesInv

\* What a request that begins has found of the templates.
LEMMA BeginFindsTemplates ==
  ASSUME TypeOK, NEW q \in Requests, BeginRequest(q)
  PROVE  NewTemplate(q)' /\ BindingsStand(q)' /\ NotBound(q)'
<1> USE BeginSets, BeginFrame DEF NewTemplate, BindingsStand, NotBound
<1>1. ASSUME NEW u \in Users, NEW a \in Agents, BeginUpdateAgent(q, u, a)
      PROVE  BindingsStand(q)'
  <2>1. \A b : Fits(b)' = Fits(b)
    BY DEF Fits
  <2>2. \A bind \in Bindings : Bindable(u, bind) => \A b \in bind : Fits(b)
    BY DEF Bindable, Fits
  <2>3. ASSUME NEW m, NEW bind \in Bindings, Bindable(u, bind),
               Begin(q, "hire", a, AgentRow(u, m, bind), None)
        PROVE  BindingsStand(q)'
    BY <2>1, <2>2, <2>3 DEF AgentRow
  <2>4. ASSUME agent[a] # None,
               Begin(q, "agent", a, [agent[a] EXCEPT !.enabled = ~agent[a].enabled], agent[a])
        PROVE  BindingsStand(q)'
    <3> DEFINE new == [agent[a] EXCEPT !.enabled = ~agent[a].enabled]
    <3>1. new.bind = agent[a].bind
      BY <2>4 DEF TypeOK, RowsOK, AgentRows
    <3>2. Begin(q, "agent", a, new, agent[a])
      BY <2>4
    <3> HIDE DEF new
    <3> QED BY <3>1, <3>2
  <2>5. ASSUME agent[a] # None, NEW m,
               Begin(q, "agent", a, [agent[a] EXCEPT !.model = m], agent[a])
        PROVE  BindingsStand(q)'
    <3> DEFINE new == [agent[a] EXCEPT !.model = m]
    <3>1. new.bind = agent[a].bind
      BY <2>5 DEF TypeOK, RowsOK, AgentRows
    <3>2. Begin(q, "agent", a, new, agent[a])
      BY <2>5
    <3> HIDE DEF new
    <3> QED BY <3>1, <3>2
  <2>6. ASSUME agent[a] # None, NEW bind \in Bindings, Bindable(u, bind),
               Begin(q, "agent", a, [agent[a] EXCEPT !.bind = bind], agent[a])
        PROVE  BindingsStand(q)'
    <3> DEFINE new == [agent[a] EXCEPT !.bind = bind]
    <3>1. new.bind = bind
      BY <2>6 DEF TypeOK, RowsOK, AgentRows
    <3>2. Begin(q, "agent", a, new, agent[a])
      BY <2>6
    <3> HIDE DEF new
    <3> QED BY <2>1, <2>2, <2>6, <3>1, <3>2
  <2> QED BY <1>1, <2>3, <2>4, <2>5, <2>6 DEF BeginUpdateAgent
<1>2. ASSUME NEW u \in Users, NEW t \in Templates, BeginTemplate(q, u, t)
      PROVE  NewTemplate(q)' /\ NotBound(q)'
  <2>1. Bound(t)' = Bound(t)
    BY DEF Bound
  <2>2. ASSUME NEW phase \in Phases, template[t] = None, t \notin gone,
               \A other \in Requests : req[other].at # t,
               Begin(q, "draft", t, TemplateRow(u, phase), None)
        PROVE  NewTemplate(q)' /\ NotBound(q)'
    BY <2>2 DEF Open
  <2>3. ASSUME NEW phase \in Phases, template[t] # None, template[t].owner = u,
               phase # template[t].phase => ~Bound(t),
               Begin(q, "template", t, TemplateRow(u, phase), template[t])
        PROVE  NewTemplate(q)' /\ NotBound(q)'
    <3>1. phase = template[t].phase => TemplateRow(u, phase) = template[t]
      BY <2>3 DEF TemplateRow, TypeOK, RowsOK, TemplateRows
    <3> QED BY <2>1, <2>3, <3>1
  <2>4. ASSUME ~Bound(t), Begin(q, "scrap", t, None, None)
        PROVE  NewTemplate(q)' /\ NotBound(q)'
    BY <2>1, <2>4
  <2> QED BY <1>2, <2>2, <2>3, <2>4 DEF BeginTemplate
<1> QED BY <1>1, <1>2, BeginKinds

\* What another request has found of the templates stands, or the request that changed
\* it has overlapped it.
LEMMA FoundTemplatesStand ==
  ASSUME TypeOK, OpenRequestsMeet, TemplatesInv, NEW q \in Requests,
         BeginRequest(q) \/ CommitRequest(q) \/ Rollback(q),
         NEW o \in Open', o # q
  PROVE  /\ NewTemplate(o)'
         /\ Met(o, {"template", "scrap"})' \/ BindingsStand(o)'
         /\ Met(o, {"agent", "hire"})' \/ NotBound(o)'
<1>0. /\ o \in Open /\ o \in Requests /\ req'[o] = req[o] /\ NewTemplate(o)
      /\ \A kinds : Met(o, kinds) => Met(o, kinds)'
      /\ CatalogRequestOK(req[o]) /\ ProjectRequestOK(req[o])
  BY OthersKeep DEF TemplatesInv, Open, TypeOK, RequestsOK
<1>1. NewTemplate(o)'
  <2>1. CASE req[o].kind # "draft"
    BY <1>0, <2>1 DEF NewTemplate
  <2>2. CASE req[o].kind = "draft"
    <3> DEFINE t == req[o].at
    <3>1. t \in Templates /\ template[t] = None /\ t \notin gone
      BY <1>0, <2>2 DEF NewTemplate, ProjectRequestOK
    <3>2. \A p \in Open' : req'[p].kind = "draft" /\ req'[p].at = t => p = o
      <4>1. ASSUME BeginRequest(q), req'[q].kind = "draft", req'[q].at = t
            PROVE  FALSE
        <5>1. PICK u \in Users, s \in Templates : BeginTemplate(q, u, s)
          BY <4>1, BeginKinds
        <5>2. \A other \in Requests : req[other].at # t
          BY <4>1, <5>1, BeginSets DEF BeginTemplate
        <5> QED BY <1>0, <5>2
      <4>2. \A p \in Open' \ {q} : p \in Open /\ req'[p] = req[p]
        BY OthersKeep
      <4>3. q \in Open' => BeginRequest(q)
        BY CommitMoves, CommitFrame, RollbackFrame
      <4> QED BY <1>0, <2>2, <4>1, <4>2, <4>3 DEF NewTemplate
    <3>3. template'[t] = None /\ t \notin gone'
      <4>1. CASE UNCHANGED <<template, gone>>
        BY <3>1, <4>1
      <4>2. ASSUME NEW kind \in {"draft", "template", "scrap"}, Commit(q, kind), SetTemplate(q)
            PROVE  template'[t] = None /\ t \notin gone'
        <5>1. req[q].kind = kind /\ q \in Open /\ q \in Requests
          BY <4>2, CommitFrame
        <5>2. req[q].at # t
          <6>1. CASE kind = "draft"
            BY <1>0, <2>2, <5>1, <6>1 DEF NewTemplate
          <6>2. CASE kind # "draft"
            BY <3>1, <4>2, <5>1, <6>2 DEF SetTemplate, Commit
          <6> QED BY <6>1, <6>2
        <5> QED BY <3>1, <4>2, <5>2 DEF SetTemplate, TypeOK, RowsOK
      <4>3. CASE RemoveAccount(q) /\ Commit(q, "remove")
        <5>1. req[q].at \in Users
          BY <4>3, CommitRequestsOK DEF TypeOK, ProjectRequestOK
        <5> QED BY <3>1, <4>3, <5>1, IdsAssumption DEF RemoveAccount
      <4> QED
        BY <4>1, <4>2, <4>3, TemplateFrame, BeginFrame, RollbackFrame DEF UpdateAgent, Fire
    <3> QED BY <1>0, <3>2, <3>3 DEF NewTemplate
  <2> QED BY <2>1, <2>2
<1>2. Met(o, {"template", "scrap"})' \/ BindingsStand(o)'
  <2>1. CASE Met(o, {"template", "scrap"})
    BY <1>0, <2>1
  <2>2. ASSUME NEW kind \in {"template", "scrap"}, Commit(q, kind)
        PROVE  Met(o, {"template", "scrap"})'
    BY <1>0, <2>2, CommitMeetsOpen
  <2>3. ASSUME BindingsStand(o), \A t \in Templates : \A phase : Fits(<<phase, t>>) => Fits(<<phase, t>>)'
        PROVE  BindingsStand(o)'
    <3>1. ASSUME req[o].kind \in {"hire", "agent"}, NEW b \in req[o].arg.bind, Fits(b)
          PROVE  Fits(b)'
      <4>1. b \in Phases \X Templates
        BY <1>0, <3>1 DEF ProjectRequestOK, AgentRows
      <4>2. PICK phase \in Phases, t \in Templates : b = <<phase, t>>
        BY <4>1
      <4> QED BY <2>3, <3>1, <4>2
    <3> QED BY <1>0, <2>3, <3>1 DEF BindingsStand
  <2>4. CASE UNCHANGED <<template, gone>>
    <3>1. \A t \in Templates : \A phase : Fits(<<phase, t>>) => Fits(<<phase, t>>)'
      BY <2>4 DEF Fits
    <3> QED BY <1>0, <2>1, <2>3, <3>1 DEF TemplatesInv
  <2>5. ASSUME Commit(q, "draft"), SetTemplate(q), NEW t \in Templates, NEW phase, Fits(<<phase, t>>)
        PROVE  Fits(<<phase, t>>)'
    <3>1. template[req[q].at] = None /\ req[q].at \notin gone
      BY <2>5, CommitFrame DEF TemplatesInv, NewTemplate
    <3>2. template' = [template EXCEPT ![req[q].at] = req[q].arg] /\ UNCHANGED gone
      BY <2>5 DEF SetTemplate, Commit
    <3> QED BY <2>5, <3>1, <3>2 DEF Fits, TypeOK, RowsOK
  <2>6. ASSUME RemoveAccount(q), NEW t \in Templates, NEW phase, Fits(<<phase, t>>)
        PROVE  Fits(<<phase, t>>)'
    <3>1. template'[t] \in {template[t], None} /\ gone \subseteq gone'
          /\ (template'[t] # template[t] => t \in gone')
      BY <2>6 DEF RemoveAccount
    <3> QED BY <2>6, <3>1 DEF Fits
  <2>7. \/ UNCHANGED <<template, gone>>
        \/ Commit(q, "draft") /\ SetTemplate(q)
        \/ Commit(q, "template") \/ Commit(q, "scrap")
        \/ RemoveAccount(q)
    BY TemplateFrame, BeginFrame, RollbackFrame DEF UpdateAgent, Fire
  <2>8. BindingsStand(o) \/ Met(o, {"template", "scrap"})
    BY <1>0 DEF TemplatesInv
  <2> QED
    BY <2>1, <2>2, <2>3, <2>4, <2>5, <2>6, <2>7, <2>8
<1>3. Met(o, {"agent", "hire"})' \/ NotBound(o)'
  <2>1. CASE Met(o, {"agent", "hire"})
    BY <1>0, <2>1
  <2>2. ASSUME NEW kind \in {"hire", "agent"}, Commit(q, kind)
        PROVE  Met(o, {"agent", "hire"})'
    BY <1>0, <2>2, CommitMeetsOpen
  <2>3. CASE UNCHANGED agent \/ Fire(q)
    <3>1. \A t : Bound(t)' => Bound(t)
      BY <2>3 DEF Bound, Fire, TypeOK, RowsOK
    <3> QED BY <1>0, <2>1, <3>1 DEF NotBound, TemplatesInv
  <2> QED
    BY <2>2, <2>3, TemplateFrame, BeginFrame, RollbackFrame DEF SetTemplate, RemoveAccount
<1> QED BY <1>1, <1>2, <1>3

\* Every step keeps what open requests rely on about templates.
LEMMA TemplatesInvStep ==
  ASSUME TypeOK, TypeOK', OpenRequestsMeet, TemplatesInv, NEW q \in Requests,
         BeginRequest(q) \/ CommitRequest(q) \/ Rollback(q)
  PROVE  TemplatesInv'
<1>1. ASSUME NEW o \in Open'
      PROVE  /\ NewTemplate(o)'
             /\ Met(o, {"template", "scrap"})' \/ BindingsStand(o)'
             /\ Met(o, {"agent", "hire"})' \/ NotBound(o)'
  <2>1. CASE o = q
    BY <2>1, BeginFindsTemplates, CommitMoves, CommitFrame, RollbackFrame
  <2> QED BY <2>1, FoundTemplatesStand
<1> QED BY <1>1, BoundTemplatesStep DEF TemplatesInv

-----------------------------------------------------------------------------
(* Selected models.                                                        *)

\* Only provider, pricing, selection and agent requests change providers or references to models.
LEMMA ModelFrame ==
  ASSUME NEW q \in Requests, CommitRequest(q)
  PROVE  \/ UNCHANGED <<provider, component, agent>>
         \/ Commit(q, "create") /\ CreateProvider(q)
         \/ Commit(q, "register") /\ Register(q)
         \/ Commit(q, "unregister") /\ Unregister(q)
         \/ Commit(q, "replace") /\ Replace(q)
         \/ Commit(q, "drop") /\ Drop(q)
         \/ Commit(q, "rename") /\ RenamePrice(q)
         \/ Commit(q, "switch") /\ Switch(q)
         \/ Commit(q, "select") /\ Select(q)
         \/ (Commit(q, "hire") \/ Commit(q, "agent")) /\ UpdateAgent(q)
         \/ Commit(q, "fire") /\ Fire(q)
<1>1. CASE CreateProvider(q) \/ Register(q) \/ Unregister(q) \/ Replace(q) \/ Drop(q)
  BY <1>1 DEF CreateProvider, Register, Unregister, Replace, Drop
<1>2. CASE RenamePrice(q) \/ Switch(q) \/ Select(q) \/ UpdateAgent(q) \/ Fire(q)
  BY <1>2 DEF RenamePrice, Switch, Select, UpdateAgent, Fire
<1>3. CASE \/ Price(q) \/ Publish(q) \/ SetMember(q) \/ Activate(q) \/ StartRun(q)
          \/ SetTemplate(q) \/ RemoveAccount(q)
  BY <1>3 DEF Price, Publish, SetMember, Activate, StartRun, SetTemplate, RemoveAccount
<1> QED BY <1>1, <1>2, <1>3 DEF CommitRequest

\* A request that met some kinds met any larger set of kinds.
LEMMA MetMore ==
  ASSUME NEW q, NEW kinds, NEW more, Met(q, kinds)
  PROVE  Met(q, kinds \cup more) /\ Met(q, more \cup kinds)
BY DEF Met

\* An overlap that excuses a dangling model reference keeps excusing it.
LEMMA RenameStays ==
  ASSUME TypeOK, NEW q \in Requests, BeginRequest(q) \/ CommitRequest(q) \/ Rollback(q),
         ModelsExcused
  PROVE  ModelsExcused'
<1>1. CASE RenameCommitted
  <2> PICK p \in Requests : req[p].kind = "rename" /\ req[p].step = "committed"
    BY <1>1 DEF RenameCommitted
  <2>1. p # q
    BY BeginFrame, CommitMoves, CommitFrame, RollbackFrame DEF Open
  <2>2. req'[p] = req[p]
    BY <2>1, BeginFrame, CommitMoves, CommitFrame, RollbackFrame
  <2> QED BY <2>2 DEF RenameCommitted, ModelsExcused
<1> QED BY <1>1, RequestsMove, OverlappingStays DEF ModelsExcused

\* The model of an agent after its update is the one it had or that of the request.
LEMMA UpdatedModel ==
  ASSUME TypeOK, NEW q \in Requests, UpdateAgent(q), NEW a \in Agents, agent'[a] # None
  PROVE  \/ agent[a] # None /\ agent'[a].model = agent[a].model
         \/ /\ agent'[a].model = req[q].arg.model
            /\ req[q].kind = "hire" \/ (req[q].kind = "agent" /\ req[q].arg.model # req[q].seen.model)
<1>1. CASE a # req[q].at
  <2>1. agent'[a] = agent[a]
    BY <1>1 DEF UpdateAgent, TypeOK, RowsOK
  <2> QED BY <2>1
<1>2. CASE a = req[q].at /\ Commit(q, "hire")
  <2>1. req[q].kind = "hire" /\ agent' = [agent EXCEPT ![req[q].at] = req[q].arg]
    BY <1>2 DEF UpdateAgent, Commit
  <2>2. agent'[a] = req[q].arg
    BY <1>2, <2>1 DEF TypeOK, RowsOK
  <2> QED BY <2>1, <2>2
<1>3. CASE a = req[q].at /\ Commit(q, "agent")
  <2>1. req[q].kind = "agent" /\ agent[a] # None /\ agent[a] \in AgentRows
        /\ agent' = [agent EXCEPT
             ![a].enabled = Assigned(req[q].seen.enabled, req[q].arg.enabled, @),
             ![a].model = Assigned(req[q].seen.model, req[q].arg.model, @),
             ![a].bind = Assigned(req[q].seen.bind, req[q].arg.bind, @)]
    BY <1>3 DEF UpdateAgent, Commit, TypeOK, RowsOK
  <2>2. agent'[a].model = Assigned(req[q].seen.model, req[q].arg.model, agent[a].model)
    BY <2>1 DEF TypeOK, RowsOK, AgentRows
  <2> QED BY <2>1, <2>2 DEF Assigned
<1> QED BY <1>1, <1>2, <1>3 DEF UpdateAgent

\* The models in use after an update of the project or of an agent.
LEMMA UseGrows ==
  ASSUME TypeOK, NEW q \in Requests, Select(q) \/ UpdateAgent(q) \/ Fire(q),
         SelectionsStand(q) \/ Fire(q), NEW ref \in InUse', ref \notin InUse
  PROVE  Registered(ref)
<1>0. ref # None
  BY DEF InUse
<1>1. CASE Select(q)
  <2>1. component' = Assigned(req[q].seen, req[q].arg, component) /\ agent' = agent
        /\ req[q].kind = "select"
    BY <1>1 DEF Select, Commit
  <2>2. \E k \in Kinds : ref = req[q].arg[k]
    BY <2>1 DEF InUse, Assigned
  <2>3. ~Fire(q)
    BY <2>1 DEF Fire, Commit
  <2> QED BY <2>1, <2>2, <2>3 DEF SelectionsStand
<1>2. CASE UpdateAgent(q)
  <2>1. component' = component /\ ~Fire(q)
    BY <1>2 DEF UpdateAgent, Fire, Commit
  <2>2. PICK a \in Agents : agent'[a] # None /\ ref = agent'[a].model
    BY <2>1, <1>0 DEF InUse
  <2>3. ~(agent[a] # None /\ agent'[a].model = agent[a].model)
    BY <2>2, <1>0 DEF InUse
  <2>4. /\ ref = req[q].arg.model
        /\ req[q].kind = "hire" \/ (req[q].kind = "agent" /\ req[q].arg.model # req[q].seen.model)
    BY <1>2, <2>2, <2>3, UpdatedModel
  <2> QED BY <2>1, <2>4 DEF SelectionsStand
<1>3. CASE Fire(q)
  BY <1>3 DEF Fire, InUse, TypeOK, RowsOK
<1> QED BY <1>1, <1>2, <1>3

\* A registered reference stays registered while its provider keeps its models.
LEMMA StaysRegistered ==
  ASSUME NEW ref, Registered(ref),
         ref # None /\ provider[ref[1]] # None =>
           /\ provider'[ref[1]] # None
           /\ \A e \in provider[ref[1]].models : e[2] = ref[2] => e \in provider'[ref[1]].models
  PROVE  Registered(ref)'
BY DEF Registered, Names

\* The models in use are among the references the configuration can hold.
LEMMA InUseReferences == TypeOK => InUse \subseteq References
BY DEF TypeOK, RowsOK, InUse, AgentRows

\* Every step keeps models in use registered where no overlap excuses it.
LEMMA SelectedModelsStep ==
  ASSUME TypeOK, TypeOK', ModelsInv, NEW q \in Requests,
         BeginRequest(q) \/ CommitRequest(q) \/ Rollback(q)
  PROVE  ModelsExcused' \/ (\A ref \in InUse : Registered(ref))'
<1> DEFINE Holding == \A ref \in InUse : Registered(ref)
           at == req[q].at
<1>1. CASE ModelsExcused
  BY <1>1, RenameStays
<1>2. CASE Holding /\ UNCHANGED <<provider, component, agent>>
  BY <1>2 DEF InUse, Registered
<1>3. ASSUME NEW kind \in ModelWriters, Commit(q, kind), Met(q, ModelWriters \cup ReferenceWriters)
      PROVE  ModelsExcused'
  BY <1>3, CommitOverlaps DEF ModelsExcused
<1>4. ASSUME NEW kind \in ReferenceWriters, Commit(q, kind), Met(q, ModelWriters)
      PROVE  ModelsExcused'
  <2>1. kind \in ModelWriters \cup ReferenceWriters
    BY <1>4
  <2> QED BY <1>4, <2>1, CommitOverlaps DEF ModelsExcused
<1>5. CASE Holding /\ Commit(q, "create") /\ CreateProvider(q)
  <2>1. provider[at] = None
    BY <1>5, CommitFrame DEF ModelsInv, NewProvider
  <2>2. provider' = [provider EXCEPT ![at] = req[q].arg] /\ InUse' = InUse
    BY <1>5 DEF CreateProvider, InUse
  <2> QED BY <1>5, <2>1, <2>2, InUseReferences, StaysRegistered DEF TypeOK, RowsOK
<1>6. CASE Commit(q, "rename") /\ RenamePrice(q)
  BY <1>6, CommitFrame DEF ModelsExcused, RenameCommitted
<1>7. ASSUME Holding, NEW kind \in {"register", "unregister", "replace"}, Commit(q, kind),
             Register(q) \/ Unregister(q) \/ Replace(q),
             ~Met(q, ModelWriters \cup ReferenceWriters)
      PROVE  Holding'
  <2>1. /\ req[q].kind = kind /\ at \in Providers /\ CatalogRequestOK(req[q])
        /\ ListsStand(q) /\ NotInUse(q)
    BY <1>7, CommitFrame, CommitRequestsOK, MetMore DEF ModelsInv, TypeOK, CatalogRequestOK
  <2>2. provider[at] # None /\ provider[at].models = req[q].seen /\ provider[at] \in ProviderRows
    BY <2>1 DEF ListsStand, TypeOK, RowsOK
  <2>3. InUse' = InUse /\ \A p \in Providers \ {at} : provider'[p] = provider[p]
    BY <1>7 DEF Register, Unregister, Replace, InUse, TypeOK, RowsOK
  <2>4. ASSUME NEW ref \in InUse, ref[1] = at, NEW e \in provider[at].models, e[2] = ref[2]
        PROVE  e \in provider'[at].models
    <3>0. ref = <<at, e[2]>>
      BY <2>4, InUseReferences DEF References
    <3>1. CASE kind = "register"
      <4>1. provider' = [provider EXCEPT ![at].models =
                            Assigned(req[q].seen, req[q].seen \cup req[q].arg, @)]
        BY <1>7, <2>1, <3>1 DEF Register, Unregister, Replace, Commit
      <4>2. provider'[at].models = Assigned(req[q].seen, req[q].seen \cup req[q].arg, provider[at].models)
        BY <2>2, <4>1 DEF TypeOK, RowsOK, ProviderRows
      <4> QED BY <2>2, <2>4, <4>2 DEF Assigned
    <3>2. CASE kind = "unregister"
      <4>1. provider' = [provider EXCEPT ![at].models = req[q].seen \ {req[q].arg.entry}]
        BY <1>7, <2>1, <3>2 DEF Register, Unregister, Replace, Commit
      <4>2. provider'[at].models = req[q].seen \ {req[q].arg.entry}
        BY <2>2, <4>1 DEF TypeOK, RowsOK, ProviderRows
      <4>3. <<at, req[q].arg.entry[2]>> \notin InUse
        BY <2>1, <3>2 DEF NotInUse
      <4> QED BY <2>2, <2>4, <3>0, <4>2, <4>3
    <3>3. CASE kind = "replace"
      <4>1. provider' = [provider EXCEPT ![at].models =
                            Assigned(req[q].seen, Relisted(req[q].seen, req[q].arg), @)]
        BY <1>7, <2>1, <3>3 DEF Register, Unregister, Replace, Commit
      <4>2. provider'[at].models
              = Assigned(req[q].seen, Relisted(req[q].seen, req[q].arg), provider[at].models)
        BY <2>2, <4>1 DEF TypeOK, RowsOK, ProviderRows
      <4>3. RefsOf(at, {x \in req[q].seen : x[1] = req[q].arg.kind} \ req[q].arg.list) \cap InUse = {}
        BY <2>1, <3>3 DEF NotInUse
      <4>4. e \notin {x \in req[q].seen : x[1] = req[q].arg.kind} \ req[q].arg.list
        BY <2>4, <3>0, <4>3 DEF RefsOf, Names
      <4> QED BY <2>2, <2>4, <4>2, <4>4 DEF Assigned, Relisted
    <3> QED BY <3>1, <3>2, <3>3
  <2>5. provider'[at] # None
    <3>1. at \in Providers /\ provider' \in [Providers -> ProviderRows \cup {None}]
      BY <2>1 DEF TypeOK, RowsOK
    <3>2. PICK models \in SUBSET Entries : provider' = [provider EXCEPT ![at].models = models]
      <4>1. req[q].seen \subseteq Entries
        BY <2>1 DEF CatalogRequestOK
      <4>2. req[q].kind = "register" => req[q].arg \subseteq Entries
        BY <2>1 DEF CatalogRequestOK
      <4>3. req[q].kind = "replace" => Relisted(req[q].seen, req[q].arg) \subseteq Entries
        BY <2>1 DEF CatalogRequestOK, Relisted
      <4> QED BY <1>7, <2>1, <2>2, <4>1, <4>2, <4>3 DEF Register, Unregister, Replace, Commit, Assigned
    <3>3. provider'[at] \in ProviderRows
      BY <2>2, <3>1, <3>2 DEF TypeOK, RowsOK, ProviderRows
    <3> QED BY <3>3, RowsAssumption
  <2> QED BY <1>7, <2>1, <2>3, <2>4, <2>5, InUseReferences, StaysRegistered DEF References
<1>8. CASE Holding /\ Commit(q, "drop") /\ Drop(q) /\ ~Met(q, ModelWriters \cup ReferenceWriters)
  <2>1. \A ref \in InUse : ref[1] # at
    BY <1>8, CommitFrame DEF ModelsInv, NotInUse
  <2>2. InUse' = InUse /\ provider' = [provider EXCEPT ![at] = None]
    BY <1>8 DEF Drop, InUse
  <2> QED BY <1>8, <2>1, <2>2, InUseReferences, StaysRegistered DEF TypeOK, RowsOK
<1>9. CASE Holding /\ Switch(q)
  <2>1. InUse' = InUse
    BY <1>9 DEF Switch, InUse
  <2>2. ASSUME NEW p \in Providers, provider[p] # None
        PROVE  provider'[p] # None /\ provider'[p].models = provider[p].models
    <3>1. provider[p] \in ProviderRows /\ req[q].arg \in BOOLEAN
      BY <1>9, <2>2, CommitRequestsOK DEF Switch, TypeOK, RowsOK, CatalogRequestOK
    <3>2. provider'[p] \in ProviderRows /\ provider'[p].models = provider[p].models
      BY <1>9, <3>1 DEF Switch, TypeOK, RowsOK, ProviderRows
    <3> QED BY <3>2, RowsAssumption
  <2> QED BY <1>9, <2>1, <2>2, InUseReferences, StaysRegistered DEF References
<1>10. CASE Holding /\ (Select(q) \/ UpdateAgent(q) \/ Fire(q)) /\ (SelectionsStand(q) \/ Fire(q))
  <2>1. \A ref \in InUse' : Registered(ref)
    BY <1>10, UseGrows
  <2>2. provider' = provider
    BY <1>10 DEF Select, UpdateAgent, Fire
  <2> QED BY <2>1, <2>2 DEF Registered
<1> QED
  BY <1>1, <1>2, <1>3, <1>4, <1>5, <1>6, <1>7, <1>8, <1>9, <1>10, ModelFrame, BeginFrame,
     RollbackFrame, CommitFrame DEF ModelsInv, ModelWriters, ReferenceWriters

\* What a request that begins has found of the models.
LEMMA BeginFindsModels ==
  ASSUME TypeOK, NEW q \in Requests, BeginRequest(q)
  PROVE  NewProvider(q)' /\ SelectionsStand(q)' /\ ListsStand(q)' /\ NotInUse(q)'
<1> USE BeginSets DEF NewProvider, SelectionsStand, ListsStand, NotInUse
<1>0. /\ InUse' = InUse /\ \A ref : Registered(ref)' = Registered(ref)
      /\ provider' = provider
      /\ \A p \in Open' : p = q \/ (p \in Open /\ req'[p] = req[p])
  BY BeginFrame DEF InUse, Registered, Open
<1>1. \A ref \in References \cup {None} : \A kind : (ref # None => Resolves(ref, kind)) => Registered(ref)
  BY DEF Resolves, Registered, Names
<1>2. ASSUME NEW p \in Providers, BeginCreateProvider(q, p) PROVE NewProvider(q)'
  <2>1. req'[q].at = p
    BY <1>2 DEF BeginCreateProvider
  <2>2. provider[p] = None /\ \A other \in Requests : req[other].at # p
    BY <1>2 DEF BeginCreateProvider
  <2> QED BY <1>0, <2>1, <2>2 DEF Open
<1>3. ASSUME NEW p \in Providers, BeginRegister(q, p) PROVE ListsStand(q)'
  BY <1>0, <1>3 DEF BeginRegister, Platform
<1>4. ASSUME NEW p \in Providers, BeginUnregister(q, p) PROVE ListsStand(q)' /\ NotInUse(q)'
  <2>1. PICK entry \in Entries :
          /\ p \in Platform /\ <<p, entry[2]>> \notin InUse
          /\ Begin(q, "unregister", p, [entry |-> entry, rules |-> OrphanRules(p, {entry[2]})],
                   provider[p].models)
    BY <1>4 DEF BeginUnregister
  <2>2. /\ req'[q].kind = "unregister" /\ req'[q].at = p /\ req'[q].seen = provider[p].models
        /\ req'[q].arg = [entry |-> entry, rules |-> OrphanRules(p, {entry[2]})]
    BY <2>1
  <2>3. req'[q].arg.entry = entry
    BY <2>2
  <2> QED BY <1>0, <2>1, <2>2, <2>3 DEF Platform
<1>5. ASSUME NEW p \in Providers, BeginReplace(q, p) PROVE ListsStand(q)' /\ NotInUse(q)'
  <2>1. PICK k \in Kinds, models \in SUBSET Models :
          /\ provider[p] # None
          /\ RefsOf(p, {e \in provider[p].models : e[1] = k} \ ({k} \X models)) \cap InUse = {}
          /\ Begin(q, "replace", p, [kind |-> k, list |-> {k} \X models], provider[p].models)
    BY <1>5 DEF BeginReplace
  <2>2. /\ req'[q].kind = "replace" /\ req'[q].at = p /\ req'[q].seen = provider[p].models
        /\ req'[q].arg = [kind |-> k, list |-> {k} \X models]
    BY <2>1
  <2>3. req'[q].arg.kind = k /\ req'[q].arg.list = {k} \X models
    BY <2>2
  <2> QED BY <1>0, <2>1, <2>2, <2>3
<1>6. ASSUME NEW p \in Providers, BeginDrop(q, p) PROVE NotInUse(q)'
  BY <1>0, <1>6 DEF BeginDrop
<1>7. ASSUME NEW u \in Users, BeginSelect(q, u) PROVE SelectionsStand(q)'
  <2>1. PICK k \in Kinds, ref \in References \cup {None} :
          LET chosen == [component EXCEPT ![k] = ref] IN
          /\ \A kind \in Kinds : chosen[kind] # None => Resolves(chosen[kind], kind)
          /\ Begin(q, "select", None, chosen, component)
    BY <1>7 DEF BeginSelect
  <2> DEFINE chosen == [component EXCEPT ![k] = ref]
  <2>2. chosen \in [Kinds -> References \cup {None}]
    BY DEF TypeOK, RowsOK
  <2>3. req'[q].kind = "select" /\ req'[q].arg = chosen
    BY <2>1
  <2>4. \A kind \in Kinds : chosen[kind] # None => Resolves(chosen[kind], kind)
    BY <2>1
  <2> HIDE DEF chosen
  <2> QED BY <1>0, <1>1, <2>2, <2>3, <2>4
<1>8. ASSUME NEW u \in Users, NEW a \in Agents, BeginUpdateAgent(q, u, a)
      PROVE  SelectionsStand(q)'
  <2>1. ASSUME NEW m \in References \cup {None}, NEW bind, m # None => Resolves(m, Chat),
               Begin(q, "hire", a, AgentRow(u, m, bind), None)
        PROVE  SelectionsStand(q)'
    BY <1>0, <1>1, <2>1 DEF AgentRow
  <2>2. ASSUME agent[a] # None,
               Begin(q, "agent", a, [agent[a] EXCEPT !.enabled = ~agent[a].enabled], agent[a])
        PROVE  SelectionsStand(q)'
    <3> DEFINE new == [agent[a] EXCEPT !.enabled = ~agent[a].enabled]
    <3>1. new.model = agent[a].model
      BY <2>2 DEF TypeOK, RowsOK, AgentRows
    <3>2. Begin(q, "agent", a, new, agent[a])
      BY <2>2
    <3> HIDE DEF new
    <3> QED BY <3>1, <3>2
  <2>3. ASSUME agent[a] # None, NEW bind,
               Begin(q, "agent", a, [agent[a] EXCEPT !.bind = bind], agent[a])
        PROVE  SelectionsStand(q)'
    <3> DEFINE new == [agent[a] EXCEPT !.bind = bind]
    <3>1. new.model = agent[a].model
      BY <2>3 DEF TypeOK, RowsOK, AgentRows
    <3>2. Begin(q, "agent", a, new, agent[a])
      BY <2>3
    <3> HIDE DEF new
    <3> QED BY <3>1, <3>2
  <2>4. ASSUME agent[a] # None, NEW m \in References \cup {None}, m # None => Resolves(m, Chat),
               Begin(q, "agent", a, [agent[a] EXCEPT !.model = m], agent[a])
        PROVE  SelectionsStand(q)'
    <3> DEFINE new == [agent[a] EXCEPT !.model = m]
    <3>1. new.model = m
      BY <2>4 DEF TypeOK, RowsOK, AgentRows
    <3>2. Begin(q, "agent", a, new, agent[a])
      BY <2>4
    <3> HIDE DEF new
    <3> QED BY <1>0, <1>1, <2>4, <3>1, <3>2
  <2> QED BY <1>8, <2>1, <2>2, <2>3, <2>4 DEF BeginUpdateAgent
<1> QED BY <1>2, <1>3, <1>4, <1>5, <1>6, <1>7, <1>8, BeginKinds

\* A commit that is none of ModelWriters keeps every provider with its models, and one
\* that is none of ReferenceWriters brings no model into use.
LEMMA ModelsKept ==
  ASSUME TypeOK, ModelsInv, NEW q \in Requests,
         BeginRequest(q) \/ CommitRequest(q) \/ Rollback(q)
  PROVE  /\ \/ \E kind \in ModelWriters : Commit(q, kind)
            \/ \A p \in Providers : provider[p] # None =>
                 provider'[p] # None /\ provider'[p].models = provider[p].models
         /\ (\E kind \in ReferenceWriters : Commit(q, kind)) \/ InUse' \subseteq InUse
<1>1. CASE UNCHANGED <<provider, component, agent>>
  BY <1>1 DEF InUse
<1>2. CASE Commit(q, "create") /\ CreateProvider(q)
  <2>1. provider[req[q].at] = None
    BY <1>2, CommitFrame DEF ModelsInv, NewProvider
  <2> QED BY <1>2, <2>1 DEF CreateProvider, InUse, TypeOK, RowsOK
<1>3. ASSUME NEW kind \in ModelWriters, Commit(q, kind)
      PROVE  InUse' = InUse
  <2>1. kind = req[q].kind
    BY <1>3, CommitFrame
  <2>2. CASE Register(q) \/ Unregister(q) \/ Replace(q) \/ Drop(q) \/ RenamePrice(q)
    BY <2>2 DEF Register, Unregister, Replace, Drop, RenamePrice, InUse
  <2>3. ~(CreateProvider(q) \/ Switch(q) \/ Select(q) \/ UpdateAgent(q) \/ Fire(q))
    BY <1>3, <2>1 DEF CreateProvider, Switch, Select, UpdateAgent, Fire, Commit, ModelWriters
  <2>4. CommitRequest(q)
    BY <1>3, BeginFrame, RollbackFrame, CommitFrame DEF Open
  <2> QED BY <1>1, <2>2, <2>3, <2>4, ModelFrame DEF InUse
<1>4. CASE Switch(q)
  <2>1. InUse' = InUse
    BY <1>4 DEF Switch, InUse
  <2>2. ASSUME NEW p \in Providers, provider[p] # None
        PROVE  provider'[p] # None /\ provider'[p].models = provider[p].models
    <3>1. provider[p] \in ProviderRows /\ req[q].arg \in BOOLEAN
      BY <1>4, <2>2, CommitRequestsOK DEF Switch, TypeOK, RowsOK, CatalogRequestOK
    <3>2. provider'[p] \in ProviderRows /\ provider'[p].models = provider[p].models
      BY <1>4, <3>1 DEF Switch, TypeOK, RowsOK, ProviderRows
    <3> QED BY <3>2, RowsAssumption
  <2> QED BY <2>1, <2>2
<1>5. CASE Select(q) \/ UpdateAgent(q) \/ Fire(q)
  <2>1. provider' = provider
    BY <1>5 DEF Select, UpdateAgent, Fire
  <2>2. Fire(q) => InUse' \subseteq InUse
    BY DEF Fire, InUse, TypeOK, RowsOK
  <2>3. Select(q) \/ UpdateAgent(q) => \E kind \in ReferenceWriters : Commit(q, kind)
    BY DEF Select, UpdateAgent, ReferenceWriters
  <2> QED BY <1>5, <2>1, <2>2, <2>3
<1> QED
  BY <1>1, <1>2, <1>3, <1>4, <1>5, ModelFrame, BeginFrame, RollbackFrame
  DEF ModelWriters

\* What an open request has found out about models stands until it meets a writer of them.
LEMMA FoundModelsStand ==
  ASSUME TypeOK, OpenRequestsMeet, ModelsInv, NEW q \in Requests,
         BeginRequest(q) \/ CommitRequest(q) \/ Rollback(q),
         NEW o \in Open', o # q
  PROVE  /\ NewProvider(o)'
         /\ Met(o, ModelWriters)' \/ (SelectionsStand(o)' /\ ListsStand(o)')
         /\ Met(o, ModelWriters \cup ReferenceWriters)' \/ NotInUse(o)'
<1>0. /\ o \in Open /\ o \in Requests /\ req'[o] = req[o] /\ NewProvider(o)
      /\ \A kinds : Met(o, kinds) => Met(o, kinds)'
      /\ CatalogRequestOK(req[o]) /\ ProjectRequestOK(req[o])
  BY OthersKeep DEF ModelsInv, Open, TypeOK, RequestsOK
<1>1. NewProvider(o)'
  <2>1. CASE req[o].kind # "create"
    BY <1>0, <2>1 DEF NewProvider
  <2>2. CASE req[o].kind = "create"
    <3> DEFINE t == req[o].at
    <3>1. t \in Providers /\ provider[t] = None
      BY <1>0, <2>2 DEF NewProvider, CatalogRequestOK
    <3>2. \A p \in Open' : req'[p].kind = "create" /\ req'[p].at = t => p = o
      <4>1. ASSUME BeginRequest(q), req'[q].kind = "create", req'[q].at = t
            PROVE  FALSE
        <5>1. PICK p \in Providers : BeginCreateProvider(q, p)
          BY <4>1, BeginKinds
        <5>2. \A other \in Requests : req[other].at # t
          BY <4>1, <5>1, BeginSets DEF BeginCreateProvider
        <5> QED BY <1>0, <5>2
      <4>2. \A p \in Open' \ {q} : p \in Open /\ req'[p] = req[p]
        BY OthersKeep
      <4>3. q \in Open' => BeginRequest(q)
        BY CommitMoves, CommitFrame, RollbackFrame
      <4> QED BY <1>0, <2>2, <4>1, <4>2, <4>3 DEF NewProvider
    <3>3. provider'[t] = None
      <4>1. CASE UNCHANGED provider
        BY <3>1, <4>1
      <4>2. CASE Commit(q, "create") /\ CreateProvider(q)
        <5>1. req[q].at # t
          BY <1>0, <2>2, <4>2, CommitFrame DEF NewProvider
        <5> QED BY <3>1, <4>2, <5>1 DEF CreateProvider, TypeOK, RowsOK
      <4>3. CASE Register(q) \/ Unregister(q) \/ Replace(q) \/ Switch(q)
        BY <3>1, <4>3 DEF Register, Unregister, Replace, Switch, TypeOK, RowsOK
      <4>4. CASE Drop(q)
        BY <3>1, <4>4 DEF Drop, TypeOK, RowsOK
      <4>5. CASE RenamePrice(q)
        BY <3>1, <4>5 DEF RenamePrice, TypeOK, RowsOK
      <4> QED
        BY <4>1, <4>2, <4>3, <4>4, <4>5, ModelFrame, BeginFrame, RollbackFrame
        DEF Select, UpdateAgent, Fire
    <3> QED BY <1>0, <3>2, <3>3 DEF NewProvider
  <2> QED BY <2>1, <2>2
<1>2. Met(o, ModelWriters)' \/ (SelectionsStand(o)' /\ ListsStand(o)')
  <2>1. CASE Met(o, ModelWriters)
    BY <1>0, <2>1
  <2>2. ASSUME NEW kind \in ModelWriters, Commit(q, kind)
        PROVE  Met(o, ModelWriters)'
    BY <1>0, <2>2, CommitMeetsOpen
  <2>3. ASSUME SelectionsStand(o), ListsStand(o),
               \A p \in Providers : provider[p] # None =>
                 provider'[p] # None /\ provider'[p].models = provider[p].models
        PROVE  SelectionsStand(o)' /\ ListsStand(o)'
    <3>1. \A ref \in References \cup {None} : Registered(ref) => Registered(ref)'
      BY <2>3 DEF Registered, References
    <3>2. SelectionsStand(o)'
      BY <1>0, <2>3, <3>1 DEF SelectionsStand, ProjectRequestOK, AgentRows
    <3>3. ListsStand(o)'
      BY <1>0, <2>3 DEF ListsStand, CatalogRequestOK
    <3> QED BY <3>2, <3>3
  <2>4. Met(o, ModelWriters) \/ (SelectionsStand(o) /\ ListsStand(o))
    BY <1>0 DEF ModelsInv
  <2> QED BY <2>1, <2>2, <2>3, <2>4, ModelsKept
<1>3. Met(o, ModelWriters \cup ReferenceWriters)' \/ NotInUse(o)'
  <2>1. CASE Met(o, ModelWriters \cup ReferenceWriters)
    BY <1>0, <2>1
  <2>2. ASSUME NEW kind \in ReferenceWriters, Commit(q, kind)
        PROVE  Met(o, ModelWriters \cup ReferenceWriters)'
    BY <1>0, <2>2, CommitMeetsOpen
  <2>3. ASSUME NotInUse(o), InUse' \subseteq InUse
        PROVE  NotInUse(o)'
    BY <1>0, <2>3 DEF NotInUse
  <2>4. Met(o, ModelWriters \cup ReferenceWriters) \/ NotInUse(o)
    BY <1>0 DEF ModelsInv
  <2> QED BY <2>1, <2>2, <2>3, <2>4, ModelsKept
<1> QED BY <1>1, <1>2, <1>3

\* Every step keeps what open requests rely on about models.
LEMMA ModelsInvStep ==
  ASSUME TypeOK, TypeOK', OpenRequestsMeet, ModelsInv, NEW q \in Requests,
         BeginRequest(q) \/ CommitRequest(q) \/ Rollback(q)
  PROVE  ModelsInv'
<1>1. ASSUME NEW o \in Open'
      PROVE  /\ NewProvider(o)'
             /\ Met(o, ModelWriters)' \/ (SelectionsStand(o)' /\ ListsStand(o)')
             /\ Met(o, ModelWriters \cup ReferenceWriters)' \/ NotInUse(o)'
  <2>1. CASE o = q
    BY <2>1, BeginFindsModels, CommitMoves, CommitFrame, RollbackFrame
  <2> QED BY <2>1, FoundModelsStand
<1>2. (ModelWriters \cup ReferenceWriters)' = ModelWriters \cup ReferenceWriters
      /\ ModelWriters' = ModelWriters
  BY DEF ModelWriters, ReferenceWriters
<1> QED BY <1>1, <1>2, SelectedModelsStep DEF ModelsInv

-----------------------------------------------------------------------------

\* Everything the configuration of a project refers to is there and can be used, but for
\* the overlaps of requests that the property names: what each request checked, in the
\* transaction in which it checked it, is enough for any number of providers, agents,
\* templates and requests.
THEOREM ReferencesAreHeld == Spec => []ReferencesHold
<1> DEFINE Inv == OpenRequestsMeet /\ ModelsInv /\ TemplatesInv /\ ActiveInv
<1>1. TypeOK /\ Init => Inv
  <2> SUFFICES ASSUME TypeOK, Init PROVE Inv
    OBVIOUS
  <2>1. Open = {}
    BY DEF Init, Open, NewRequest
  <2>2. \A ref \in InUse : Registered(ref)
    <3>1. PICK ref \in {None} \cup {r \in References : provider[r[1]] # None} :
            component = [k \in Kinds |-> ref]
      BY DEF Init
    <3>2. \A a \in Agents : agent[a].model = None
      BY DEF Init, AgentRow
    <3>3. InUse \subseteq {ref}
      BY <3>1, <3>2 DEF InUse
    <3>4. ref # None => provider[ref[1]].models = Entries /\ ref \in References
      BY <3>1 DEF Init, References, ProviderRow
    <3>5. ref # None => ref[2] \in Names(Entries)
      <4> SUFFICES ASSUME ref # None PROVE ref[2] \in Names(Entries)
        OBVIOUS
      <4>1. <<Chat, ref[2]>> \in Entries
        BY <3>4, ChatAssumption DEF Entries, References
      <4> QED BY <4>1 DEF Names
    <3> QED BY <3>1, <3>3, <3>4, <3>5 DEF Registered
  <2>3. ActiveAgentIsEnabled
    BY IdsAssumption DEF Init, ActiveAgentIsEnabled, AgentRow
  <2>4. BoundTemplatesFit
    <3>1. ASSUME NEW a \in Agents, NEW b \in agent[a].bind
          PROVE  template[b[2]] # None /\ template[b[2]].phase = b[1]
      <4>1. \E t \in Templates : template[t] # None /\ b = <<template[t].phase, t>>
        BY <3>1 DEF Init, AgentRow
      <4> QED BY <4>1
    <3> QED BY <3>1 DEF BoundTemplatesFit
  <2> QED
    BY <2>1, <2>2, <2>3, <2>4 DEF OpenRequestsMeet, ModelsInv, TemplatesInv, ActiveInv
<1>2. TypeOK /\ TypeOK' /\ Inv /\ [Next]_vars => Inv'
  <2>1. ASSUME UNCHANGED vars, Inv PROVE Inv'
    <3> USE <2>1
    <3>0. /\ Open' = Open
          /\ \A q, kinds : Met(q, kinds)' = Met(q, kinds)
          /\ \A these, those : Overlapping(these, those)' = Overlapping(these, those)
      BY DEF Open, Met, Overlapping
    <3>1. OpenRequestsMeet'
      BY <3>0 DEF OpenRequestsMeet
    <3>2. ModelsInv'
      <4>1. InUse' = InUse /\ \A ref : Registered(ref)' = Registered(ref)
        BY DEF InUse, Registered
      <4>2. ModelsExcused' = ModelsExcused
        BY <3>0 DEF ModelsExcused, RenameCommitted
      <4>3. \A q \in Open : NewProvider(q) => NewProvider(q)'
        BY <3>0 DEF NewProvider
      <4>4. \A q \in Open : SelectionsStand(q) => SelectionsStand(q)'
        BY <4>1 DEF SelectionsStand
      <4>5. \A q \in Open : ListsStand(q) => ListsStand(q)'
        BY DEF ListsStand
      <4>6. \A q \in Open : NotInUse(q) => NotInUse(q)'
        BY <4>1 DEF NotInUse
      <4> QED BY <3>0, <4>1, <4>2, <4>3, <4>4, <4>5, <4>6 DEF ModelsInv
    <3>3. TemplatesInv'
      <4>1. /\ \A b : Fits(b)' = Fits(b)
            /\ \A t : Bound(t)' = Bound(t)
        BY DEF Fits, Bound
      <4>2. BoundTemplatesFit => BoundTemplatesFit'
        BY <3>0 DEF BoundTemplatesFit
      <4>3. \A q \in Open : NewTemplate(q) => NewTemplate(q)'
        BY <3>0 DEF NewTemplate
      <4>4. \A q \in Open : BindingsStand(q) => BindingsStand(q)'
        BY <4>1 DEF BindingsStand
      <4>5. \A q \in Open : NotBound(q) => NotBound(q)'
        BY <4>1 DEF NotBound
      <4> QED BY <3>0, <4>2, <4>3, <4>4, <4>5 DEF TemplatesInv
    <3> USE DEF Open, Met, Overlapping
    <3>4. ActiveInv'
      BY DEF ActiveInv, ActiveAgentIsEnabled, HiredEnabled, ActivationStands, Usable, Idle
    <3> QED BY <3>1, <3>2, <3>3, <3>4
  <2> QED
    BY <2>1, RequestsMove, OpenRequestsMeetStep, ModelsInvStep, TemplatesInvStep, ActiveInvStep
    DEF Next
<1>3. TypeOK /\ Inv => ReferencesHold
  <2>1. ModelsInv /\ TypeOK => SelectedModelsAreRegistered
    <3> SUFFICES ASSUME ModelsInv, TypeOK PROVE SelectedModelsAreRegistered
      OBVIOUS
    <3>1. \A ref \in InUse : ref # None
      BY DEF InUse
    <3> QED BY <3>1 DEF ModelsInv, SelectedModelsAreRegistered, ModelsExcused, RenameCommitted, Registered
  <2> QED BY <2>1 DEF ReferencesHold, TemplatesInv, ActiveInv
<1> QED BY <1>1, <1>2, <1>3, TypeCorrect, PTL DEF Spec

=============================================================================
