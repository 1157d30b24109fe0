------------------------ MODULE ProjectConfiguration ------------------------
(***************************************************************************)
(* What a project is configured with: model providers and their models,    *)
(* pricing rules, the models of its components, its agents, their prompt   *)
(* templates and its members; and the runs started with an agent.          *)
(*                                                                         *)
(* Rows refer to each other by values in JSON columns that the database    *)
(* does not check; requests look for such references before they remove    *)
(* something.  A request is one READ COMMITTED transaction: it reads and   *)
(* checks, and what it writes takes effect when it commits.  The           *)
(* properties say which references hold, and which overlap of two requests *)
(* is to blame when one does not.                                          *)
(***************************************************************************)
EXTENDS FiniteSets, ProjectAccess

CONSTANTS
  Owner, Admin, Guest,  \* the owner of the project, an administrator, a third user
  Kinds, Chat,          \* the kinds of models; each is a component of the project
  Models,               \* names of models
  Providers, Rules,     \* ids of providers and pricing rules
  Agents, Templates,    \* ids of project agents and prompt templates
  Phases,               \* of prompt templates
  Requests              \* the requests of a behaviour

ASSUME ChatAssumption == Chat \in Kinds

Users == {Owner, Admin, Guest}

\* Ids are UUIDs.
ASSUME IdsAssumption == Users \cap Templates = {} /\ None \notin Agents

Entries == Kinds \X Models        \* a registered model
References == Providers \X Models \* provider_id::model

VARIABLES
  provider,   \* ai_provider_configs
  price,      \* pricing_rules: the model of each rule
  component,  \* text_projects.component_models
  active,     \* text_projects.active_agent_id
  visibility, \* text_projects.visibility
  member,     \* project_members: the role of each user
  agent,      \* project_agents
  template,   \* prompt_templates
  runs,       \* agent_runs: who started each with which agent
  gone,       \* users whose account was deleted, and the templates that went with it
  req,        \* the requests
  overlaps    \* pairs of requests that were open at the same time

catalog == <<provider, price>>
project == <<component, active, visibility, member>>
tools   == <<agent, template, runs>>
vars    == <<catalog, project, tools, gone, req, overlaps>>

ProviderRow(owner, models) == [owner |-> owner, active |-> TRUE, models |-> models]
AgentRow(u, model, bind) == [creator |-> u, enabled |-> TRUE, model |-> model, bind |-> bind]
TemplateRow(u, phase) == [owner |-> u, phase |-> phase]
NewRequest == [step |-> "new", kind |-> None, at |-> None, arg |-> None, seen |-> None]

\* A project in use: every provider registers every model, the components may have
\* selected one, and the active agent is bound to the templates.
Init ==
  /\ provider \in [Providers -> {None} \cup {ProviderRow(o, Entries) : o \in {None, Owner}}]
  /\ price \in [Rules -> {None} \cup Models]
  /\ \A r, s \in Rules : r # s /\ price[r] # None => price[r] # price[s]
  /\ \E ref \in {None} \cup {r \in References : provider[r[1]] # None} :
       component = [k \in Kinds |-> ref]
  /\ template \in [Templates -> {None} \cup {TemplateRow(Admin, phase) : phase \in Phases}]
  /\ \E first \in Agents :
       /\ active = first
       /\ agent = [a \in Agents |-> AgentRow(Owner, None,
                     IF a = first THEN {<<template[t].phase, t>> : t \in {t \in Templates : template[t] # None}}
                     ELSE {})]
  /\ visibility = "private"
  /\ member = [u \in Users |-> IF u = Owner THEN "owner" ELSE None]
  /\ runs = {} /\ gone = {} /\ overlaps = {}
  /\ req = [q \in Requests |-> NewRequest]

-----------------------------------------------------------------------------
(* Requests.                                                               *)

Open == {q \in Requests : req[q].step = "read"}

Begin(q, kind, at, arg, seen) ==
  /\ req[q].step = "new"
  /\ req' = [req EXCEPT ![q] =
       [step |-> "read", kind |-> kind, at |-> at, arg |-> arg, seen |-> seen]]
  /\ overlaps' = overlaps \cup {{p, q} : p \in Open}
  /\ UNCHANGED <<catalog, project, tools, gone>>

Commit(q, kind) ==
  /\ req[q].kind = kind /\ req[q].step = "read"
  /\ req' = [req EXCEPT ![q].step = "committed", ![q].arg = None, ![q].seen = None]
  /\ UNCHANGED overlaps

\* An exception of the handler, a unique constraint, a foreign key or an update
\* of a row that is gone.  The request leaves no trace, so another one may have
\* its id.
Rollback(q) ==
  /\ q \in Open
  /\ req' = [req EXCEPT ![q] = NewRequest]
  /\ overlaps' = {pair \in overlaps : q \notin pair}
  /\ UNCHANGED <<catalog, project, tools, gone>>

\* A column keeps its value when the handler assigns what it had read.
Assigned(seen, value, now) == IF value = seen THEN now ELSE value

Role(u) == ProjectRole(u = Admin, u = Owner, member[u], visibility)
May(u, permission) ==
  u \notin gone /\ Permits(u = Admin, u = Owner, member[u], visibility, permission)

-----------------------------------------------------------------------------
(* Providers and pricing rules.                                            *)

Platform == {p \in Providers : provider[p] # None /\ provider[p].owner = None}
Names(entries) == {e[2] : e \in entries}
RefsOf(p, entries) == {<<p, m>> : m \in Names(entries)}

\* provider_model_references_in_use, of all providers.
InUse ==
  ({component[k] : k \in Kinds} \cup {agent[a].model : a \in {b \in Agents : agent[b] # None}})
    \ {None}

\* resolve_provider_model, for the owner of the project.
Resolves(ref, kind) ==
  LET row == provider[ref[1]] IN
  /\ row # None /\ row.active
  /\ row.owner \in {None, Owner}
  /\ <<kind, ref[2]>> \in row.models

\* Seeded defect: the other providers are not looked at.
RulesOf(p, names) == {r \in Rules : price[r] \in names}

\* _prune_orphan_model_references: the rules of names no other platform provider
\* has.  Its search for such names in component_models finds nothing, because
\* references are stored there.
OrphanRules(p, names) ==
  LET remaining == UNION {Names(provider[o].models) : o \in Platform \ {p}} IN
  {r \in Rules : price[r] \in names \ remaining}

\* Administrators create platform providers without models, users their own with
\* models.
BeginCreateProvider(q, p) ==
  /\ provider[p] = None /\ \A other \in Requests : req[other].at # p
  /\ \/ Begin(q, "create", p, ProviderRow(None, {}), None)
     \/ Begin(q, "create", p, ProviderRow(Owner, Entries), None)

CreateProvider(q) ==
  LET p == req[q].at IN
  /\ Commit(q, "create")
  /\ provider' = [provider EXCEPT ![p] = req[q].arg]
  /\ UNCHANGED <<price, project, tools, gone>>

\* _add_provider_model_by_kind adds one model; discovery, which waits for the
\* provider's answer in between, merges what it finds.
BeginRegister(q, p) ==
  /\ p \in Platform
  /\ \E found \in (SUBSET Entries) \ {{}} :
       /\ \E k \in Kinds : found \subseteq {k} \X Models
       /\ Begin(q, "register", p, found, provider[p].models)

Register(q) ==
  LET p == req[q].at IN
  /\ Commit(q, "register")
  /\ provider[p] # None
  /\ provider' = [provider EXCEPT ![p].models =
       Assigned(req[q].seen, req[q].seen \cup req[q].arg, @)]
  /\ UNCHANGED <<price, project, tools, gone>>

\* Seeded defect: references are not looked for.
BeginUnregisterUnchecked(q, p) ==
  \E entry \in Entries :
    /\ p \in Platform /\ entry \in provider[p].models
    /\ Begin(q, "unregister", p, [entry |-> entry, rules |-> OrphanRules(p, {entry[2]})],
             provider[p].models)

BeginUnregister(q, p) ==
  \E entry \in Entries :
    /\ p \in Platform /\ entry \in provider[p].models
    /\ <<p, entry[2]>> \notin InUse
    /\ Begin(q, "unregister", p, [entry |-> entry, rules |-> OrphanRules(p, {entry[2]})],
             provider[p].models)

Pruned(rules) == [r \in Rules |-> IF r \in rules THEN None ELSE price[r]]

Unregister(q) ==
  LET p == req[q].at
      entry == req[q].arg.entry IN
  /\ Commit(q, "unregister")
  /\ provider[p] # None
  /\ provider' = [provider EXCEPT ![p].models = req[q].seen \ {entry}]
  /\ price' = Pruned(req[q].arg.rules)
  /\ UNCHANGED <<project, tools, gone>>

\* update_user_provider: one list of models is replaced by another.
BeginReplace(q, p) ==
  \E k \in Kinds, models \in SUBSET Models :
    LET row == provider[p]
        list == {k} \X models
        removed == {e \in row.models : e[1] = k} \ list IN
    /\ row # None /\ row.owner = Owner
    /\ RefsOf(p, removed) \cap InUse = {}
    /\ Begin(q, "replace", p, [kind |-> k, list |-> list], row.models)

Relisted(entries, change) == {e \in entries : e[1] # change.kind} \cup change.list

Replace(q) ==
  LET p == req[q].at IN
  /\ Commit(q, "replace")
  /\ provider[p] # None
  /\ provider' = [provider EXCEPT ![p].models =
       Assigned(req[q].seen, Relisted(req[q].seen, req[q].arg), @)]
  /\ UNCHANGED <<price, project, tools, gone>>

\* update_provider and update_user_provider do not look for references when they
\* turn a provider off.
BeginSwitch(q, p) ==
  /\ provider[p] # None
  /\ Begin(q, "switch", p, ~provider[p].active, None)

Switch(q) ==
  LET p == req[q].at IN
  /\ Commit(q, "switch")
  /\ provider[p] # None
  /\ provider' = [provider EXCEPT ![p].active = req[q].arg]
  /\ UNCHANGED <<price, project, tools, gone>>

BeginDrop(q, p) ==
  LET row == provider[p] IN
  /\ row # None
  /\ \A ref \in InUse : ref[1] # p
  /\ Begin(q, "drop", p, IF p \in Platform THEN OrphanRules(p, Names(row.models)) ELSE {}, None)

Drop(q) ==
  LET p == req[q].at IN
  /\ Commit(q, "drop")
  /\ provider[p] # None
  /\ provider' = [provider EXCEPT ![p] = None]
  /\ price' = Pruned(req[q].arg)
  /\ UNCHANGED <<project, tools, gone>>

\* The platform providers that register m, with their models.
Listing(m) ==
  [p \in {o \in Platform : m \in Names(provider[o].models)} |-> provider[p].models]

\* create_pricing, update_pricing and delete_pricing; the model of a rule is unique.
BeginPricing(q, r) ==
  \/ \E m \in Models :
       /\ price[r] = None /\ \A other \in Requests : req[other].at # r
       /\ \A s \in Rules : price[s] # m
       /\ Begin(q, "price", r, m, None)
  \/ \E m \in Models :
       /\ price[r] # None /\ \A s \in Rules : price[s] # m
       /\ Begin(q, "rename", r, m, [model |-> price[r], lists |-> Listing(price[r])])
  \/ price[r] # None /\ Begin(q, "unprice", r, None, None)

Price(q) ==
  LET r == req[q].at IN
  /\ \/ Commit(q, "price") /\ (\A s \in Rules : price[s] # req[q].arg)
     \/ Commit(q, "unprice") /\ price[r] # None
  /\ price' = [price EXCEPT ![r] = req[q].arg]
  /\ UNCHANGED <<provider, project, tools, gone>>

\* _propagate_pricing_model_rename: the lists of platform providers get the new
\* name; component_models holds references, which it does not find.
Renamed(entries, old, new) == {IF e[2] = old THEN <<e[1], new>> ELSE e : e \in entries}

RenamePrice(q) ==
  LET r == req[q].at
      lists == req[q].seen.lists
      renamed(entries) == Renamed(entries, req[q].seen.model, req[q].arg) IN
  /\ Commit(q, "rename")
  /\ price[r] # None /\ \A s \in Rules : price[s] # req[q].arg
  /\ \A p \in DOMAIN lists : provider[p] # None
  /\ price' = [price EXCEPT ![r] = req[q].arg]
  /\ provider' = [p \in Providers |-> IF p \in DOMAIN lists
       THEN [provider[p] EXCEPT !.models = renamed(lists[p])] ELSE provider[p]]
  /\ UNCHANGED <<project, tools, gone>>

-----------------------------------------------------------------------------
(* The project, its members and its agents.                                *)

\* update_project: the client sends all components, and each must resolve.
BeginSelect(q, u) ==
  \E k \in Kinds, ref \in References \cup {None} :
    LET chosen == [component EXCEPT ![k] = ref] IN
    /\ May(u, "manage")
    /\ \A kind \in Kinds : chosen[kind] # None => Resolves(chosen[kind], kind)
    /\ Begin(q, "select", None, chosen, component)

Select(q) ==
  /\ Commit(q, "select")
  /\ component' = Assigned(req[q].seen, req[q].arg, component)
  /\ UNCHANGED <<catalog, active, visibility, member, tools, gone>>

BeginPublish(q, u) ==
  \E value \in Visibilities \ {visibility} :
    May(u, "manage") /\ Begin(q, "publish", None, value, None)

Publish(q) ==
  /\ Commit(q, "publish")
  /\ visibility' = req[q].arg
  /\ UNCHANGED <<catalog, component, active, member, tools, gone>>

\* add_member, update_member and remove_member; the owner's row does not change.
BeginMember(q, u, other) ==
  /\ May(u, "manage") /\ other \notin gone
  /\ \/ \E role \in {"editor", "viewer"} :
          Begin(q, IF member[other] = None THEN "invite" ELSE "role", other, role, None)
     \/ member[other] # None /\ Begin(q, "expel", other, None, None)
  /\ member[other] # "owner"

SetMember(q) ==
  LET u == req[q].at IN
  /\ \/ Commit(q, "invite") /\ member[u] = None /\ u \notin gone
     \/ (Commit(q, "role") \/ Commit(q, "expel")) /\ member[u] # None
  /\ member' = [member EXCEPT ![u] = req[q].arg]
  /\ UNCHANGED <<catalog, component, active, visibility, tools, gone>>

\* validate_prompt_template_bindings: templates of the user, in their phase.
Bindable(u, bind) ==
  \A b \in bind : template[b[2]] # None /\ template[b[2]].owner = u /\ template[b[2]].phase = b[1]

Bindings == {{}} \cup {{b} : b \in Phases \X Templates}

\* Seeded defect: the active agent may be disabled.
BeginUpdateAnyAgent(q, u, a) ==
  /\ May(u, "manage") /\ agent[a] # None
  /\ Begin(q, "agent", a, [agent[a] EXCEPT !.enabled = ~@], agent[a])

\* create_project_agent and update_project_agent, one field of the body at a time.
BeginUpdateAgent(q, u, a) ==
  LET row == agent[a] IN
  /\ May(u, "manage")
  /\ \/ \E m \in References \cup {None}, bind \in Bindings :
          /\ row = None /\ \A other \in Requests : req[other].at # a
          /\ (m # None => Resolves(m, Chat)) /\ Bindable(u, bind)
          /\ Begin(q, "hire", a, AgentRow(u, m, bind), None)
     \/ /\ row # None
        /\ row.enabled => active # a
        /\ Begin(q, "agent", a, [row EXCEPT !.enabled = ~row.enabled], row)
     \/ \E m \in References \cup {None} :
          /\ row # None /\ (m # None => Resolves(m, Chat))
          /\ Begin(q, "agent", a, [row EXCEPT !.model = m], row)
     \/ \E bind \in Bindings :
          /\ row # None /\ Bindable(u, bind)
          /\ Begin(q, "agent", a, [row EXCEPT !.bind = bind], row)

\* The columns that differ from what was read are written.
UpdateAgent(q) ==
  LET a == req[q].at
      new == req[q].arg
      seen == req[q].seen IN
  /\ \/ /\ Commit(q, "hire")
        /\ agent' = [agent EXCEPT ![a] = new]
     \/ /\ Commit(q, "agent") /\ agent[a] # None
        /\ agent' = [agent EXCEPT ![a].enabled = Assigned(seen.enabled, new.enabled, @),
                                  ![a].model = Assigned(seen.model, new.model, @),
                                  ![a].bind = Assigned(seen.bind, new.bind, @)]
  /\ UNCHANGED <<catalog, project, template, runs, gone>>

BeginActivate(q, u, a) ==
  /\ May(u, "manage") /\ agent[a] # None /\ agent[a].enabled
  /\ Begin(q, "activate", a, None, active)

\* active_agent_id is a foreign key.
Activate(q) ==
  /\ Commit(q, "activate") /\ agent[req[q].at] # None
  /\ active' = Assigned(req[q].seen, req[q].at, active)
  /\ UNCHANGED <<catalog, component, visibility, member, tools, gone>>

\* Seeded defect: the run history is not looked at.
BeginFireAny(q, u, a) ==
  /\ May(u, "manage") /\ agent[a] # None /\ active # a
  /\ Begin(q, "fire", a, None, None)

\* delete_project_agent.
BeginFire(q, u, a) ==
  /\ May(u, "manage") /\ agent[a] # None /\ active # a
  /\ \A r \in runs : r.agent # a
  /\ Begin(q, "fire", a, None, None)

\* agent_runs.agent_id is deleted in cascade, active_agent_id set to NULL.
Fire(q) ==
  LET a == req[q].at IN
  /\ Commit(q, "fire") /\ agent[a] # None
  /\ agent' = [agent EXCEPT ![a] = None]
  /\ runs' = {r \in runs : r.agent # a}
  /\ active' = IF active = a THEN None ELSE active
  /\ UNCHANGED <<catalog, component, visibility, member, template, gone>>

RunPermission(mode) == IF mode = "write" THEN "edit" ELSE "view"

\* start_agent_run and resolve_project_agent: the requested agent or the active
\* one must be enabled, its templates present and it must have a model.
BeginRun(q, u) ==
  \E a \in Agents, mode \in {"write", "analyze", "suggest"} :
    /\ May(u, RunPermission(mode))
    /\ agent[a] # None /\ agent[a].enabled
    /\ \A b \in agent[a].bind : template[b[2]] # None /\ template[b[2]].phase = b[1]
    /\ agent[a].model # None \/ component[Chat] # None
    /\ Begin(q, "run", a, None, None)

StartRun(q) ==
  /\ Commit(q, "run") /\ agent[req[q].at] # None
  /\ runs' = runs \cup {[by |-> q, agent |-> req[q].at]}
  /\ UNCHANGED <<catalog, project, agent, template, gone>>

-----------------------------------------------------------------------------
(* Prompt templates and accounts.                                          *)

Bound(t) == \E a \in Agents : agent[a] # None /\ \E b \in agent[a].bind : b[2] = t

\* Seeded defect: a bound template may change its phase.
BeginTemplateUnchecked(q, u, t) ==
  \/ \E phase \in Phases :
       /\ template[t] # None /\ template[t].owner = u
       /\ Begin(q, "template", t, TemplateRow(u, phase), None)
  \/ template[t] # None /\ template[t].owner = u /\ Begin(q, "scrap", t, None, None)

\* create, update and delete of a template; one that is bound keeps its phase.
BeginTemplate(q, u, t) ==
  /\ u \notin gone
  /\ \/ \E phase \in Phases :
          /\ template[t] = None /\ t \notin gone /\ \A other \in Requests : req[other].at # t
          /\ Begin(q, "draft", t, TemplateRow(u, phase), None)
     \/ \E phase \in Phases :
          /\ template[t] # None /\ template[t].owner = u
          /\ phase # template[t].phase => ~Bound(t)
          /\ Begin(q, "template", t, TemplateRow(u, phase), template[t])
     \/ /\ template[t] # None /\ template[t].owner = u /\ ~Bound(t)
        /\ Begin(q, "scrap", t, None, None)

SetTemplate(q) ==
  LET t == req[q].at IN
  /\ \/ /\ Commit(q, "draft") /\ req[q].arg.owner \notin gone
        /\ template' = [template EXCEPT ![t] = req[q].arg]
     \/ /\ Commit(q, "template") /\ template[t] # None
        /\ template' = [template EXCEPT ![t] = Assigned(req[q].seen, req[q].arg, @)]
     \/ /\ Commit(q, "scrap") /\ template[t] # None
        /\ template' = [template EXCEPT ![t] = None]
  /\ UNCHANGED <<catalog, project, agent, runs, gone>>

\* delete_user, by another administrator.
BeginRemoveAccount(q, u) ==
  /\ u \in {Admin, Guest} \ gone
  /\ Begin(q, "remove", u, None, None)

\* Templates and memberships go with the account, which must not have created an
\* agent (a foreign key).
RemoveAccount(q) ==
  LET u == req[q].at
      lost == {t \in Templates : template[t] # None /\ template[t].owner = u} IN
  /\ Commit(q, "remove") /\ u \notin gone
  /\ \A a \in Agents : agent[a] # None => agent[a].creator # u
  /\ gone' = gone \cup {u} \cup lost
  /\ template' = [t \in Templates |-> IF t \in lost THEN None ELSE template[t]]
  /\ member' = [member EXCEPT ![u] = None]
  /\ UNCHANGED <<catalog, component, active, visibility, agent, runs>>

BeginRequest(q) ==
  \/ \E p \in Providers : \/ BeginCreateProvider(q, p) \/ BeginRegister(q, p)
                           \/ BeginUnregister(q, p) \/ BeginReplace(q, p)
                           \/ BeginSwitch(q, p) \/ BeginDrop(q, p)
  \/ \E r \in Rules : BeginPricing(q, r)
  \/ \E u \in Users :
       \/ BeginSelect(q, u) \/ BeginPublish(q, u) \/ BeginRun(q, u) \/ BeginRemoveAccount(q, u)
       \/ \E other \in Users : BeginMember(q, u, other)
       \/ \E a \in Agents : BeginUpdateAgent(q, u, a) \/ BeginActivate(q, u, a) \/ BeginFire(q, u, a)
       \/ \E t \in Templates : BeginTemplate(q, u, t)

CommitRequest(q) ==
  \/ CreateProvider(q) \/ Register(q) \/ Unregister(q) \/ Replace(q) \/ Switch(q) \/ Drop(q)
  \/ Price(q) \/ RenamePrice(q)
  \/ Select(q) \/ Publish(q) \/ SetMember(q)
  \/ UpdateAgent(q) \/ Activate(q) \/ Fire(q) \/ StartRun(q) \/ SetTemplate(q)
  \/ RemoveAccount(q)

Next ==
  \E q \in Requests : BeginRequest(q) \/ CommitRequest(q) \/ Rollback(q)

Spec == Init /\ [][Next]_vars

-----------------------------------------------------------------------------
(* Properties.                                                             *)

\* A committed request of one of these kinds overlapped one of those.
Overlapping(these, those) ==
  \E p, q \in Requests :
    /\ {p, q} \in overlaps
    /\ req[p].step = "committed" /\ req[p].kind \in these
    /\ req[q].step = "committed" /\ req[q].kind \in those

Committing(q, kinds) ==
  req[q].kind \in kinds /\ req[q].step = "read" /\ req'[q].step = "committed"

ModelWriters == {"register", "unregister", "replace", "drop", "rename"}
ReferenceWriters == {"select", "agent", "hire"}

ProviderRows == [owner : {None, Owner}, active : BOOLEAN, models : SUBSET Entries]
AgentRows    == [creator : Users, enabled : BOOLEAN, model : References \cup {None},
                 bind : SUBSET (Phases \X Templates)]
TemplateRows == [owner : Users, phase : Phases]

\* No row is None, the mark of an absent one.
ASSUME RowsAssumption == None \notin ProviderRows \cup AgentRows \cup TemplateRows

\* What an open request has read and what it will write.
CatalogRequestOK(r) ==
  /\ r.kind \in {"create", "register", "unregister", "replace", "switch", "drop"} => r.at \in Providers
  /\ r.kind = "create" => r.arg \in ProviderRows
  /\ r.kind = "register" => r.arg \subseteq Entries /\ r.seen \subseteq Entries
  /\ r.kind = "unregister" => r.arg \in [entry : Entries, rules : SUBSET Rules] /\ r.seen \subseteq Entries
  /\ r.kind = "replace" => r.arg \in [kind : Kinds, list : SUBSET Entries] /\ r.seen \subseteq Entries
  /\ r.kind = "switch" => r.arg \in BOOLEAN
  /\ r.kind = "drop" => r.arg \subseteq Rules
  /\ r.kind \in {"price", "rename", "unprice"} => r.at \in Rules
  /\ r.kind \in {"price", "rename"} => r.arg \in Models
  /\ r.kind = "unprice" => r.arg = None
  /\ r.kind = "rename" => \A p \in DOMAIN r.seen.lists : r.seen.lists[p] \subseteq Entries

ProjectRequestOK(r) ==
  /\ r.kind = "select" => r.arg \in [Kinds -> References \cup {None}]
  /\ r.kind = "publish" => r.arg \in Visibilities
  /\ r.kind \in {"invite", "role", "expel"} => r.at \in Users /\ r.arg \in MemberRoles \cup {None}
  /\ r.kind \in {"hire", "agent", "activate", "fire", "run"} => r.at \in Agents
  /\ r.kind = "hire" => r.arg \in AgentRows
  /\ r.kind = "agent" => r.arg \in AgentRows /\ r.seen \in AgentRows
  /\ r.kind \in {"draft", "template", "scrap"} => r.at \in Templates
  /\ r.kind \in {"draft", "template"} => r.arg \in TemplateRows
  /\ r.kind = "remove" => r.at \in Users

\* The foreign keys of the schema are part of the types.
RowsOK ==
  /\ provider \in [Providers -> ProviderRows \cup {None}]
  /\ price \in [Rules -> Models \cup {None}]
  /\ component \in [Kinds -> References \cup {None}]
  /\ active \in {a \in Agents : agent[a] # None} \cup {None}
  /\ visibility \in Visibilities
  /\ member \in [Users -> MemberRoles \cup {None}]
  /\ agent \in [Agents -> AgentRows \cup {None}]
  /\ template \in [Templates -> TemplateRows \cup {None}]
  /\ \A r \in runs : r.by \in Requests /\ r.agent \in Agents /\ agent[r.agent] # None
  /\ gone \subseteq Users \cup Templates

RequestsOK ==
  /\ DOMAIN req = Requests
  /\ \A q \in Requests :
       /\ DOMAIN req[q] = {"step", "kind", "at", "arg", "seen"}
       /\ req[q].step \in {"new", "read", "committed"}
       /\ req[q].step = "read" => CatalogRequestOK(req[q]) /\ ProjectRequestOK(req[q])
  /\ overlaps \subseteq SUBSET Requests

\* Types of the variables, with the foreign keys.
TypeOK == RowsOK /\ RequestsOK

\* A model that the project or an agent has selected is registered by its
\* provider, active or not, unless a change of the models overlapped the
\* selection or another change, or a pricing rule was renamed: one such request
\* renames the model and leaves the references (provider_model_references_in_use
\* and its callers).
SelectedModelsAreRegistered ==
  \/ \A ref \in InUse : provider[ref[1]] # None /\ ref[2] \in Names(provider[ref[1]].models)
  \/ Overlapping(ModelWriters, ModelWriters \cup ReferenceWriters)
  \/ \E q \in Requests : req[q].kind = "rename" /\ req[q].step = "committed"

\* Removing a model or a provider removes no price of a model that a platform
\* provider still offers, unless requests overlapped or the provider itself still
\* has the model as another kind: its calls would be free from then on.
OfferedModelsKeepTheirPrice ==
  [][\A q \in Requests, r \in Rules :
       Committing(q, {"unregister", "drop"}) /\ price[r] # None /\ price'[r] = None =>
         \/ \A p \in Platform' \ {req[q].at} : price[r] \notin Names(provider'[p].models)
         \/ \E p \in Requests : {p, q} \in overlaps]_vars

\* The templates of an agent exist in the phase they are bound to, so that runs
\* can start with it, unless a change of the template overlapped the binding or
\* the account of its owner was deleted.
BoundTemplatesFit ==
  \/ \A a \in {a \in Agents : agent[a] # None} : \A b \in agent[a].bind :
       IF template[b[2]] = None THEN b[2] \in gone ELSE template[b[2]].phase = b[1]
  \/ Overlapping({"agent", "hire"}, {"template", "scrap"})

\* The active agent exists and is enabled, unless activating it overlapped its
\* being disabled or deleted.
ActiveAgentIsEnabled ==
  \/ active # None /\ agent[active].enabled
  \/ Overlapping({"activate"}, {"agent", "fire"})

\* Everything the configuration of a project refers to is there: the models in the
\* lists of their providers, the templates in their phases, the active agent
\* enabled.  The exceptions are the overlaps above, a renamed pricing rule and the
\* templates of a deleted account.  It is not said that the provider is active: one
\* request turns it off with its models selected, and runs then fail.
ReferencesHold == SelectedModelsAreRegistered /\ BoundTemplatesFit /\ ActiveAgentIsEnabled

\* A run that was accepted is deleted only with an agent whose deletion began
\* before the run had started (agent_runs.agent_id is deleted in cascade).
AcceptedRunsStay ==
  [][\A r \in runs \ runs' :
       \E q \in Requests : Committing(q, {"fire"}) /\ {q, r.by} \in overlaps]_vars
=============================================================================
