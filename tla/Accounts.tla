------------------------------ MODULE Accounts ------------------------------
(***************************************************************************)
(* The accounts of MuseGraph: users and their sessions, the payment        *)
(* adapter, recharge orders, deposits, usage rows and the balance of each  *)
(* user.                                                                   *)
(*                                                                         *)
(* A request is one READ COMMITTED transaction (get_db): it reads, some    *)
(* requests run a DELETE, and the rest of its writes take effect when it   *)
(* commits.  Rows are read without locks, and an update of the ORM writes  *)
(* the columns that differ from what was read with values computed from    *)
(* what was read.  The properties say what holds when requests do not      *)
(* overlap, and which overlap is to blame for every exception.             *)
(***************************************************************************)
EXTENDS Integers, FiniteSets

CONSTANTS
  Users,        \* user ids, each with an e-mail of its own
  Orders,       \* recharge orders
  Requests,     \* the requests of a behaviour
  None,         \* NULL, and a field that a request does not have
  OrderAmount,  \* the amount of an order
  Cost,         \* the cost of a call of a priced model
  Adjustments,  \* what administrators add to a balance or set it to
  Limits        \* the values of max_records they set

ASSUME AmountsAssumption ==
  /\ OrderAmount \in Nat \ {0} /\ Cost \in Nat \ {0}
  /\ Adjustments \subseteq Int \ {0} /\ Limits \subseteq Nat \ {0}

VARIABLES
  user,      \* rows of users, None where there is none
  sessions,  \* rows of sessions
  order,     \* rows of orders, None where there is none
  deposits,  \* rows of deposits made by callbacks
  adapter,   \* the payment adapter, None when there is none
  usages,    \* rows of usages
  retention, \* the usage retention: max_records, and whether there is an age limit
  req,       \* the requests
  overlaps,  \* pairs of requests that were open at the same time
  ledger     \* what the balance of each user should be

accounts == <<user, sessions, ledger>>
payments == <<order, deposits, adapter>>
records  == <<usages, retention>>
vars     == <<accounts, payments, records, req, overlaps>>

UserRow(admin, password, balance) ==
  [status |-> "ACTIVE", admin |-> admin, password |-> password, balance |-> balance]
SessionRow(id, u, password) == [id |-> id, user |-> u, password |-> password]
OrderRow(u) == [user |-> u, status |-> "PENDING"]
DepositRow(q, o, u, payment) == [by |-> q, order |-> o, user |-> u, payment |-> payment]
UsageRow(q, u) == [by |-> q, user |-> u]
AdapterRow(q, enabled, complete) == [id |-> q, enabled |-> enabled, complete |-> complete]
DefaultRetention == [max |-> None, aged |-> FALSE]

NewRequest == [step |-> "new", kind |-> None, session |-> None, user |-> None,
               order |-> None, arg |-> None, seen |-> None, drop |-> {}]

\* There are administrators with a session each; the rest comes by requests.
Init ==
  /\ \E admins \in (SUBSET Users) \ {{}} :
       /\ user = [u \in Users |-> IF u \in admins THEN UserRow(TRUE, None, Cost) ELSE None]
       /\ sessions = {SessionRow(u, u, None) : u \in admins}
  /\ order = [o \in Orders |-> None]
  /\ deposits = {} /\ usages = {}
  /\ retention = DefaultRetention
  /\ adapter = AdapterRow(None, TRUE, TRUE)
  /\ req = [q \in Requests |-> NewRequest]
  /\ overlaps = {}
  /\ ledger = [u \in Users |-> Cost]

-----------------------------------------------------------------------------
(* Requests.  get_current_session writes last_used_at and the next query   *)
(* flushes it, so a request keeps its own session row locked to its end,   *)
(* and the session rows it has deleted as well.                            *)

Open == {q \in Requests : req[q].step \in {"read", "flushed"}}
Held(s) == \E q \in Open : req[q].session = s \/ s \in req[q].drop
Exists(u) == user[u] # None

Begin(q, kind, fields) ==
  /\ req[q].step = "new"
  /\ req' = [req EXCEPT ![q] = [fields EXCEPT !.step = "read", !.kind = kind]]
  /\ overlaps' = overlaps \cup {{p, q} : p \in Open}
  /\ UNCHANGED <<accounts, payments, records>>

\* get_current_session and get_current_user.
Authenticated(s) ==
  /\ s \in sessions /\ ~Held(s)
  /\ user[s.user].status = "ACTIVE"

BeginAs(s, q, kind, fields) ==
  /\ Authenticated(s)
  /\ Begin(q, kind, [fields EXCEPT !.session = s])

BeginAsAdmin(s, q, kind, fields) ==
  /\ s \in sessions /\ user[s.user].admin
  /\ BeginAs(s, q, kind, fields)

Flush(q, dropped) ==
  /\ req[q].step = "read"
  /\ req' = [req EXCEPT ![q].step = "flushed", ![q].drop = dropped]
  /\ UNCHANGED <<accounts, payments, records, overlaps>>

Commit(q, kind, step) ==
  /\ req[q].kind = kind /\ req[q].step = step
  /\ req' = [req EXCEPT ![q] =
       [NewRequest EXCEPT !.step = "committed", !.kind = kind, !.user = req[q].user]]
  /\ UNCHANGED overlaps

\* get_db rolls back: an exception of the handler or an error of the database,
\* such as a row that is gone, a unique constraint or a deadlock.  The request
\* leaves no trace, so another one may have its id.
Rollback(q) ==
  /\ q \in Open
  /\ req' = [req EXCEPT ![q] = NewRequest]
  /\ overlaps' = {pair \in overlaps : q \notin pair}
  /\ UNCHANGED <<accounts, payments, records>>

\* A column keeps its value when the handler assigns what it had read.
Assigned(seen, value, now) == IF value = seen THEN now ELSE value

-----------------------------------------------------------------------------
(* Users and sessions.                                                     *)

\* The row of a deleted user does not come back: ids are new.
Fresh(u) == ~Exists(u) /\ \A p \in Requests : ~(req[p].kind = "delete" /\ req[p].user = u)

BeginRegister(q, u) ==
  /\ Fresh(u)
  /\ Begin(q, "register", [NewRequest EXCEPT !.user = u])

Register(q) ==
  LET u == req[q].user IN
  /\ Commit(q, "register", "read")
  /\ Fresh(u)
  /\ user' = [user EXCEPT ![u] = UserRow(FALSE, q, 0)]
  /\ sessions' = sessions \cup {SessionRow(q, u, q)}
  /\ ledger' = [ledger EXCEPT ![u] = 0]
  /\ UNCHANGED <<payments, records>>

\* The password is verified against the row as it is read.
BeginLogin(q, u) ==
  /\ Exists(u) /\ user[u].status = "ACTIVE"
  /\ Begin(q, "login", [NewRequest EXCEPT !.user = u, !.seen = user[u].password])

Login(q) ==
  LET u == req[q].user IN
  /\ Commit(q, "login", "read")
  /\ Exists(u)
  /\ sessions' = sessions \cup {SessionRow(q, u, req[q].seen)}
  /\ UNCHANGED <<user, ledger, payments, records>>

\* Logging out needs a session, not an active user.
BeginLogout(q, s) ==
  /\ s \in sessions /\ ~Held(s)
  /\ Begin(q, "logout", [NewRequest EXCEPT !.user = s.user, !.session = s])

Logout(q) ==
  /\ sessions' = sessions \ {req[q].session}
  /\ Commit(q, "logout", "read")
  /\ UNCHANGED <<user, ledger, payments, records>>

\* DELETE FROM sessions waits for the requests that hold a session of the user.
RevokeUserSessions(q) ==
  LET revoked == {s \in sessions : s.user = req[q].user} IN
  /\ \/ req[q].kind \in {"password", "reset"}
     \/ req[q].kind = "status" /\ req[q].arg # "ACTIVE"
  /\ \A s \in revoked : s = req[q].session \/ ~Held(s)
  /\ Flush(q, revoked)

BeginChangePassword(q, s) == BeginAs(s, q, "password", [NewRequest EXCEPT !.user = s.user])

BeginResetPassword(q, s, u) ==
  Exists(u) /\ BeginAsAdmin(s, q, "reset", [NewRequest EXCEPT !.user = u])

\* Seeded defect: sessions are kept.
SetPasswordOnly(q) ==
  LET u == req[q].user IN
  /\ \/ Commit(q, "password", "flushed")
     \/ Commit(q, "reset", "flushed")
  /\ Exists(u)
  /\ user' = [user EXCEPT ![u].password = q]
  /\ UNCHANGED <<sessions, ledger, payments, records>>

SetPassword(q) ==
  LET u == req[q].user IN
  /\ \/ Commit(q, "password", "flushed")
     \/ Commit(q, "reset", "flushed")
  /\ Exists(u)
  /\ user' = [user EXCEPT ![u].password = q]
  /\ sessions' = sessions \ req[q].drop
  /\ UNCHANGED <<ledger, payments, records>>

\* update_user, one column of the body at a time.
BeginUpdateUser(q, s, u) ==
  /\ Exists(u)
  /\ \/ \E value \in {"ACTIVE", "SUSPENDED"} :
          BeginAsAdmin(s, q, "status",
            [NewRequest EXCEPT !.user = u, !.arg = value, !.seen = user[u].status])
     \/ \E value \in BOOLEAN :
          /\ u = s.user => value
          /\ BeginAsAdmin(s, q, "admin",
               [NewRequest EXCEPT !.user = u, !.arg = value, !.seen = user[u].admin])
     \/ \E value \in Adjustments :
          BeginAsAdmin(s, q, "balance",
            [NewRequest EXCEPT !.user = u, !.arg = value, !.seen = user[u].balance])

UpdateStatus(q) ==
  LET u == req[q].user IN
  /\ Commit(q, "status", IF req[q].arg = "ACTIVE" THEN "read" ELSE "flushed")
  /\ Exists(u)
  /\ user' = [user EXCEPT ![u].status = Assigned(req[q].seen, req[q].arg, @)]
  /\ sessions' = sessions \ req[q].drop
  /\ UNCHANGED <<ledger, payments, records>>

UpdateAdmin(q) ==
  LET u == req[q].user IN
  /\ Commit(q, "admin", "read")
  /\ Exists(u)
  /\ user' = [user EXCEPT ![u].admin = Assigned(req[q].seen, req[q].arg, @)]
  /\ UNCHANGED <<sessions, ledger, payments, records>>

\* Seeded defect: an administrator may delete the own account.
BeginDeleteAnyUser(q, s, u) ==
  Exists(u) /\ BeginAsAdmin(s, q, "delete", [NewRequest EXCEPT !.user = u])

BeginDeleteUser(q, s, u) ==
  /\ Exists(u) /\ u # s.user
  /\ BeginAsAdmin(s, q, "delete", [NewRequest EXCEPT !.user = u])

\* The rows of the user go with it; its session rows must be free.
DeleteUser(q) ==
  LET u == req[q].user IN
  /\ Commit(q, "delete", "read")
  /\ Exists(u)
  /\ \A s \in sessions : s.user = u => s = req[q].session \/ ~Held(s)
  /\ user' = [user EXCEPT ![u] = None]
  /\ sessions' = {s \in sessions : s.user # u}
  /\ order' = [o \in Orders |-> IF order[o] # None /\ order[o].user = u THEN None ELSE order[o]]
  /\ deposits' = {d \in deposits : d.user # u}
  /\ usages' = {n \in usages : n.user # u}
  /\ ledger' = [ledger EXCEPT ![u] = 0]
  /\ UNCHANGED <<adapter, retention>>

-----------------------------------------------------------------------------
(* Balances, orders and payments.  A balance is written as a value computed *)
(* from the row that was read; ledger is what the requests meant by it.     *)

SetBalance(u, value, meant) ==
  /\ Exists(u)
  /\ user' = [user EXCEPT ![u].balance = value]
  /\ ledger' = [ledger EXCEPT ![u] = meant]
  /\ UNCHANGED sessions

UpdateBalance(q) ==
  LET u == req[q].user IN
  /\ Commit(q, "balance", "read")
  /\ Exists(u)
  /\ SetBalance(u, Assigned(req[q].seen, req[q].arg, user[u].balance), req[q].arg)
  /\ UNCHANGED <<payments, records>>

BeginAddBalance(q, s, u) ==
  \E amount \in Adjustments :
    /\ Exists(u)
    /\ BeginAsAdmin(s, q, "credit",
         [NewRequest EXCEPT !.user = u, !.arg = amount, !.seen = user[u].balance])

\* Seeded defect: the amount replaces the balance.
AddBalanceAsValue(q) ==
  LET u == req[q].user IN
  /\ Commit(q, "credit", "read")
  /\ SetBalance(u, req[q].arg, ledger[u] + req[q].arg)
  /\ UNCHANGED <<payments, records>>

AddBalance(q) ==
  LET u == req[q].user IN
  /\ Commit(q, "credit", "read")
  /\ SetBalance(u, req[q].seen + req[q].arg, ledger[u] + req[q].arg)
  /\ UNCHANGED <<payments, records>>

\* The adapter that a request has read is still there; ids are new.
SameAdapter(q) == adapter # None /\ adapter.id = req[q].seen.id

\* The adapter can be used: parse_epay_config finds url, pid, key and a channel.
Usable == adapter # None /\ adapter.complete /\ adapter.enabled

\* A complete configuration is required of an enabled adapter only.
ValidConfig(enabled, complete) == enabled => complete

\* Order numbers are new.
BeginOrder(q, s, o) ==
  /\ order[o] = None /\ \A p \in Requests : req[p].order # o
  /\ Usable
  /\ BeginAs(s, q, "order", [NewRequest EXCEPT !.user = s.user, !.order = o, !.seen = adapter])

CreateOrder(q) ==
  LET o == req[q].order IN
  /\ Commit(q, "order", "read")
  /\ order[o] = None /\ SameAdapter(q) /\ Exists(req[q].user)
  /\ order' = [order EXCEPT ![o] = OrderRow(req[q].user)]
  /\ UNCHANGED <<accounts, deposits, adapter, records>>

\* The plain callback takes any payment id of its caller, an empty one as well (None),
\* and asks no adapter.  The id of a verified one, the trade number of the order or
\* a random one if the gateway gives none, is among them.
PaymentIds == Orders \cup Requests \cup {None}

\* Seeded defect: a paid order is credited again.
BeginCallbackAnyOrder(q, o) ==
  /\ order[o] # None
  /\ \E payment \in PaymentIds :
       Begin(q, "callback",
         [NewRequest EXCEPT !.user = order[o].user, !.order = o, !.arg = payment,
                            !.seen = user[order[o].user].balance])

\* A paid order is answered without a change.
BeginCallback(q, o) ==
  /\ order[o] # None /\ order[o].status = "PENDING"
  /\ \E payment \in PaymentIds :
       Begin(q, "callback",
         [NewRequest EXCEPT !.user = order[o].user, !.order = o, !.arg = payment,
                            !.seen = user[order[o].user].balance])

\* deposits.payment_id is unique.
MarkOrderPaid(q) ==
  LET o == req[q].order
      u == req[q].user IN
  /\ Commit(q, "callback", "read")
  /\ order[o] # None
  /\ \A d \in deposits : d.payment # req[q].arg
  /\ order' = [order EXCEPT ![o].status = "PAID"]
  /\ SetBalance(u, req[q].seen + OrderAmount, ledger[u] + OrderAmount)
  /\ deposits' = deposits \cup {DepositRow(q, o, u, req[q].arg)}
  /\ UNCHANGED <<adapter, records>>

\* Seeded defect: enabling does not validate the stored configuration.
BeginAdapterUnchecked(q, s) ==
  \/ \E value \in BOOLEAN :
       /\ adapter # None
       /\ BeginAsAdmin(s, q, "enable", [NewRequest EXCEPT !.arg = value, !.seen = adapter])
  \/ \E value \in BOOLEAN :
       /\ adapter # None /\ ValidConfig(adapter.enabled, value)
       /\ BeginAsAdmin(s, q, "configure", [NewRequest EXCEPT !.arg = value, !.seen = adapter])

\* Payment adapters: an enabled one must be completely configured.
BeginAdapter(q, s) ==
  \/ \E enabled, complete \in BOOLEAN :
       /\ adapter = None /\ ValidConfig(enabled, complete)
       /\ BeginAsAdmin(s, q, "create", [NewRequest EXCEPT !.arg = AdapterRow(q, enabled, complete)])
  \/ \E value \in BOOLEAN :
       /\ adapter # None /\ ValidConfig(value, adapter.complete)
       /\ BeginAsAdmin(s, q, "enable", [NewRequest EXCEPT !.arg = value, !.seen = adapter])
  \/ \E value \in BOOLEAN :
       /\ adapter # None /\ ValidConfig(adapter.enabled, value)
       /\ BeginAsAdmin(s, q, "configure", [NewRequest EXCEPT !.arg = value, !.seen = adapter])
  \/ adapter # None /\ BeginAsAdmin(s, q, "remove", [NewRequest EXCEPT !.seen = adapter])

ChangeAdapter(q) ==
  /\ \/ /\ Commit(q, "create", "read")
        /\ adapter = None
        /\ adapter' = req[q].arg
     \/ /\ Commit(q, "enable", "read")
        /\ SameAdapter(q)
        /\ adapter' = [adapter EXCEPT !.enabled = Assigned(req[q].seen.enabled, req[q].arg, @)]
     \/ /\ Commit(q, "configure", "read")
        /\ SameAdapter(q)
        /\ adapter' = [adapter EXCEPT !.complete = req[q].arg]
     \/ /\ Commit(q, "remove", "read")
        /\ adapter' = IF SameAdapter(q) THEN None ELSE adapter
  /\ UNCHANGED <<accounts, order, deposits, records>>

-----------------------------------------------------------------------------
(* Usage rows, written by workers after a call of a model, and retention.   *)

\* A model without an active pricing rule, or of an own provider, costs nothing.
Costs == {0, Cost}

BeginUsage(q, u) ==
  \E cost \in Costs :
    /\ Exists(u) /\ user[u].balance >= cost
    /\ Begin(q, "usage",
         [NewRequest EXCEPT !.user = u, !.arg = cost, !.seen = user[u].balance])

BeginCleanup(q, s) == BeginAsAdmin(s, q, "cleanup", NewRequest)

\* The usage rows a request sees: the committed ones and its own.
Visible(q) ==
  usages \cup (IF req[q].kind = "usage" THEN {UsageRow(q, req[q].user)} ELSE {})

Overflow(n) ==
  IF retention.max # None /\ n > retention.max THEN n - retention.max ELSE 0

\* Rows that are too old go first, then the oldest of what exceeds max_records.
\* Which ones are old is not modelled.
EnforceRetention(q) ==
  /\ req[q].kind \in {"usage", "cleanup"}
  /\ \E old, overflow \in SUBSET Visible(q) :
       /\ old # {} => retention.aged
       /\ overflow \cap old = {}
       /\ Cardinality(overflow) = Overflow(Cardinality(Visible(q) \ old))
       /\ Flush(q, old \cup overflow)

CreateUsage(q) ==
  LET u == req[q].user IN
  /\ Commit(q, "usage", "flushed")
  /\ SetBalance(u, Assigned(req[q].seen, req[q].seen - req[q].arg, user[u].balance),
                ledger[u] - req[q].arg)
  /\ usages' = Visible(q) \ req[q].drop
  /\ UNCHANGED <<payments, retention>>

Cleanup(q) ==
  /\ Commit(q, "cleanup", "flushed")
  /\ usages' = usages \ req[q].drop
  /\ UNCHANGED <<accounts, payments, retention>>

\* The body, max_records or the age limit, is merged into the configuration that
\* was read and replaces it.
BeginRetention(q, s) ==
  \E merged \in [max : Limits, aged : {retention.aged}] \cup [max : {retention.max}, aged : {~retention.aged}] :
    BeginAsAdmin(s, q, "retention", [NewRequest EXCEPT !.arg = merged, !.seen = retention])

UpsertRetention(q) ==
  /\ Commit(q, "retention", "read")
  /\ retention' = Assigned(req[q].seen, req[q].arg, retention)
  /\ UNCHANGED <<accounts, payments, usages>>

-----------------------------------------------------------------------------
Next ==
  \E q \in Requests :
    \/ \E u \in Users : BeginRegister(q, u) \/ BeginLogin(q, u) \/ BeginUsage(q, u)
    \/ \E s \in sessions : \/ BeginLogout(q, s) \/ BeginChangePassword(q, s)
                           \/ BeginAdapter(q, s) \/ BeginCleanup(q, s) \/ BeginRetention(q, s)
    \/ \E s \in sessions, u \in Users :
         \/ BeginResetPassword(q, s, u) \/ BeginUpdateUser(q, s, u)
         \/ BeginDeleteUser(q, s, u) \/ BeginAddBalance(q, s, u)
    \/ \E o \in Orders : BeginCallback(q, o) \/ \E s \in sessions : BeginOrder(q, s, o)
    \/ RevokeUserSessions(q) \/ EnforceRetention(q)
    \/ Register(q) \/ Login(q) \/ Logout(q) \/ SetPassword(q)
    \/ UpdateStatus(q) \/ UpdateAdmin(q) \/ UpdateBalance(q) \/ DeleteUser(q)
    \/ AddBalance(q) \/ CreateOrder(q) \/ MarkOrderPaid(q) \/ ChangeAdapter(q)
    \/ CreateUsage(q) \/ Cleanup(q) \/ UpsertRetention(q)
    \/ Rollback(q)

Spec == Init /\ [][Next]_vars

-----------------------------------------------------------------------------
(* Properties.                                                             *)

Kinds == {"register", "login", "logout", "password", "reset", "status", "admin",
          "balance", "credit", "delete", "order", "callback", "create", "enable",
          "configure", "remove", "usage", "cleanup", "retention"}

UserRows == [status : {"ACTIVE", "SUSPENDED"}, admin : BOOLEAN,
             password : Requests \cup {None}, balance : Int]
OrderRows == [user : Users, status : {"PENDING", "PAID"}]
AdapterRows == [id : Requests \cup {None}, enabled : BOOLEAN, complete : BOOLEAN]
RetentionRows == [max : Limits \cup {None}, aged : BOOLEAN]

\* Ids are UUIDs.
ASSUME IdsAssumption ==
  /\ Users \cap Requests = {} /\ None \notin Users \cup Orders \cup Requests
  /\ None \notin UserRows \cup OrderRows \cup AdapterRows

RowsOK ==
  /\ user \in [Users -> UserRows \cup {None}]
  /\ sessions \subseteq [id : Users \cup Requests, user : Users, password : Requests \cup {None}]
  /\ order \in [Orders -> OrderRows \cup {None}]
  /\ deposits \subseteq [order : Orders, user : Users, payment : PaymentIds, by : Requests]
  /\ adapter \in AdapterRows \cup {None}
  /\ usages \subseteq [by : Requests, user : Users]
  /\ retention \in RetentionRows
  /\ ledger \in [Users -> Int]
  /\ \A s \in sessions : Exists(s.user)
  /\ \A o \in Orders : order[o] # None => Exists(order[o].user)
  /\ \A r \in deposits \cup usages : Exists(r.user)

AccountKinds == {"register", "login", "logout", "password", "reset", "status", "admin", "delete"}
MoneyKinds == {"balance", "credit", "callback", "usage"}

\* What an open request about a user has read and will write.
AccountRequestOK(r) ==
  /\ r.kind \in AccountKinds \cup MoneyKinds \cup {"order"} => r.user \in Users
  /\ r.kind \in {"order", "callback"} => r.order \in Orders
  /\ r.kind \in MoneyKinds => r.seen \in Int
  /\ r.kind \in MoneyKinds \ {"callback"} => r.arg \in Int
  /\ r.kind = "callback" => r.arg \in PaymentIds
  /\ r.kind = "login" => r.seen \in Requests \cup {None}
  /\ r.kind = "status" => {r.seen, r.arg} \subseteq {"ACTIVE", "SUSPENDED"}
  /\ r.kind = "admin" => {r.seen, r.arg} \subseteq BOOLEAN

\* The same for the payment adapter and the retention.
PlatformRequestOK(r) ==
  /\ r.kind = "create" => r.arg \in AdapterRows
  /\ r.kind \in {"order", "enable", "configure", "remove"} => r.seen \in AdapterRows
  /\ r.kind \in {"enable", "configure"} => r.arg \in BOOLEAN
  /\ r.kind = "retention" => r.arg \in RetentionRows

RequestsOK ==
  /\ DOMAIN req = Requests
  /\ \A q \in Requests :
       /\ DOMAIN req[q] = DOMAIN NewRequest
       /\ req[q].step = "new" => req[q] = NewRequest
       /\ req[q].step # "new" => req[q].kind \in Kinds
       /\ q \in Open => AccountRequestOK(req[q]) /\ PlatformRequestOK(req[q])
       /\ req[q].step \in {"new", "read", "flushed", "committed"}
       /\ q \notin Open => req[q].order = None /\ req[q].session = None /\ req[q].drop = {}
  /\ overlaps \subseteq SUBSET Requests

\* Rows and requests are well typed, and rows refer to rows that exist.
TypeOK == RowsOK /\ RequestsOK

Committed(q, kinds, u) ==
  req[q].step = "committed" /\ req[q].kind \in kinds /\ req[q].user = u

\* Two committed requests of these kinds for one user ran at the same time.
Overlapped(kinds, u) ==
  \E p, q \in Requests :
    {p, q} \in overlaps /\ Committed(p, kinds, u) /\ Committed(q, kinds, u)

\* The balance of a user is the sum of what was credited, set and charged,
\* unless two of these requests ran at the same time and one wrote over the
\* balance of the other (payment.py, usage_records.py, admin.py).
BalanceFollowsLedger ==
  \A u \in Users :
    Exists(u) /\ ~Overlapped({"balance", "credit", "callback", "usage"}, u)
      => user[u].balance = ledger[u]

\* An order is paid exactly if it was credited, and it was credited once,
\* unless two callbacks with different payment ids ran at the same time:
\* only the unique payment id of the deposit keeps the second from crediting.
PaidOnce ==
  /\ \A o \in Orders : order[o] # None =>
       (order[o].status = "PAID" <=> \E d \in deposits : d.order = o)
  /\ \A d, e \in deposits :
       d.order = e.order /\ d # e => d.payment # e.payment /\ {d.by, e.by} \in overlaps

\* Changing or resetting a password and suspending a user end every session
\* of the user but one whose login overlapped that request.
RevokedSessionsEnd ==
  \A s \in sessions :
    \/ user[s.user].password = s.password /\ user[s.user].status = "ACTIVE"
    \/ \E q \in Requests :
         {s.id, q} \in overlaps /\ Committed(q, {"password", "reset", "status"}, s.user)

ActiveAdmin(u) == Exists(u) /\ user[u].admin /\ user[u].status = "ACTIVE"

SuspendsItself(q) ==
  req[q].kind = "status" /\ req[q].arg # "ACTIVE" /\ req[q].session.user = req[q].user

\* q overlapped a committed request of these kinds.
Met(q, kinds) ==
  \E p \in Requests : {p, q} \in overlaps /\ req[p].step = "committed" /\ req[p].kind \in kinds

\* The last active administrator does not go with a request that demotes, deletes or
\* suspends a user, as nobody may demote or delete himself (update_user, delete_user).
\* There are two ways out: an administrator may suspend himself, the only one as
\* well, and two such requests that overlap may each rely on the caller of the other.
AnAdministratorRemains ==
  [][(\E u \in Users : ActiveAdmin(u)) =>
       \/ \E u \in Users : ActiveAdmin(u)'
       \/ \E q \in Requests :
            /\ q \in Open /\ req'[q].step = "committed"
            /\ SuspendsItself(q) \/ Met(q, {"admin", "delete", "status"})]_vars

\* An enabled adapter is completely configured, so that the orders it is offered
\* for can be created, unless one request enabled it while another took a part of
\* its configuration away (update_payment_adapter).
EnabledAdapterIsComplete ==
  \/ adapter = None \/ (adapter.enabled => adapter.complete)
  \/ \E p, q \in Requests : /\ {p, q} \in overlaps
                            /\ req[p].step = "committed" /\ req[p].kind = "enable"
                            /\ req[q].step = "committed" /\ req[q].kind = "configure"
=============================================================================
