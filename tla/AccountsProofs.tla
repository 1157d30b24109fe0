--------------------------- MODULE AccountsProofs ----------------------------
(***************************************************************************)
(* Theorems about Accounts, for any users, orders, amounts and number of   *)
(* overlapping requests.  What an open request has read stands until it    *)
(* commits, unless a request that could change it committed meanwhile;     *)
(* that request has then overlapped it.                                    *)
(***************************************************************************)
EXTENDS Accounts, TLAPS

USE DEF vars, accounts, payments, records

-----------------------------------------------------------------------------
(* What requests do.                                                       *)

BeginRequest(q) ==
  \/ \E u \in Users : BeginRegister(q, u) \/ BeginLogin(q, u) \/ BeginUsage(q, u)
  \/ \E s \in sessions : \/ BeginLogout(q, s) \/ BeginChangePassword(q, s)
                         \/ BeginAdapter(q, s) \/ BeginCleanup(q, s) \/ BeginRetention(q, s)
  \/ \E s \in sessions, u \in Users :
       \/ BeginResetPassword(q, s, u) \/ BeginUpdateUser(q, s, u)
       \/ BeginDeleteUser(q, s, u) \/ BeginAddBalance(q, s, u)
  \/ \E o \in Orders : BeginCallback(q, o) \/ \E s \in sessions : BeginOrder(q, s, o)
FlushRequest(q) == RevokeUserSessions(q) \/ EnforceRetention(q)
CommitRequest(q) ==
  \/ Register(q) \/ Login(q) \/ Logout(q) \/ SetPassword(q)
  \/ UpdateStatus(q) \/ UpdateAdmin(q) \/ UpdateBalance(q) \/ DeleteUser(q)
  \/ AddBalance(q) \/ CreateOrder(q) \/ MarkOrderPaid(q) \/ ChangeAdapter(q)
  \/ CreateUsage(q) \/ Cleanup(q) \/ UpsertRetention(q)

\* A step of the system is a step of one request.
LEMMA StepOfARequest ==
  ASSUME Next
  PROVE  \E q \in Requests : BeginRequest(q) \/ FlushRequest(q) \/ CommitRequest(q) \/ Rollback(q)
BY DEF Next, BeginRequest, FlushRequest, CommitRequest

\* What a request has read when it has begun: a user that is there, the balance, ...
UserKinds == (AccountKinds \ {"register"}) \cup MoneyKinds \cup {"order"}
Endangers(r) == \/ r.kind = "delete"
                \/ r.kind = "admin" /\ ~r.arg
                \/ r.kind = "status" /\ r.arg # "ACTIVE"
BeganAccount(r) ==
  /\ r.kind \in UserKinds => r.user \in Users /\ Exists(r.user)
  /\ r.kind = "register" => r.user \in Users
  /\ r.kind = "login" => /\ r.seen = user[r.user].password
                         /\ user[r.user].status = "ACTIVE"
  /\ r.kind = "status" => {r.seen, r.arg} \subseteq {"ACTIVE", "SUSPENDED"}
  /\ r.kind = "admin" => {r.seen, r.arg} \subseteq BOOLEAN
  /\ Endangers(r) => \/ \E a \in Users \ {r.user} : ActiveAdmin(a)
                     \/ r.kind = "status" /\ r.session.user = r.user
  /\ r.kind \in MoneyKinds => r.seen = user[r.user].balance
  /\ r.kind \in MoneyKinds \ {"callback"} => r.arg \in Int

\* ... an order that is pending, the adapter, the retention.
BeganPlatform(q, r) ==
  /\ r.kind = "order" => /\ r.order \in Orders /\ order[r.order] = None
                         /\ \A p \in Requests : req[p].order # r.order
  /\ r.kind = "callback" =>
       /\ r.order \in Orders /\ r.arg \in PaymentIds
       /\ order[r.order] # None /\ order[r.order].status = "PENDING"
       /\ order[r.order].user = r.user
  /\ r.kind = "create" => /\ r.arg \in AdapterRows /\ r.arg.id = q
                          /\ r.arg.enabled => r.arg.complete
  /\ r.kind \in {"order", "enable", "configure", "remove"} =>
       adapter # None /\ r.seen = adapter
  /\ r.kind \in {"enable", "configure"} => r.arg \in BOOLEAN
  /\ r.kind = "enable" /\ r.arg => adapter.complete
  /\ r.kind = "configure" /\ ~r.arg => ~adapter.enabled
  /\ r.kind = "retention" => r.arg \in RetentionRows

Began(q, r) ==
  /\ DOMAIN r = DOMAIN NewRequest /\ r.kind \in Kinds /\ r.drop = {}
  /\ BeganAccount(r) /\ BeganPlatform(q, r)

\* The record a request has once it has begun.
LEMMA BeginSets ==
  ASSUME RequestsOK, NEW q \in Requests, NEW kind, NEW fields,
         DOMAIN fields = DOMAIN NewRequest, Begin(q, kind, fields)
  PROVE  /\ DOMAIN req'[q] = DOMAIN NewRequest
         /\ req'[q].step = "read" /\ req'[q].kind = kind
         /\ req'[q].session = fields.session /\ req'[q].user = fields.user
         /\ req'[q].order = fields.order /\ req'[q].arg = fields.arg
         /\ req'[q].seen = fields.seen /\ req'[q].drop = fields.drop
<1> DEFINE new == [fields EXCEPT !.step = "read", !.kind = kind]
<1>1. req' = [req EXCEPT ![q] = new]
  BY DEF Begin
<1>2. DOMAIN new = DOMAIN NewRequest
  OBVIOUS
<1>3. /\ new.step = "read" /\ new.kind = kind /\ new.session = fields.session
      /\ new.user = fields.user /\ new.order = fields.order /\ new.arg = fields.arg
      /\ new.seen = fields.seen /\ new.drop = fields.drop
  BY DEF NewRequest
<1> HIDE DEF new
<1> QED BY <1>1, <1>2, <1>3 DEF RequestsOK

\* The same for a request with a session.
LEMMA BeginAsSets ==
  ASSUME RequestsOK, NEW q \in Requests, NEW kind, NEW fields, NEW s,
         DOMAIN fields = DOMAIN NewRequest, BeginAs(s, q, kind, fields)
  PROVE  /\ DOMAIN req'[q] = DOMAIN NewRequest
         /\ req'[q].step = "read" /\ req'[q].kind = kind
         /\ req'[q].session = s /\ req'[q].user = fields.user
         /\ req'[q].order = fields.order /\ req'[q].arg = fields.arg
         /\ req'[q].seen = fields.seen /\ req'[q].drop = fields.drop
<1> DEFINE new == [fields EXCEPT !.session = s]
<1>1. Begin(q, kind, new)
  BY DEF BeginAs
<1>2. DOMAIN new = DOMAIN NewRequest
  OBVIOUS
<1>3. /\ new.session = s /\ new.user = fields.user /\ new.order = fields.order
      /\ new.arg = fields.arg /\ new.seen = fields.seen /\ new.drop = fields.drop
  BY DEF NewRequest
<1> HIDE DEF new
<1> QED BY <1>1, <1>2, <1>3, BeginSets

\* Whatever route a request enters by, it begins with a read.
LEMMA BeginIs ==
  ASSUME NEW q \in Requests, BeginRequest(q)
  PROVE  \E kind, fields : Begin(q, kind, fields)
<1> USE DEF BeginAsAdmin, BeginAs
<1> QED
  BY DEF BeginRequest, BeginRegister, BeginLogin, BeginUsage, BeginLogout, BeginChangePassword,
     BeginAdapter, BeginCleanup, BeginRetention, BeginResetPassword, BeginUpdateUser,
     BeginDeleteUser, BeginAddBalance, BeginCallback, BeginOrder

\* Beginning a request changes no row; it opens the request and notes which others it overlaps.
LEMMA BeginFrame ==
  ASSUME TypeOK, NEW q \in Requests, BeginRequest(q)
  PROVE  /\ UNCHANGED <<accounts, payments, records>>
         /\ req[q].step = "new" /\ req'[q].step = "read"
         /\ DOMAIN req' = Requests
         /\ \A p \in Requests \ {q} : req'[p] = req[p]
         /\ Open' = Open \cup {q}
         /\ overlaps \subseteq overlaps'
         /\ overlaps' \subseteq SUBSET Requests
         /\ \A p \in Open : {p, q} \in overlaps' /\ {q, p} \in overlaps'
<1> PICK kind, fields : Begin(q, kind, fields)
  BY BeginIs
<1> QED BY DEF Begin, TypeOK, RequestsOK, Open

\* Requests that name the user they work on begin as a well-typed record.
LEMMA UsersBegan ==
  ASSUME TypeOK, NEW q \in Requests, NEW u \in Users,
         \/ BeginRegister(q, u) \/ BeginLogin(q, u) \/ BeginUsage(q, u)
         \/ \E s \in sessions : \/ BeginResetPassword(q, s, u) \/ BeginDeleteUser(q, s, u)
                                \/ BeginAddBalance(q, s, u)
  PROVE  Began(q, req'[q])
<1> USE BeginSets, BeginAsSets
    DEF Began, BeganAccount, BeganPlatform, Endangers, UserKinds, AccountKinds, MoneyKinds, Kinds, NewRequest,
        TypeOK
<1>1. CASE BeginRegister(q, u)
  BY <1>1 DEF BeginRegister
<1>2. CASE BeginLogin(q, u)
  <2> DEFINE f == [NewRequest EXCEPT !.user = u, !.seen = user[u].password]
  <2>1. DOMAIN f = DOMAIN NewRequest /\ f.user = u /\ f.seen = user[u].password /\ f.drop = {}
    OBVIOUS
  <2>2. Exists(u) /\ user[u].status = "ACTIVE" /\ Begin(q, "login", f)
    BY <1>2 DEF BeginLogin
  <2> HIDE DEF f
  <2> QED BY <2>1, <2>2
<1>3. CASE BeginUsage(q, u)
  <2> PICK cost \in Costs :
        /\ Exists(u)
        /\ Begin(q, "usage",
             [NewRequest EXCEPT !.user = u, !.arg = cost, !.seen = user[u].balance])
    BY <1>3 DEF BeginUsage
  <2> DEFINE f == [NewRequest EXCEPT !.user = u, !.arg = cost, !.seen = user[u].balance]
  <2>1. /\ DOMAIN f = DOMAIN NewRequest /\ f.user = u /\ f.arg \in Int
        /\ f.seen = user[u].balance /\ f.drop = {}
    BY AmountsAssumption DEF Costs
  <2> HIDE DEF f
  <2>2. Begin(q, "usage", f)
    BY DEF f
  <2> QED BY <2>1, <2>2
<1>4. ASSUME NEW s \in sessions, BeginResetPassword(q, s, u) PROVE Began(q, req'[q])
  BY <1>4 DEF BeginResetPassword, BeginAsAdmin
<1>5. ASSUME NEW s \in sessions, BeginDeleteUser(q, s, u) PROVE Began(q, req'[q])
  <2>1. s.user \in Users /\ ActiveAdmin(s.user) /\ u # s.user
    BY <1>5 DEF BeginDeleteUser, BeginAsAdmin, BeginAs, Authenticated, RowsOK, ActiveAdmin
  <2> QED BY <1>5, <2>1 DEF BeginDeleteUser, BeginAsAdmin
<1>6. ASSUME NEW s \in sessions, BeginAddBalance(q, s, u) PROVE Began(q, req'[q])
  <2> PICK amount \in Adjustments :
        /\ Exists(u)
        /\ BeginAs(s, q, "credit",
             [NewRequest EXCEPT !.user = u, !.arg = amount, !.seen = user[u].balance])
    BY <1>6 DEF BeginAddBalance, BeginAsAdmin
  <2> DEFINE f == [NewRequest EXCEPT !.user = u, !.arg = amount, !.seen = user[u].balance]
  <2>1. /\ DOMAIN f = DOMAIN NewRequest /\ f.user = u /\ f.arg \in Int
        /\ f.seen = user[u].balance /\ f.drop = {}
    BY AmountsAssumption
  <2> HIDE DEF f
  <2>2. BeginAs(s, q, "credit", f)
    BY DEF f
  <2> QED BY <2>1, <2>2
<1> QED BY <1>1, <1>2, <1>3, <1>4, <1>5, <1>6

\* Requests of a session's own user, and the user form, begin as a well-typed record.
LEMMA UpdatesBegan ==
  ASSUME TypeOK, NEW q \in Requests, NEW s \in sessions,
         \/ \E u \in Users : BeginUpdateUser(q, s, u)
         \/ BeginLogout(q, s) \/ BeginChangePassword(q, s) \/ BeginCleanup(q, s)
  PROVE  Began(q, req'[q])
<1> USE BeginSets, BeginAsSets
    DEF Began, BeganAccount, BeganPlatform, Endangers, UserKinds, AccountKinds, MoneyKinds, Kinds, NewRequest,
        TypeOK
<1>1. ASSUME NEW u \in Users, BeginUpdateUser(q, s, u) PROVE Began(q, req'[q])
  <2>1. Exists(u) /\ user[u] \in UserRows
    BY <1>1 DEF BeginUpdateUser, RowsOK, Exists
  <2>2. ASSUME NEW value \in {"ACTIVE", "SUSPENDED"}, user[s.user].admin,
               BeginAs(s, q, "status",
                 [NewRequest EXCEPT !.user = u, !.arg = value, !.seen = user[u].status])
        PROVE  Began(q, req'[q])
    <3> DEFINE f == [NewRequest EXCEPT !.user = u, !.arg = value, !.seen = user[u].status]
    <3>1. /\ DOMAIN f = DOMAIN NewRequest /\ f.user = u /\ f.arg = value
          /\ f.seen \in {"ACTIVE", "SUSPENDED"} /\ f.drop = {}
      BY <2>1 DEF UserRows
    <3> HIDE DEF f
    <3>2. BeginAs(s, q, "status", f)
      BY <2>2 DEF f
    <3>3. s.user \in Users /\ ActiveAdmin(s.user)
      BY <2>2, <3>2 DEF BeginAs, Authenticated, RowsOK, ActiveAdmin
    <3> QED BY <2>1, <3>1, <3>2, <3>3
  <2>3. ASSUME NEW value \in BOOLEAN, u = s.user => value, user[s.user].admin,
               BeginAs(s, q, "admin",
                 [NewRequest EXCEPT !.user = u, !.arg = value, !.seen = user[u].admin])
        PROVE  Began(q, req'[q])
    <3> DEFINE f == [NewRequest EXCEPT !.user = u, !.arg = value, !.seen = user[u].admin]
    <3>1. /\ DOMAIN f = DOMAIN NewRequest /\ f.user = u /\ f.arg = value
          /\ f.seen \in BOOLEAN /\ f.drop = {}
      BY <2>1 DEF UserRows
    <3> HIDE DEF f
    <3>2. BeginAs(s, q, "admin", f)
      BY <2>3 DEF f
    <3>3. s.user \in Users /\ ActiveAdmin(s.user)
      BY <2>3, <3>2 DEF BeginAs, Authenticated, RowsOK, ActiveAdmin
    <3> QED BY <2>1, <2>3, <3>1, <3>2, <3>3
  <2>4. ASSUME NEW value \in Adjustments,
               BeginAs(s, q, "balance",
                 [NewRequest EXCEPT !.user = u, !.arg = value, !.seen = user[u].balance])
        PROVE  Began(q, req'[q])
    <3> DEFINE f == [NewRequest EXCEPT !.user = u, !.arg = value, !.seen = user[u].balance]
    <3>1. /\ DOMAIN f = DOMAIN NewRequest /\ f.user = u /\ f.arg \in Int
          /\ f.seen = user[u].balance /\ f.drop = {}
      BY AmountsAssumption
    <3> HIDE DEF f
    <3>2. BeginAs(s, q, "balance", f)
      BY <2>4 DEF f
    <3> QED BY <2>1, <3>1, <3>2
  <2> HIDE DEF Began
  <2> QED BY <1>1, <2>2, <2>3, <2>4 DEF BeginUpdateUser, BeginAsAdmin
<1>2. CASE BeginLogout(q, s)
  <2> DEFINE f == [NewRequest EXCEPT !.user = s.user, !.session = s]
  <2>1. DOMAIN f = DOMAIN NewRequest /\ f.user = s.user /\ f.drop = {}
    OBVIOUS
  <2>2. s.user \in Users /\ Exists(s.user) /\ Begin(q, "logout", f)
    BY <1>2 DEF BeginLogout, RowsOK
  <2> HIDE DEF f
  <2> QED BY <2>1, <2>2
<1>3. CASE BeginChangePassword(q, s)
  <2>1. s.user \in Users /\ Exists(s.user)
    BY DEF RowsOK
  <2> QED BY <1>3, <2>1 DEF BeginChangePassword
<1>4. CASE BeginCleanup(q, s)
  BY <1>4 DEF BeginCleanup, BeginAsAdmin
<1> QED BY <1>1, <1>2, <1>3, <1>4

\* An order belongs to a user that exists.
LEMMA OrderedByUsers ==
  ASSUME RowsOK, NEW o \in Orders, order[o] # None
  PROVE  order[o].user \in Users /\ Exists(order[o].user)
<1>1. order[o] \in OrderRows
  BY DEF RowsOK
<1> QED BY <1>1 DEF RowsOK, OrderRows

\* Orders and provider callbacks begin as a well-typed record.
LEMMA PaymentsBegan ==
  ASSUME TypeOK, NEW q \in Requests, NEW o \in Orders,
         BeginCallback(q, o) \/ \E s \in sessions : BeginOrder(q, s, o)
  PROVE  Began(q, req'[q])
<1> USE BeginSets, BeginAsSets
    DEF Began, BeganAccount, BeganPlatform, Endangers, UserKinds, AccountKinds, MoneyKinds, Kinds, NewRequest,
        TypeOK
<1>1. CASE BeginCallback(q, o)
  <2> PICK payment \in PaymentIds :
        Begin(q, "callback",
          [NewRequest EXCEPT !.user = order[o].user, !.order = o, !.arg = payment,
                             !.seen = user[order[o].user].balance])
    BY <1>1 DEF BeginCallback
  <2> DEFINE f == [NewRequest EXCEPT !.user = order[o].user, !.order = o, !.arg = payment,
                                     !.seen = user[order[o].user].balance]
  <2>1. /\ DOMAIN f = DOMAIN NewRequest /\ f.user = order[o].user /\ f.order = o
        /\ f.arg = payment /\ f.seen = user[order[o].user].balance /\ f.drop = {}
    OBVIOUS
  <2>2. payment \in PaymentIds
    OBVIOUS
  <2>3. /\ order[o] # None /\ order[o].status = "PENDING"
        /\ order[o].user \in Users /\ Exists(order[o].user)
    BY <1>1, OrderedByUsers DEF BeginCallback
  <2> HIDE DEF f
  <2>4. Begin(q, "callback", f)
    BY DEF f
  <2> QED BY <2>1, <2>2, <2>3, <2>4
<1>2. ASSUME NEW s \in sessions, BeginOrder(q, s, o) PROVE Began(q, req'[q])
  <2> DEFINE f == [NewRequest EXCEPT !.user = s.user, !.order = o, !.seen = adapter]
  <2>1. /\ DOMAIN f = DOMAIN NewRequest /\ f.user = s.user /\ f.order = o
        /\ f.seen = adapter /\ f.drop = {}
    OBVIOUS
  <2>2. /\ order[o] = None /\ \A p \in Requests : req[p].order # o
        /\ adapter # None /\ s.user \in Users /\ Exists(s.user)
    BY <1>2 DEF BeginOrder, Usable, RowsOK
  <2> HIDE DEF f
  <2>3. BeginAs(s, q, "order", f)
    BY <1>2 DEF BeginOrder, f
  <2> QED BY <2>1, <2>2, <2>3
<1> QED BY <1>1, <1>2

\* Adapter and retention requests begin as a well-typed record.
LEMMA PlatformBegan ==
  ASSUME TypeOK, NEW q \in Requests, NEW s \in sessions,
         BeginAdapter(q, s) \/ BeginRetention(q, s)
  PROVE  Began(q, req'[q])
<1> USE BeginAsSets
    DEF Began, BeganAccount, BeganPlatform, Endangers, UserKinds, AccountKinds, MoneyKinds, Kinds, NewRequest,
        TypeOK, ValidConfig
<1>1. CASE BeginAdapter(q, s)
  <2>1. ASSUME NEW enabled \in BOOLEAN, NEW complete \in BOOLEAN, enabled => complete,
               BeginAs(s, q, "create", [NewRequest EXCEPT !.arg = AdapterRow(q, enabled, complete)])
        PROVE  Began(q, req'[q])
    <3> DEFINE row == AdapterRow(q, enabled, complete)
               f == [NewRequest EXCEPT !.arg = row]
    <3>1. row \in AdapterRows /\ row.id = q /\ (row.enabled => row.complete)
      BY <2>1 DEF AdapterRow, AdapterRows
    <3> HIDE DEF row
    <3>2. DOMAIN f = DOMAIN NewRequest /\ f.arg = row /\ f.drop = {}
      OBVIOUS
    <3> HIDE DEF f
    <3>3. BeginAs(s, q, "create", f)
      BY <2>1 DEF f, row
    <3> QED BY <3>1, <3>2, <3>3
  <2>2. ASSUME NEW value \in BOOLEAN, adapter # None, value => adapter.complete,
               BeginAs(s, q, "enable", [NewRequest EXCEPT !.arg = value, !.seen = adapter])
        PROVE  Began(q, req'[q])
    <3> DEFINE f == [NewRequest EXCEPT !.arg = value, !.seen = adapter]
    <3>1. DOMAIN f = DOMAIN NewRequest /\ f.arg = value /\ f.seen = adapter /\ f.drop = {}
      OBVIOUS
    <3> HIDE DEF f
    <3>2. BeginAs(s, q, "enable", f)
      BY <2>2 DEF f
    <3> QED BY <2>2, <3>1, <3>2
  <2>3. ASSUME NEW value \in BOOLEAN, adapter # None, adapter.enabled => value,
               BeginAs(s, q, "configure", [NewRequest EXCEPT !.arg = value, !.seen = adapter])
        PROVE  Began(q, req'[q])
    <3> DEFINE f == [NewRequest EXCEPT !.arg = value, !.seen = adapter]
    <3>1. DOMAIN f = DOMAIN NewRequest /\ f.arg = value /\ f.seen = adapter /\ f.drop = {}
      OBVIOUS
    <3> HIDE DEF f
    <3>2. BeginAs(s, q, "configure", f)
      BY <2>3 DEF f
    <3> QED BY <2>3, <3>1, <3>2
  <2>4. ASSUME adapter # None, BeginAs(s, q, "remove", [NewRequest EXCEPT !.seen = adapter])
        PROVE  Began(q, req'[q])
    BY <2>4
  <2> HIDE DEF Began
  <2> QED BY <1>1, <2>1, <2>2, <2>3, <2>4 DEF BeginAdapter, BeginAsAdmin
<1>2. CASE BeginRetention(q, s)
  <2> PICK merged \in [max : Limits, aged : {retention.aged}]
                        \cup [max : {retention.max}, aged : {~retention.aged}] :
        BeginAs(s, q, "retention", [NewRequest EXCEPT !.arg = merged, !.seen = retention])
    BY <1>2 DEF BeginRetention, BeginAsAdmin
  <2> DEFINE f == [NewRequest EXCEPT !.arg = merged, !.seen = retention]
  <2>1. merged \in RetentionRows
    BY DEF RowsOK, RetentionRows
  <2>2. DOMAIN f = DOMAIN NewRequest /\ f.arg = merged /\ f.drop = {}
    OBVIOUS
  <2> HIDE DEF f
  <2>3. BeginAs(s, q, "retention", f)
    BY DEF f
  <2> QED BY <2>1, <2>2, <2>3
<1> QED BY <1>1, <1>2

\* A request that begins has read what its kind says, and nothing else changes.
LEMMA RequestBegan ==
  ASSUME TypeOK, NEW q \in Requests, BeginRequest(q)
  PROVE  Began(q, req'[q])
BY UsersBegan, UpdatesBegan, PaymentsBegan, PlatformBegan DEF BeginRequest

\* A DELETE leaves everything but the request alone, which keeps what it has read.
LEMMA FlushFrame ==
  ASSUME TypeOK, NEW q \in Requests, FlushRequest(q)
  PROVE  /\ UNCHANGED <<accounts, payments, records, overlaps>>
         /\ q \in Open /\ req[q].step = "read" /\ req'[q].step = "flushed"
         /\ DOMAIN req' = Requests /\ DOMAIN req'[q] = DOMAIN NewRequest
         /\ req'[q].kind = req[q].kind /\ req'[q].user = req[q].user
         /\ req'[q].order = req[q].order /\ req'[q].arg = req[q].arg
         /\ req'[q].seen = req[q].seen /\ req'[q].session = req[q].session
         /\ \A p \in Requests \ {q} : req'[p] = req[p]
         /\ Open' = Open
<1> PICK dropped : Flush(q, dropped)
  BY DEF FlushRequest, RevokeUserSessions, EnforceRetention
<1> DEFINE new == [req[q] EXCEPT !.step = "flushed", !.drop = dropped]
<1>1. DOMAIN req[q] = DOMAIN NewRequest
  BY DEF TypeOK, RequestsOK
<1>2. /\ DOMAIN new = DOMAIN NewRequest /\ new.step = "flushed"
      /\ new.kind = req[q].kind /\ new.user = req[q].user /\ new.order = req[q].order
      /\ new.arg = req[q].arg /\ new.seen = req[q].seen /\ new.session = req[q].session
  BY <1>1 DEF NewRequest
<1>3. req' = [req EXCEPT ![q] = new]
  BY DEF Flush, TypeOK, RequestsOK
<1> HIDE DEF new
<1> QED BY <1>2, <1>3 DEF Flush, TypeOK, RequestsOK, Open

\* Committing closes the request and leaves every other request as it was.
LEMMA CommitFrame ==
  ASSUME TypeOK, NEW q \in Requests, NEW kind, NEW step, step \in {"read", "flushed"},
         Commit(q, kind, step)
  PROVE  /\ overlaps' = overlaps
         /\ q \in Open /\ req[q].step = step /\ req[q].kind = kind
         /\ req'[q].step = "committed" /\ req'[q].kind = kind /\ req'[q].user = req[q].user
         /\ req'[q].order = None /\ req'[q].session = None /\ req'[q].drop = {}
         /\ DOMAIN req' = Requests /\ DOMAIN req'[q] = DOMAIN NewRequest
         /\ \A p \in Requests \ {q} : req'[p] = req[p]
         /\ Open' = Open \ {q}
<1> DEFINE new == [NewRequest EXCEPT !.step = "committed", !.kind = kind, !.user = req[q].user]
<1>1. /\ DOMAIN new = DOMAIN NewRequest /\ new.step = "committed" /\ new.kind = kind
      /\ new.user = req[q].user /\ new.order = None /\ new.session = None /\ new.drop = {}
  BY DEF NewRequest
<1>2. req' = [req EXCEPT ![q] = new]
  BY DEF Commit
<1> HIDE DEF new
<1> QED BY <1>1, <1>2 DEF Commit, TypeOK, RequestsOK, Open

\* Whatever a request writes, it ends with one commit.
LEMMA CommitIs ==
  ASSUME NEW q \in Requests, CommitRequest(q)
  PROVE  \E kind, step : step \in {"read", "flushed"} /\ Commit(q, kind, step)
BY DEF CommitRequest, Register, Login, Logout, SetPassword, UpdateStatus, UpdateAdmin,
   UpdateBalance, DeleteUser, AddBalance, CreateOrder, MarkOrderPaid, ChangeAdapter,
   CreateUsage, Cleanup, UpsertRetention

\* A rolled back request leaves no row behind and gives its slot back.
LEMMA RollbackFrame ==
  ASSUME TypeOK, NEW q \in Requests, Rollback(q)
  PROVE  /\ UNCHANGED <<accounts, payments, records>>
         /\ q \in Open /\ req'[q] = NewRequest
         /\ DOMAIN req' = Requests
         /\ \A p \in Requests \ {q} : req'[p] = req[p]
         /\ Open' = Open \ {q}
         /\ overlaps' \subseteq overlaps
         /\ \A pair \in overlaps : q \notin pair => pair \in overlaps'
BY DEF Rollback, NewRequest, TypeOK, RequestsOK, Open

-----------------------------------------------------------------------------
(* Type correctness.                                                       *)

\* Committing keeps the requests well-typed.
LEMMA CommitRequestsOK ==
  ASSUME TypeOK, NEW q \in Requests, CommitRequest(q)
  PROVE  RequestsOK'
<1> PICK kind, step : step \in {"read", "flushed"} /\ Commit(q, kind, step)
  BY CommitIs
<1>1. req[q].kind \in Kinds /\ kind = req[q].kind
  BY CommitFrame DEF TypeOK, RequestsOK, Open
<1> QED BY <1>1, CommitFrame DEF TypeOK, RequestsOK

\* Writing one user's row keeps the table well-typed and deletes nobody.
LEMMA UserWritten ==
  ASSUME user \in [Users -> UserRows \cup {None}], NEW u \in Users, NEW row \in UserRows,
         user' = [user EXCEPT ![u] = row]
  PROVE  /\ user' \in [Users -> UserRows \cup {None}]
         /\ user'[u] # None /\ \A v \in Users : Exists(v) => Exists(v)'
BY IdsAssumption DEF Exists

\* Commits of account requests keep the rows well-typed.
LEMMA CommitAccountsOK ==
  ASSUME TypeOK, NEW q \in Requests,
         \/ Register(q) \/ Login(q) \/ Logout(q) \/ SetPassword(q)
         \/ UpdateStatus(q) \/ UpdateAdmin(q) \/ DeleteUser(q)
  PROVE  RowsOK'
<1> USE IdsAssumption DEF TypeOK, RowsOK, AccountRequestOK, AccountKinds, Exists
<1>1. CASE Register(q)
  <2>1. req[q].kind = "register" /\ q \in Open /\ req[q].user \in Users
    BY <1>1 DEF Register, Commit, Open, RequestsOK
  <2>2. UserRow(FALSE, q, 0) \in UserRows
    BY DEF UserRow, UserRows
  <2>3. SessionRow(q, req[q].user, q) \in
          [id : Users \cup Requests, user : Users, password : Requests \cup {None}]
        /\ SessionRow(q, req[q].user, q).user = req[q].user
    BY <2>1 DEF SessionRow
  <2> HIDE DEF UserRows, UserRow, SessionRow
  <2>4. user' \in [Users -> UserRows \cup {None}] /\ \A u \in Users : Exists(u) => Exists(u)'
    <3>1. user' = [user EXCEPT ![req[q].user] = UserRow(FALSE, q, 0)]
      BY <1>1 DEF Register
    <3> QED BY <2>1, <2>2, <3>1, UserWritten
  <2>5. user'[req[q].user] # None
    <3>1. user' = [user EXCEPT ![req[q].user] = UserRow(FALSE, q, 0)]
      BY <1>1 DEF Register
    <3> QED BY <2>1, <2>2, <3>1, UserWritten
  <2>6. /\ sessions' = sessions \cup {SessionRow(q, req[q].user, q)}
        /\ ledger' = [ledger EXCEPT ![req[q].user] = 0]
        /\ UNCHANGED <<payments, records>>
    BY <1>1 DEF Register
  <2>7. ledger' \in [Users -> Int] /\ UNCHANGED <<payments, records>>
    BY <2>1, <2>6
  <2>8. /\ \A s \in sessions' : Exists(s.user)'
        /\ sessions' \subseteq [id : Users \cup Requests, user : Users,
                                password : Requests \cup {None}]
    BY <2>3, <2>4, <2>5, <2>6
  <2>9. /\ \A o \in Orders : order[o] # None => order[o].user \in Users /\ Exists(order[o].user)
        /\ \A r \in deposits \cup usages : r.user \in Users /\ Exists(r.user)
    BY DEF OrderRows
  <2> HIDE DEF Exists
  <2> QED BY <2>4, <2>7, <2>8, <2>9
<1>2. CASE Login(q)
  <2>1. /\ req[q].kind = "login" /\ q \in Open /\ req[q].user \in Users
        /\ req[q].seen \in Requests \cup {None}
    BY <1>2 DEF Login, Commit, Open, RequestsOK
  <2> QED BY <1>2, <2>1 DEF Login, SessionRow
<1>3. CASE Logout(q)
  BY <1>3 DEF Logout
<1>4. CASE SetPassword(q)
  <2>1. req[q].kind \in {"password", "reset"} /\ q \in Open /\ req[q].user \in Users
    BY <1>4 DEF SetPassword, Commit, Open, RequestsOK
  <2>2. user' \in [Users -> UserRows \cup {None}] /\ \A u \in Users : Exists(u) => Exists(u)'
    BY <1>4, <2>1 DEF SetPassword, UserRows
  <2> QED BY <1>4, <2>2 DEF SetPassword
<1>5. CASE UpdateStatus(q)
  <2>1. /\ req[q].kind = "status" /\ q \in Open /\ req[q].user \in Users
        /\ {req[q].seen, req[q].arg} \subseteq {"ACTIVE", "SUSPENDED"}
    BY <1>5 DEF UpdateStatus, Commit, Open, RequestsOK
  <2>2. user' \in [Users -> UserRows \cup {None}] /\ \A u \in Users : Exists(u) => Exists(u)'
    BY <1>5, <2>1 DEF UpdateStatus, UserRows, Assigned
  <2> QED BY <1>5, <2>2 DEF UpdateStatus
<1>6. CASE UpdateAdmin(q)
  <2>1. /\ req[q].kind = "admin" /\ q \in Open /\ req[q].user \in Users
        /\ {req[q].seen, req[q].arg} \subseteq BOOLEAN
    BY <1>6 DEF UpdateAdmin, Commit, Open, RequestsOK
  <2>2. user' \in [Users -> UserRows \cup {None}] /\ \A u \in Users : Exists(u) => Exists(u)'
    BY <1>6, <2>1 DEF UpdateAdmin, UserRows, Assigned
  <2> QED BY <1>6, <2>2 DEF UpdateAdmin
<1>7. CASE DeleteUser(q)
  <2>1. req[q].user \in Users
    BY <1>7 DEF DeleteUser, Commit, Open, RequestsOK
  <2> QED BY <1>7, <2>1 DEF DeleteUser
<1> QED BY <1>1, <1>2, <1>3, <1>4, <1>5, <1>6, <1>7

\* What is left of SetBalance is the step of its request.
LEMMA BalanceOK ==
  ASSUME TypeOK, NEW u \in Users, NEW value \in Int, NEW meant \in Int,
         SetBalance(u, value, meant)
  PROVE  /\ user' \in [Users -> UserRows \cup {None}] /\ ledger' \in [Users -> Int]
         /\ \A v \in Users : Exists(v) <=> Exists(v)'
         /\ Exists(u) /\ sessions' = sessions
         /\ user'[u].balance = value /\ ledger'[u] = meant
         /\ user'[u].password = user[u].password /\ user'[u].status = user[u].status
         /\ user'[u].admin = user[u].admin
         /\ \A v \in Users \ {u} : user'[v] = user[v] /\ ledger'[v] = ledger[v]
<1> DEFINE new == [user[u] EXCEPT !.balance = value]
<1>1. user[u] \in UserRows /\ Exists(u)
  BY DEF TypeOK, RowsOK, SetBalance, Exists
<1>2. /\ new \in UserRows /\ new.balance = value /\ new.password = user[u].password
      /\ new.status = user[u].status /\ new.admin = user[u].admin
  BY <1>1 DEF UserRows
<1>3. user' = [user EXCEPT ![u] = new] /\ ledger' = [ledger EXCEPT ![u] = meant]
  BY DEF SetBalance, TypeOK, RowsOK
<1>4. new # None
  BY <1>2, IdsAssumption
<1> HIDE DEF new
<1> QED BY <1>1, <1>2, <1>3, <1>4 DEF TypeOK, RowsOK, SetBalance, Exists

\* The requests that write a balance.
LEMMA MoneyIs ==
  ASSUME TypeOK, NEW q \in Requests,
         UpdateBalance(q) \/ AddBalance(q) \/ MarkOrderPaid(q) \/ CreateUsage(q)
  PROVE  /\ req[q].kind \in MoneyKinds /\ q \in Open /\ req[q].user \in Users
         /\ req[q].seen \in Int
         /\ req[q].kind # "callback" => req[q].arg \in Int
         /\ req[q].kind = "callback" => req[q].order \in Orders /\ req[q].arg \in PaymentIds
         /\ \E value, meant \in Int : SetBalance(req[q].user, value, meant)
<1> DEFINE u == req[q].user
<1>1. /\ req[q].kind \in MoneyKinds /\ q \in Open /\ u \in Users /\ req[q].seen \in Int
      /\ req[q].kind # "callback" => req[q].arg \in Int
      /\ req[q].kind = "callback" => req[q].order \in Orders /\ req[q].arg \in PaymentIds
  BY DEF UpdateBalance, AddBalance, MarkOrderPaid, CreateUsage, Commit, TypeOK, RequestsOK, Open,
         AccountRequestOK, MoneyKinds
<1>2. ledger[u] \in Int /\ user \in [Users -> UserRows \cup {None}]
  BY <1>1 DEF TypeOK, RowsOK
<1>3. \E value, meant \in Int : SetBalance(u, value, meant)
  <2>1. Exists(u) => user[u].balance \in Int
    BY <1>1, <1>2 DEF UserRows, Exists
  <2>2. CASE UpdateBalance(q)
    BY <2>1, <2>2, <1>1 DEF UpdateBalance, Commit, Assigned
  <2>3. CASE AddBalance(q)
    <3>1. SetBalance(u, req[q].seen + req[q].arg, ledger[u] + req[q].arg) /\ req[q].kind = "credit"
      BY <2>3 DEF AddBalance, Commit
    <3> QED BY <3>1, <1>1, <1>2
  <2>4. CASE MarkOrderPaid(q)
    <3>1. SetBalance(u, req[q].seen + OrderAmount, ledger[u] + OrderAmount)
      BY <2>4 DEF MarkOrderPaid
    <3> QED BY <3>1, <1>1, <1>2, AmountsAssumption
  <2>5. CASE CreateUsage(q)
    <3>1. SetBalance(u, Assigned(req[q].seen, req[q].seen - req[q].arg, user[u].balance),
                     ledger[u] - req[q].arg)
          /\ req[q].kind = "usage" /\ Exists(u)
      BY <2>5 DEF CreateUsage, Commit, SetBalance
    <3> QED BY <3>1, <2>1, <1>1, <1>2 DEF Assigned
  <2> QED BY <2>2, <2>3, <2>4, <2>5
<1> QED BY <1>1, <1>3

\* Commits that move money keep the rows well-typed.
LEMMA CommitMoneyOK ==
  ASSUME TypeOK, NEW q \in Requests,
         UpdateBalance(q) \/ AddBalance(q) \/ MarkOrderPaid(q) \/ CreateUsage(q)
  PROVE  RowsOK'
<1> DEFINE u == req[q].user
<1>1. /\ req[q].kind \in MoneyKinds /\ q \in Open /\ u \in Users /\ req[q].seen \in Int
      /\ req[q].kind # "callback" => req[q].arg \in Int
      /\ req[q].kind = "callback" => req[q].order \in Orders /\ req[q].arg \in PaymentIds
  BY MoneyIs
<1>4. PICK value \in Int, meant \in Int : SetBalance(u, value, meant)
  BY MoneyIs
<1>5. /\ user' \in [Users -> UserRows \cup {None}] /\ ledger' \in [Users -> Int]
      /\ \A v \in Users : Exists(v) <=> Exists(v)'
      /\ Exists(u) /\ sessions' = sessions
  BY <1>1, <1>4, BalanceOK
<1> HIDE DEF u
<1>6. CASE UpdateBalance(q) \/ AddBalance(q)
  <2>1. UNCHANGED <<payments, records>>
    BY <1>6 DEF UpdateBalance, AddBalance
  <2> QED BY <1>5, <2>1 DEF TypeOK, RowsOK, OrderRows
<1>7. CASE MarkOrderPaid(q)
  <2> DEFINE o == req[q].order
             new == [order[o] EXCEPT !.status = "PAID"]
             d == DepositRow(q, o, u, req[q].arg)
  <2>1. o \in Orders /\ order[o] # None /\ order[o] \in OrderRows
    BY <1>1, <1>7 DEF MarkOrderPaid, Commit, TypeOK, RowsOK
  <2>2. new \in OrderRows /\ new.user = order[o].user
    BY <2>1 DEF OrderRows
  <2>3. d \in [order : Orders, user : Users, payment : PaymentIds, by : Requests] /\ d.user = u
    BY <1>1, <1>7 DEF MarkOrderPaid, Commit, DepositRow
  <2>4. order' = [order EXCEPT ![o] = new] /\ deposits' = deposits \cup {d}
    BY <1>7 DEF MarkOrderPaid, TypeOK, RowsOK, u
  <2>5. UNCHANGED <<adapter, usages, retention>>
    BY <1>7 DEF MarkOrderPaid
  <2> HIDE DEF new, d, o
  <2> QED BY <1>5, <2>1, <2>2, <2>3, <2>4, <2>5 DEF TypeOK, RowsOK, OrderRows
<1>8. CASE CreateUsage(q)
  <2>1. req[q].kind = "usage" /\ usages' \subseteq usages \cup {UsageRow(q, u)}
    BY <1>8 DEF CreateUsage, Commit, Visible, u
  <2>2. UsageRow(q, u) \in [by : Requests, user : Users] /\ UsageRow(q, u).user = u
    BY <1>1 DEF UsageRow
  <2> HIDE DEF UsageRow
  <2>3. UNCHANGED <<payments, retention>>
    BY <1>8 DEF CreateUsage
  <2> QED BY <1>5, <2>1, <2>2, <2>3 DEF TypeOK, RowsOK, OrderRows
<1> QED BY <1>6, <1>7, <1>8

\* Commits of platform requests keep the rows well-typed.
LEMMA CommitPlatformOK ==
  ASSUME TypeOK, NEW q \in Requests,
         CreateOrder(q) \/ ChangeAdapter(q) \/ Cleanup(q) \/ UpsertRetention(q)
  PROVE  RowsOK'
<1> USE DEF TypeOK, RowsOK
<1>1. CASE CreateOrder(q)
  <2> DEFINE o == req[q].order
             row == OrderRow(req[q].user)
  <2>1. /\ req[q].kind = "order" /\ q \in Open /\ req[q].user \in Users /\ o \in Orders
        /\ Exists(req[q].user)
    BY <1>1 DEF CreateOrder, Commit, Open, RequestsOK, AccountRequestOK
  <2>2. row \in OrderRows /\ row.user = req[q].user
    BY <2>1 DEF OrderRow, OrderRows
  <2>3. order' = [order EXCEPT ![o] = row] /\ UNCHANGED <<accounts, deposits, adapter, records>>
    BY <1>1 DEF CreateOrder
  <2> HIDE DEF row, o
  <2> QED BY <2>1, <2>2, <2>3 DEF Exists
<1>2. CASE ChangeAdapter(q)
  <2>1. q \in Open /\ PlatformRequestOK(req[q])
    BY <1>2 DEF ChangeAdapter, Commit, Open, RequestsOK
  <2>2. adapter' \in AdapterRows \cup {None}
    BY <1>2, <2>1 DEF ChangeAdapter, Commit, PlatformRequestOK, AdapterRows, Assigned, SameAdapter
  <2>3. UNCHANGED <<accounts, order, deposits, records>>
    BY <1>2 DEF ChangeAdapter
  <2> QED BY <2>2, <2>3 DEF Exists
<1>3. CASE Cleanup(q)
  BY <1>3 DEF Cleanup, Exists
<1>4. CASE UpsertRetention(q)
  <2>1. q \in Open /\ req[q].kind = "retention" /\ PlatformRequestOK(req[q])
    BY <1>4 DEF UpsertRetention, Commit, Open, RequestsOK
  <2> QED BY <1>4, <2>1 DEF UpsertRetention, PlatformRequestOK, Assigned, Exists
<1> QED BY <1>1, <1>2, <1>3, <1>4

\* Every reachable state is well typed, and rows refer to rows that exist.
THEOREM TypeCorrect == Spec => []TypeOK
<1>1. Init => TypeOK
  <2> SUFFICES ASSUME Init PROVE TypeOK
    OBVIOUS
  <2> PICK admins \in (SUBSET Users) \ {{}} :
        /\ user = [u \in Users |-> IF u \in admins THEN UserRow(TRUE, None, Cost) ELSE None]
        /\ sessions = {SessionRow(u, u, None) : u \in admins}
    BY DEF Init
  <2>1. /\ UserRow(TRUE, None, Cost) \in UserRows
        /\ AdapterRow(None, TRUE, TRUE) \in AdapterRows
        /\ DefaultRetention \in RetentionRows
    BY AmountsAssumption DEF UserRow, UserRows, AdapterRow, AdapterRows, DefaultRetention,
                             RetentionRows
  <2>2. user \in [Users -> UserRows \cup {None}] /\ \A u \in admins : Exists(u)
    BY <2>1, IdsAssumption DEF Exists
  <2>3. \A s \in sessions : s \in [id : Users \cup Requests, user : Users,
                                   password : Requests \cup {None}] /\ s.user \in admins
    BY DEF SessionRow
  <2>4. RowsOK
    <3>1. /\ order = [o \in Orders |-> None] /\ deposits = {} /\ usages = {}
          /\ retention = DefaultRetention /\ adapter = AdapterRow(None, TRUE, TRUE)
          /\ ledger = [u \in Users |-> Cost]
      BY DEF Init
    <3>2. /\ order \in [Orders -> OrderRows \cup {None}] /\ \A o \in Orders : order[o] = None
          /\ ledger \in [Users -> Int] /\ deposits \cup usages = {}
      BY <3>1, AmountsAssumption
    <3> QED BY <2>1, <2>2, <2>3, <3>1, <3>2 DEF RowsOK
  <2>5. RequestsOK
    BY DEF Init, RequestsOK, NewRequest, Open
  <2> QED BY <2>4, <2>5 DEF TypeOK
<1>2. TypeOK /\ [Next]_vars => TypeOK'
  <2> SUFFICES ASSUME TypeOK, [Next]_vars PROVE TypeOK'
    OBVIOUS
  <2>1. CASE UNCHANGED vars
    BY <2>1 DEF TypeOK, RowsOK, RequestsOK, Exists, Open
  <2>2. ASSUME NEW q \in Requests, BeginRequest(q) PROVE TypeOK'
    <3>1. Began(q, req'[q]) /\ req'[q].step = "read"
      BY <2>2, RequestBegan, BeginFrame
    <3>2. RowsOK'
      BY <2>2, BeginFrame DEF TypeOK, RowsOK, Exists
    <3>3. AccountRequestOK(req'[q])
      BY <3>1 DEF Began, BeganAccount, BeganPlatform, AccountRequestOK, UserKinds, AccountKinds,
                  MoneyKinds, TypeOK, RowsOK, UserRows, Exists
    <3>4. PlatformRequestOK(req'[q])
      BY <3>1 DEF Began, BeganPlatform, PlatformRequestOK, TypeOK, RowsOK
    <3>5. RequestsOK'
      BY <2>2, <3>1, <3>3, <3>4, BeginFrame DEF TypeOK, RequestsOK, Began
    <3> QED BY <3>2, <3>5 DEF TypeOK
  <2>3. ASSUME NEW q \in Requests, FlushRequest(q) PROVE TypeOK'
    <3>1. RowsOK'
      BY <2>3, FlushFrame DEF TypeOK, RowsOK, Exists
    <3>2. AccountRequestOK(req'[q]) /\ PlatformRequestOK(req'[q])
      BY <2>3, FlushFrame DEF TypeOK, RequestsOK, AccountRequestOK, PlatformRequestOK
    <3>3. RequestsOK'
      BY <2>3, <3>2, FlushFrame DEF TypeOK, RequestsOK
    <3> QED BY <3>1, <3>3 DEF TypeOK
  <2>4. ASSUME NEW q \in Requests, CommitRequest(q) PROVE TypeOK'
    BY <2>4, CommitRequestsOK, CommitAccountsOK, CommitMoneyOK, CommitPlatformOK
    DEF CommitRequest, TypeOK
  <2>5. ASSUME NEW q \in Requests, Rollback(q) PROVE TypeOK'
    <3>1. RowsOK'
      BY <2>5, RollbackFrame DEF TypeOK, RowsOK, Exists
    <3>2. RequestsOK'
      <4>1. /\ NewRequest.step = "new" /\ NewRequest.order = None /\ NewRequest.session = None
            /\ NewRequest.drop = {}
        BY DEF NewRequest
      <4> QED BY <2>5, <4>1, RollbackFrame DEF TypeOK, RequestsOK
    <3> QED BY <3>1, <3>2 DEF TypeOK
  <2> QED BY <2>1, <2>2, <2>3, <2>4, <2>5, StepOfARequest
<1> QED BY <1>1, <1>2, PTL DEF Spec

-----------------------------------------------------------------------------
(* The inductive invariants.                                               *)

\* q overlapped a committed request of these kinds about the user u.
MetAbout(q, kinds, u) == \E p \in Requests : {p, q} \in overlaps /\ Committed(p, kinds, u)

OpenRequestsMeet == \A p, q \in Open : p # q => {p, q} \in overlaps

\* A user that a request is about is there, or has been deleted for good.
Deleted(u) == \E p \in Requests : Committed(p, {"delete"}, u)
UsersInv ==
  /\ \A u \in Users : Deleted(u) => ~Exists(u)
  /\ \A q \in Open : req[q].kind \in UserKinds => Exists(req[q].user) \/ Deleted(req[q].user)

\* A balance that a request has read stands.
BalanceRead(q) ==
  req[q].kind \in MoneyKinds /\ Exists(req[q].user) =>
    \/ user[req[q].user].balance = req[q].seen
    \/ MetAbout(q, MoneyKinds, req[q].user)
BalancesInv == \A q \in Open : BalanceRead(q)

\* A login has verified the password of an active user.
Revoking == {"password", "reset", "status"}
LoginRead(q) ==
  req[q].kind = "login" /\ Exists(req[q].user) =>
    \/ user[req[q].user].password = req[q].seen /\ user[req[q].user].status = "ACTIVE"
    \/ MetAbout(q, Revoking, req[q].user)

\* A request that revokes drops the sessions of the user, but for those of logins
\* that commit after its DELETE.
Drops(q) ==
  req[q].kind \in Revoking /\ req[q].step = "flushed" =>
    \A s \in sessions : s.user = req[q].user => s \in req[q].drop \/ {s.id, q} \in overlaps
SessionsInv ==
  /\ \A s \in sessions : s.id \in Users \/ (s.id \in Requests /\ req[s.id].step = "committed")
  /\ \A q \in Open : LoginRead(q) /\ Drops(q)

\* One request at a time creates an order, before any other reads it; a deposit
\* belongs to a paid order of its user; a callback for an order that is paid
\* meanwhile overlaps the one that was faster.
OrderRead(q) ==
  /\ req[q].kind = "order" => /\ order[req[q].order] = None
                              /\ \A p \in Open \ {q} :
                                   req[p].kind \in {"order", "callback"} => req[p].order # req[q].order
  /\ req[q].kind = "callback" =>
       /\ order[req[q].order] # None => order[req[q].order].user = req[q].user
       /\ \A d \in deposits : d.order = req[q].order => {d.by, q} \in overlaps
DepositsInv ==
  /\ \A d \in deposits : /\ order[d.order] # None /\ order[d.order].user = d.user
                         /\ order[d.order].status = "PAID"
                         /\ req[d.by].step = "committed"
  /\ \A q \in Open : OrderRead(q)

\* There is another active administrator, the caller, than the user that is deleted,
\* demoted or suspended.
Demoting == {"admin", "delete", "status"}
AdminRead(q) ==
  Endangers(req[q]) =>
    \/ \E a \in Users \ {req[q].user} : ActiveAdmin(a)
    \/ SuspendsItself(q)
    \/ Met(q, Demoting)
AdminsInv == \A q \in Open : AdminRead(q)

\* The adapter that a change has checked.
Settled(id) == id = None \/ req[id].step = "committed"
AdapterRead(q) ==
  /\ req[q].kind = "create" => req[q].arg.id = q /\ (req[q].arg.enabled => req[q].arg.complete)
  /\ req[q].kind \in {"order", "enable", "configure", "remove"} => Settled(req[q].seen.id)
  /\ req[q].kind = "enable" /\ req[q].arg /\ SameAdapter(q) =>
       adapter.complete \/ Met(q, {"configure"})
  /\ req[q].kind = "configure" /\ ~req[q].arg /\ SameAdapter(q) =>
       ~adapter.enabled \/ Met(q, {"enable"})
AdapterInv ==
  /\ adapter # None => Settled(adapter.id)
  /\ \A q \in Open : AdapterRead(q)

-----------------------------------------------------------------------------
(* Requests that overlap.                                                  *)

Step(q) == BeginRequest(q) \/ FlushRequest(q) \/ CommitRequest(q) \/ Rollback(q)

\* A commit is one of these; its request keeps its kind and its user.
LEMMA CommitKeeps ==
  ASSUME TypeOK, NEW q \in Requests, CommitRequest(q)
  PROVE  /\ overlaps' = overlaps /\ q \in Open /\ Open' = Open \ {q}
         /\ req'[q].step = "committed" /\ req'[q].kind = req[q].kind
         /\ req'[q].user = req[q].user
         /\ \A p \in Requests \ {q} : req'[p] = req[p]
<1> PICK kind, step : step \in {"read", "flushed"} /\ Commit(q, kind, step)
  BY CommitIs
<1> QED BY CommitFrame

\* A request that stays open keeps what it has read.
LEMMA OpenKeeps ==
  ASSUME TypeOK, NEW q \in Requests, Step(q), NEW o \in Open', ~(o = q /\ BeginRequest(q))
  PROVE  /\ o \in Open /\ o \in Requests
         /\ req'[o].kind = req[o].kind /\ req'[o].user = req[o].user
         /\ req'[o].order = req[o].order /\ req'[o].arg = req[o].arg
         /\ req'[o].seen = req[o].seen /\ req'[o].session = req[o].session
         /\ o # q => req'[o] = req[o]
<1>1. o \in Requests
  BY DEF Open
<1>2. CASE BeginRequest(q)
  BY <1>1, <1>2, BeginFrame
<1>3. CASE FlushRequest(q)
  BY <1>1, <1>3, FlushFrame
<1>4. CASE CommitRequest(q)
  BY <1>1, <1>4, CommitKeeps
<1>5. CASE Rollback(q)
  BY <1>1, <1>5, RollbackFrame
<1> QED BY <1>2, <1>3, <1>4, <1>5 DEF Step

\* Only a commit writes.
LEMMA Quiet ==
  ASSUME TypeOK, NEW q \in Requests, BeginRequest(q) \/ FlushRequest(q) \/ Rollback(q)
  PROVE  UNCHANGED <<accounts, payments, records>>
BY BeginFrame, FlushFrame, RollbackFrame

\* A committed request never moves again.
LEMMA CommittedStays ==
  ASSUME TypeOK, NEW q \in Requests, Step(q), NEW p \in Requests, req[p].step = "committed"
  PROVE  req'[p] = req[p] /\ p # q
<1>1. p \notin Open /\ req[p].step # "new"
  BY DEF Open
<1> QED BY <1>1, BeginFrame, FlushFrame, CommitKeeps, RollbackFrame DEF Step

\* An overlap with a committed request is remembered, by a request that does not
\* roll back.
LEMMA OverlapStays ==
  ASSUME TypeOK, NEW q \in Requests, Step(q), NEW p, NEW o, {p, o} \in overlaps,
         p # q \/ ~Rollback(q), o # q \/ ~Rollback(q)
  PROVE  {p, o} \in overlaps'
BY BeginFrame, FlushFrame, CommitKeeps, RollbackFrame DEF Step

\* What an open request has overlapped with a commit of, it keeps having overlapped.
LEMMA MetStays ==
  ASSUME TypeOK, NEW q \in Requests, Step(q), NEW o \in Open', NEW kinds
  PROVE  /\ Met(o, kinds) => Met(o, kinds)'
         /\ \A u : MetAbout(o, kinds, u) => MetAbout(o, kinds, u)'
<1>1. o # q \/ ~Rollback(q)
  BY RollbackFrame
<1>2. ASSUME NEW p \in Requests, {p, o} \in overlaps, req[p].step = "committed"
      PROVE  {p, o} \in overlaps' /\ req'[p] = req[p]
  BY <1>1, <1>2, CommittedStays, OverlapStays
<1>3. Met(o, kinds) => Met(o, kinds)'
  BY <1>2 DEF Met
<1>4. ASSUME NEW u, MetAbout(o, kinds, u) PROVE MetAbout(o, kinds, u)'
  BY <1>2, <1>4 DEF MetAbout, Committed
<1> QED BY <1>3, <1>4

\* A commit counts as met by every request that is still open.
LEMMA MetMore ==
  ASSUME TypeOK, OpenRequestsMeet, NEW q \in Requests, CommitRequest(q), NEW o \in Open',
         NEW kinds, req[q].kind \in kinds, NEW u, req[q].user = u
  PROVE  /\ {q, o} \in overlaps' /\ {o, q} \in overlaps'
         /\ Met(o, kinds)' /\ MetAbout(o, kinds, u)'
<1>1. o \in Open /\ q \in Open /\ o # q /\ overlaps' = overlaps
  BY CommitKeeps
<1>2. {q, o} \in overlaps' /\ {o, q} \in overlaps'
  BY <1>1 DEF OpenRequestsMeet
<1>3. Committed(q, kinds, u)'
  BY CommitKeeps DEF Committed
<1> QED BY <1>2, <1>3, CommitKeeps DEF Met, MetAbout, Committed

\* Two requests that are open together have overlapped: no step breaks that.
LEMMA OpenRequestsMeetStep ==
  ASSUME TypeOK, OpenRequestsMeet, NEW q \in Requests, Step(q)
  PROVE  OpenRequestsMeet'
<1> SUFFICES ASSUME NEW p \in Open', NEW o \in Open', p # o
             PROVE  {p, o} \in overlaps'
  BY DEF OpenRequestsMeet
<1>1. CASE BeginRequest(q)
  BY <1>1, BeginFrame DEF OpenRequestsMeet
<1>2. CASE ~BeginRequest(q)
  <2>1. p \in Open /\ o \in Open
    BY <1>2, OpenKeeps
  <2>2. {p, o} \in overlaps
    BY <2>1 DEF OpenRequestsMeet
  <2>3. p # q \/ ~Rollback(q)
    BY RollbackFrame
  <2>4. o # q \/ ~Rollback(q)
    BY RollbackFrame
  <2> QED BY <2>2, <2>3, <2>4, OverlapStays
<1> QED BY <1>1, <1>2

-----------------------------------------------------------------------------
(* What commits write to users.                                            *)

\* A column of a user changes by a request of the kinds that write it, about the
\* user; a user is new by a registration, and gone by a deletion.
UserKept(q, v) ==
  /\ Exists(v)
  /\ \/ user'[v].balance = user[v].balance /\ ledger'[v] = ledger[v]
     \/ req[q].kind \in MoneyKinds /\ v = req[q].user
  /\ user'[v].password = user[v].password \/ (req[q].kind \in {"password", "reset"} /\ v = req[q].user)
  /\ user'[v].status = user[v].status \/ (req[q].kind = "status" /\ v = req[q].user)
  /\ user'[v].admin = user[v].admin \/ (req[q].kind = "admin" /\ v = req[q].user)
UserNew(q, v) ==
  /\ req[q].kind = "register" /\ v = req[q].user /\ Fresh(v)
  /\ user'[v] = UserRow(FALSE, q, 0) /\ ledger'[v] = 0

\* A commit that moves money touches one user's balance, and no session.
LEMMA CommitMoney ==
  ASSUME TypeOK, NEW q \in Requests,
         UpdateBalance(q) \/ AddBalance(q) \/ MarkOrderPaid(q) \/ CreateUsage(q)
  PROVE  /\ req[q].kind \in MoneyKinds /\ req[q].user \in Users /\ Exists(req[q].user)
         /\ sessions' = sessions
         /\ \A v \in Users : user'[v] # None => UserKept(q, v)
         /\ \A v \in Users : Exists(v) => user'[v] # None
<1>1. req[q].kind \in MoneyKinds /\ req[q].user \in Users
  BY MoneyIs
<1>2. PICK value \in Int, meant \in Int : SetBalance(req[q].user, value, meant)
  BY MoneyIs
<1> QED BY <1>1, <1>2, BalanceOK DEF UserKept, Exists

\* A commit keeps every user row, writes one of a new user, or deletes its own user.
LEMMA CommitUsers ==
  ASSUME TypeOK, NEW q \in Requests, CommitRequest(q)
  PROVE  /\ \A v \in Users : user'[v] # None => UserKept(q, v) \/ UserNew(q, v)
         /\ \A v \in Users : Exists(v) =>
              user'[v] # None \/ (req[q].kind = "delete" /\ v = req[q].user)
<1> USE DEF Exists
<1>1. CASE UpdateBalance(q) \/ AddBalance(q) \/ MarkOrderPaid(q) \/ CreateUsage(q)
  BY <1>1, CommitMoney
<1>2. CASE Register(q)
  <2> DEFINE u == req[q].user
  <2>1. /\ req[q].kind = "register" /\ q \in Open /\ u \in Users /\ Fresh(u)
        /\ user' = [user EXCEPT ![u] = UserRow(FALSE, q, 0)] /\ ledger' = [ledger EXCEPT ![u] = 0]
    BY <1>2 DEF Register, Commit, TypeOK, RequestsOK, Open, AccountRequestOK, AccountKinds
  <2>2. user \in [Users -> UserRows \cup {None}] /\ ledger \in [Users -> Int]
    BY DEF TypeOK, RowsOK
  <2>3. UserNew(q, u)
    BY <2>1, <2>2 DEF UserNew
  <2>4. \A v \in Users \ {u} : user'[v] = user[v] /\ ledger'[v] = ledger[v]
    BY <2>1, <2>2
  <2>5. ~Exists(u)
    BY <2>1 DEF Fresh
  <2> QED BY <2>3, <2>4, <2>5 DEF UserKept
<1>3. CASE SetPassword(q) \/ UpdateStatus(q) \/ UpdateAdmin(q)
  <2> DEFINE u == req[q].user
  <2>1. /\ req[q].kind \in {"password", "reset", "status", "admin"} /\ q \in Open
        /\ u \in Users /\ Exists(u) /\ ledger' = ledger
    BY <1>3 DEF SetPassword, UpdateStatus, UpdateAdmin, Commit, TypeOK, RequestsOK, Open,
                AccountRequestOK, AccountKinds
  <2>2. user[u] \in UserRows /\ user \in [Users -> UserRows \cup {None}]
    BY <2>1 DEF TypeOK, RowsOK
  <2>3. \A v \in Users \ {u} : user'[v] = user[v]
    BY <1>3, <2>2 DEF SetPassword, UpdateStatus, UpdateAdmin
  <2>4. user'[u] \in UserRows
    BY <1>3, <2>1, <2>2 DEF SetPassword, UpdateStatus, UpdateAdmin, UserRows, Assigned,
       TypeOK, RequestsOK, AccountRequestOK, Commit
  <2>5. /\ user'[u].balance = user[u].balance
        /\ user'[u].password = user[u].password \/ req[q].kind \in {"password", "reset"}
        /\ user'[u].status = user[u].status \/ req[q].kind = "status"
        /\ user'[u].admin = user[u].admin \/ req[q].kind = "admin"
    BY <1>3, <2>1, <2>2 DEF SetPassword, UpdateStatus, UpdateAdmin, UserRows, Commit
  <2>6. user'[u] # None
    BY <2>4, IdsAssumption
  <2> QED BY <2>1, <2>2, <2>3, <2>5, <2>6 DEF UserKept
<1>4. CASE DeleteUser(q)
  BY <1>4 DEF DeleteUser, Commit, UserKept, TypeOK, RowsOK
<1>5. CASE Login(q) \/ Logout(q) \/ CreateOrder(q) \/ ChangeAdapter(q) \/ Cleanup(q) \/ UpsertRetention(q)
  <2>1. user' = user /\ ledger' = ledger
    BY <1>5 DEF Login, Logout, CreateOrder, ChangeAdapter, Cleanup, UpsertRetention
  <2> QED BY <2>1 DEF UserKept
<1> QED BY <1>1, <1>2, <1>3, <1>4, <1>5 DEF CommitRequest

\* Every step keeps what open requests rely on about user rows.
LEMMA UsersInvStep ==
  ASSUME TypeOK, UsersInv, NEW q \in Requests, Step(q)
  PROVE  UsersInv'
<1>1. ASSUME NEW u \in Users, Deleted(u) PROVE Deleted(u)'
  BY <1>1, CommittedStays DEF Deleted, Committed
<1>2. ASSUME NEW u \in Users, Deleted(u)', Exists(u)' PROVE FALSE
  <2>1. PICK p \in Requests : Committed(p, {"delete"}, u)'
    BY <1>2 DEF Deleted
  <2>2. CASE ~CommitRequest(q)
    <3>1. user' = user
      BY <2>2, Quiet DEF Step
    <3>2. ~Deleted(u)
      BY <3>1, <1>2 DEF UsersInv, Exists
    <3>3. req[p].step # "committed"
      BY <3>2, <2>1, CommittedStays DEF Deleted, Committed
    <3> QED BY <2>1, <2>2, <3>3, BeginFrame, FlushFrame, RollbackFrame DEF Step, Committed, NewRequest
  <2>3. CASE CommitRequest(q)
    <3>1. CASE p = q
      <4>1. DeleteUser(q) /\ req[q].user = u
        BY <2>1, <2>3, <3>1, CommitKeeps
        DEF CommitRequest, Committed, Register, Login, Logout, SetPassword, UpdateStatus, UpdateAdmin,
            UpdateBalance, AddBalance, CreateOrder, MarkOrderPaid, ChangeAdapter,
            CreateUsage, Cleanup, UpsertRetention, Commit
      <4> QED BY <4>1, <1>2 DEF DeleteUser, Exists, TypeOK, RowsOK
    <3>2. CASE p # q
      <4>1. Deleted(u)
        BY <2>1, <2>3, <3>2, CommitKeeps DEF Deleted, Committed
      <4>2. ~Exists(u) /\ ~Fresh(u)
        BY <4>1 DEF UsersInv, Deleted, Committed, Fresh
      <4> QED BY <4>2, <1>2, <2>3, CommitUsers DEF UserKept, UserNew, Exists
    <3> QED BY <3>1, <3>2
  <2> QED BY <2>2, <2>3
<1>3. ASSUME NEW o \in Open', req'[o].kind \in UserKinds, NEW u, u = req'[o].user
      PROVE  Exists(u)' \/ Deleted(u)'
  <2>1. CASE o = q /\ BeginRequest(q)
    BY <1>3, <2>1, RequestBegan, BeginFrame DEF Began, BeganAccount, Exists
  <2>2. CASE ~(o = q /\ BeginRequest(q))
    <3>1. u \in Users /\ (Exists(u) \/ Deleted(u))
      BY <1>3, <2>2, OpenKeeps DEF UsersInv, TypeOK, RequestsOK, AccountRequestOK, UserKinds
    <3>2. CASE Exists(u) /\ ~CommitRequest(q)
      BY <3>2, Quiet DEF Step, Exists
    <3>3. CASE Exists(u) /\ CommitRequest(q)
      <4>1. CASE req[q].kind = "delete" /\ u = req[q].user
        BY <3>3, <4>1, CommitKeeps DEF Deleted, Committed
      <4>2. CASE ~(req[q].kind = "delete" /\ u = req[q].user)
        BY <3>1, <3>3, <4>2, CommitUsers DEF Exists
      <4> QED BY <4>1, <4>2
    <3> QED BY <3>1, <3>2, <3>3, <1>1
  <2> QED BY <2>1, <2>2
<1> QED BY <1>2, <1>3 DEF UsersInv

\* A user that registers is not one that an open request is about.
LEMMA NewUserIsUnknown ==
  ASSUME TypeOK, UsersInv, NEW q \in Requests, NEW v \in Users, UserNew(q, v), NEW o \in Open,
         req[o].kind \in UserKinds
  PROVE  req[o].user # v
BY DEF UserNew, Fresh, UsersInv, Deleted, Committed

-----------------------------------------------------------------------------
(* Balances.                                                               *)

\* Every step keeps what open requests rely on about balances.
LEMMA BalancesInvStep ==
  ASSUME TypeOK, OpenRequestsMeet, UsersInv, BalancesInv, NEW q \in Requests, Step(q)
  PROVE  BalancesInv'
<1> SUFFICES ASSUME NEW o \in Open', req'[o].kind \in MoneyKinds, NEW u, u = req'[o].user,
                    user'[u] # None
             PROVE  user'[u].balance = req'[o].seen \/ MetAbout(o, MoneyKinds, u)'
  BY DEF BalancesInv, BalanceRead, Exists
<1>1. CASE o = q /\ BeginRequest(q)
  BY <1>1, RequestBegan, BeginFrame DEF Began, BeganAccount
<1>2. CASE ~(o = q /\ BeginRequest(q))
  <2>1. /\ o \in Open /\ o \in Requests /\ req[o].kind \in MoneyKinds /\ u = req[o].user
        /\ u \in Users /\ req'[o].seen = req[o].seen /\ req[o].kind \in UserKinds
    BY <1>2, OpenKeeps DEF TypeOK, RequestsOK, AccountRequestOK, UserKinds
  <2>2. Exists(u) => user[u].balance = req[o].seen \/ MetAbout(o, MoneyKinds, u)
    BY <2>1 DEF BalancesInv, BalanceRead
  <2>3. MetAbout(o, MoneyKinds, u) => MetAbout(o, MoneyKinds, u)'
    BY MetStays
  <2>4. CASE ~CommitRequest(q)
    BY <2>1, <2>2, <2>3, <2>4, Quiet DEF Step, Exists
  <2>5. CASE CommitRequest(q)
    <3>1. UserKept(q, u)
      BY <2>1, <2>5, CommitUsers, NewUserIsUnknown
    <3>2. CASE user'[u].balance = user[u].balance
      BY <2>1, <2>2, <2>3, <3>1, <3>2 DEF UserKept
    <3>3. CASE req[q].kind \in MoneyKinds /\ u = req[q].user
      BY <2>5, <3>3, MetMore
    <3> QED BY <3>1, <3>2, <3>3 DEF UserKept
  <2> QED BY <2>4, <2>5
<1> QED BY <1>1, <1>2

\* A request that writes the balance it has read, changed by its amount, moves the
\* ledger along.
LEMMA CommitMovesLedger ==
  ASSUME TypeOK, NEW q \in Requests, CommitRequest(q), req[q].kind \in MoneyKinds,
         NEW u, u = req[q].user, user[u].balance = req[q].seen, user[u].balance = ledger[u]
  PROVE  user'[u].balance = ledger'[u]
<1>1. UpdateBalance(q) \/ AddBalance(q) \/ MarkOrderPaid(q) \/ CreateUsage(q)
  BY DEF CommitRequest, Register, Login, Logout, SetPassword, UpdateStatus, UpdateAdmin,
         DeleteUser, CreateOrder, ChangeAdapter, Cleanup, UpsertRetention, Commit, MoneyKinds
<1>2. /\ u \in Users /\ req[q].seen \in Int
      /\ req[q].kind # "callback" => req[q].arg \in Int
      /\ \E value, meant \in Int : SetBalance(u, value, meant)
  BY <1>1, MoneyIs
<1>3. ledger[u] \in Int /\ user[u] \in UserRows /\ user \in [Users -> UserRows \cup {None}]
      /\ ledger \in [Users -> Int]
  <2>1. Exists(u)
    BY <1>2 DEF SetBalance
  <2> QED BY <1>2, <2>1 DEF TypeOK, RowsOK, Exists
<1>4. ASSUME NEW value, SetBalance(u, value, value) PROVE user'[u].balance = ledger'[u]
  BY <1>2, <1>3, <1>4 DEF SetBalance, UserRows
<1>5. CASE UpdateBalance(q)
  BY <1>4, <1>5 DEF UpdateBalance, Assigned
<1>6. CASE AddBalance(q)
  BY <1>4, <1>6 DEF AddBalance
<1>7. CASE MarkOrderPaid(q)
  BY <1>4, <1>7 DEF MarkOrderPaid
<1>8. CASE CreateUsage(q)
  <2>1. SetBalance(u, Assigned(req[q].seen, req[q].seen - req[q].arg, user[u].balance),
                   ledger[u] - req[q].arg)
    BY <1>8 DEF CreateUsage
  <2>2. Assigned(req[q].seen, req[q].seen - req[q].arg, user[u].balance) = ledger[u] - req[q].arg
    BY DEF Assigned
  <2> QED BY <1>4, <2>1, <2>2
<1> QED BY <1>1, <1>5, <1>6, <1>7, <1>8

\* Every step keeps balances equal to their ledgers where no overlap excuses it.
LEMMA BalanceStep ==
  ASSUME TypeOK, TypeOK', UsersInv, BalancesInv, BalanceFollowsLedger, NEW q \in Requests, Step(q)
  PROVE  BalanceFollowsLedger'
<1> SUFFICES ASSUME NEW u \in Users, user'[u] # None, ~Overlapped(MoneyKinds, u)'
             PROVE  user'[u].balance = ledger'[u]
  BY DEF BalanceFollowsLedger, MoneyKinds, Exists
<1>1. ~Overlapped(MoneyKinds, u)
  <2>1. SUFFICES ASSUME Overlapped(MoneyKinds, u) PROVE FALSE
    OBVIOUS
  <2> PICK p \in Requests, o \in Requests :
        /\ {p, o} \in overlaps /\ Committed(p, MoneyKinds, u) /\ Committed(o, MoneyKinds, u)
    BY <2>1 DEF Overlapped
  <2>2. req'[p] = req[p] /\ p # q /\ req'[o] = req[o] /\ o # q
    BY CommittedStays DEF Committed
  <2>3. {p, o} \in overlaps'
    BY <2>2, OverlapStays
  <2> QED BY <2>2, <2>3 DEF Overlapped, Committed
<1>2. Exists(u) => user[u].balance = ledger[u]
  BY <1>1 DEF BalanceFollowsLedger, MoneyKinds
<1>3. CASE ~CommitRequest(q)
  BY <1>2, <1>3, Quiet DEF Step, Exists
<1>4. CASE CommitRequest(q)
  <2>1. CASE UserNew(q, u)
    BY <2>1 DEF UserNew, UserRow
  <2>2. CASE UserKept(q, u) /\ ~(req[q].kind \in MoneyKinds /\ u = req[q].user)
    BY <1>2, <2>2 DEF UserKept
  <2>3. CASE UserKept(q, u) /\ req[q].kind \in MoneyKinds /\ u = req[q].user
    <3>1. q \in Open /\ req'[q].step = "committed" /\ overlaps' = overlaps
          /\ req'[q].kind = req[q].kind /\ req'[q].user = req[q].user
      BY <1>4, CommitKeeps
    <3>2. ~MetAbout(q, MoneyKinds, u)
      <4>1. SUFFICES ASSUME NEW p \in Requests, {p, q} \in overlaps, Committed(p, MoneyKinds, u)
                     PROVE  FALSE
        BY DEF MetAbout
      <4>2. req'[p] = req[p]
        BY <4>1, CommittedStays DEF Committed
      <4> QED BY <2>3, <3>1, <4>1, <4>2 DEF Overlapped, Committed
    <3>3. user[u].balance = req[q].seen
      BY <2>3, <3>1, <3>2 DEF BalancesInv, BalanceRead, UserKept
    <3> QED BY <1>2, <1>4, <2>3, <3>3, CommitMovesLedger DEF UserKept
  <2> QED BY <1>4, <2>1, <2>2, <2>3, CommitUsers
<1> QED BY <1>3, <1>4

\* The balance of a user is what was credited, set and charged, unless two requests
\* that write it ran at the same time (BalanceFollowsLedger).
THEOREM BalancesFollowLedgers == Spec => []BalanceFollowsLedger
<1> DEFINE Inv == OpenRequestsMeet /\ UsersInv /\ BalancesInv /\ BalanceFollowsLedger
<1>1. TypeOK /\ Init => Inv
  <2> SUFFICES ASSUME TypeOK, Init PROVE Inv
    OBVIOUS
  <2>1. Open = {} /\ \A q \in Requests : req[q].step = "new"
    BY DEF Init, Open, NewRequest
  <2>2. \A u \in Users : Exists(u) => user[u].balance = ledger[u]
    BY DEF Init, Exists, UserRow
  <2> QED
    BY <2>1, <2>2 DEF OpenRequestsMeet, UsersInv, BalancesInv, BalanceFollowsLedger, Deleted,
                      Committed
<1>2. TypeOK /\ TypeOK' /\ Inv /\ [Next]_vars => Inv'
  <2> SUFFICES ASSUME TypeOK, TypeOK', Inv, [Next]_vars PROVE Inv'
    OBVIOUS
  <2>1. CASE Next
    <3> PICK q \in Requests : Step(q)
      BY <2>1, StepOfARequest DEF Step
    <3> QED BY OpenRequestsMeetStep, UsersInvStep, BalancesInvStep, BalanceStep
  <2>2. CASE UNCHANGED vars
    <3> USE <2>2 DEF Open, Exists, Committed
    <3>1. OpenRequestsMeet'
      BY DEF OpenRequestsMeet
    <3>2. UsersInv'
      BY DEF UsersInv, Deleted
    <3>3. BalancesInv'
      BY DEF BalancesInv, BalanceRead, MetAbout
    <3>4. BalanceFollowsLedger'
      BY DEF BalanceFollowsLedger, Overlapped
    <3> QED BY <3>1, <3>2, <3>3, <3>4
  <2> QED BY <2>1, <2>2
<1>3. Inv => BalanceFollowsLedger
  OBVIOUS
<1> QED BY <1>1, <1>2, <1>3, TypeCorrect, PTL DEF Spec

-----------------------------------------------------------------------------
(* Sessions.                                                               *)

\* Sessions come by registrations and logins, and go with what a DELETE dropped.
LEMMA CommitSessions ==
  ASSUME TypeOK, NEW q \in Requests, CommitRequest(q), NEW s \in sessions'
  PROVE  \/ /\ s \in sessions
            /\ req[q].kind \in Revoking /\ req[q].step = "flushed" => s \notin req[q].drop
         \/ /\ req[q].kind = "register" /\ s = SessionRow(q, req[q].user, q)
            /\ UserNew(q, req[q].user)
         \/ /\ req[q].kind = "login" /\ s = SessionRow(q, req[q].user, req[q].seen)
            /\ Exists(req[q].user) /\ user' = user
<1>1. CASE Register(q)
  <2>1. /\ req[q].kind = "register" /\ q \in Open /\ Fresh(req[q].user)
        /\ user' = [user EXCEPT ![req[q].user] = UserRow(FALSE, q, 0)]
        /\ ledger' = [ledger EXCEPT ![req[q].user] = 0]
        /\ sessions' = sessions \cup {SessionRow(q, req[q].user, q)}
    BY <1>1 DEF Register, Commit, Open
  <2>2. req[q].user \in Users /\ DOMAIN user = Users /\ DOMAIN ledger = Users
    BY <2>1 DEF TypeOK, RequestsOK, AccountRequestOK, AccountKinds, RowsOK
  <2> QED BY <2>1, <2>2 DEF UserNew, Revoking
<1>2. CASE Login(q)
  BY <1>2 DEF Login, Commit, Revoking
<1>3. CASE SetPassword(q) \/ UpdateStatus(q)
  BY <1>3 DEF SetPassword, UpdateStatus
<1>4. CASE Logout(q) \/ DeleteUser(q)
  BY <1>4 DEF Logout, DeleteUser, Commit, Revoking
<1>5. CASE UpdateBalance(q) \/ AddBalance(q) \/ MarkOrderPaid(q) \/ CreateUsage(q)
  BY <1>5, CommitMoney DEF MoneyKinds, Revoking
<1>6. CASE UpdateAdmin(q) \/ CreateOrder(q) \/ ChangeAdapter(q) \/ Cleanup(q) \/ UpsertRetention(q)
  <2>1. sessions' = sessions /\ req[q].kind \notin Revoking
    BY <1>6 DEF UpdateAdmin, CreateOrder, ChangeAdapter, Cleanup, UpsertRetention, Commit, Revoking
  <2> QED BY <2>1
<1> QED BY <1>1, <1>2, <1>3, <1>4, <1>5, <1>6 DEF CommitRequest

\* What a session has overlapped is remembered: its request has committed.
LEMMA SessionOverlapStays ==
  ASSUME TypeOK, SessionsInv, NEW q \in Requests, Step(q), NEW s \in sessions, NEW o,
         {s.id, o} \in overlaps, o # q \/ ~Rollback(q)
  PROVE  {s.id, o} \in overlaps'
<1>1. s.id # q \/ ~Rollback(q)
  BY IdsAssumption, CommittedStays DEF SessionsInv
<1> QED BY <1>1, OverlapStays

\* A login that has read its user still has to meet a revocation before its token goes stale.
LEMMA LoginReadStep ==
  ASSUME TypeOK, OpenRequestsMeet, UsersInv, SessionsInv, NEW q \in Requests, Step(q),
         NEW o \in Open'
  PROVE  LoginRead(o)'
<1> SUFFICES ASSUME req'[o].kind = "login", NEW u, u = req'[o].user, user'[u] # None
             PROVE  \/ user'[u].password = req'[o].seen /\ user'[u].status = "ACTIVE"
                    \/ MetAbout(o, Revoking, u)'
  BY DEF LoginRead, Exists
<1>1. CASE o = q /\ BeginRequest(q)
  BY <1>1, RequestBegan, BeginFrame DEF Began, BeganAccount
<1>2. CASE ~(o = q /\ BeginRequest(q))
  <2>1. /\ o \in Open /\ o \in Requests /\ req[o].kind = "login" /\ u = req[o].user
        /\ u \in Users /\ req'[o].seen = req[o].seen /\ req[o].kind \in UserKinds
    BY <1>2, OpenKeeps DEF TypeOK, RequestsOK, AccountRequestOK, UserKinds, AccountKinds
  <2>2. Exists(u) => \/ user[u].password = req[o].seen /\ user[u].status = "ACTIVE"
                     \/ MetAbout(o, Revoking, u)
    BY <2>1 DEF SessionsInv, LoginRead
  <2>3. MetAbout(o, Revoking, u) => MetAbout(o, Revoking, u)'
    BY MetStays
  <2>4. CASE ~CommitRequest(q)
    BY <2>1, <2>2, <2>3, <2>4, Quiet DEF Step, Exists
  <2>5. CASE CommitRequest(q)
    <3>1. UserKept(q, u)
      BY <2>1, <2>5, CommitUsers, NewUserIsUnknown
    <3>2. CASE user'[u].password = user[u].password /\ user'[u].status = user[u].status
      BY <2>1, <2>2, <2>3, <3>1, <3>2 DEF UserKept
    <3>3. CASE req[q].kind \in Revoking /\ u = req[q].user
      BY <2>5, <3>3, MetMore
    <3> QED BY <3>1, <3>2, <3>3 DEF UserKept, Revoking
  <2> QED BY <2>4, <2>5
<1> QED BY <1>1, <1>2

\* A request that revokes drops the sessions of its user, but those of logins that met it.
LEMMA DropsStep ==
  ASSUME TypeOK, OpenRequestsMeet, SessionsInv, NEW q \in Requests, Step(q), NEW o \in Open'
  PROVE  Drops(o)'
<1> SUFFICES ASSUME req'[o].kind \in Revoking, req'[o].step = "flushed",
                    NEW s \in sessions', s.user = req'[o].user
             PROVE  s \in req'[o].drop \/ {s.id, o} \in overlaps'
  BY DEF Drops
<1>1. CASE o = q /\ BeginRequest(q)
  BY <1>1, BeginFrame
<1>2. CASE o = q /\ ~BeginRequest(q)
  <2>1. FlushRequest(q)
    BY <1>2, CommitKeeps, RollbackFrame DEF Step
  <2>2. RevokeUserSessions(q)
    BY <1>2, <2>1, FlushFrame DEF FlushRequest, EnforceRetention, Revoking
  <2>3. /\ req'[q].drop = {t \in sessions : t.user = req[q].user} /\ sessions' = sessions
        /\ req'[q].user = req[q].user
    <3>1. req'[q].drop = {t \in sessions : t.user = req[q].user}
      BY <2>2 DEF RevokeUserSessions, Flush, TypeOK, RequestsOK, NewRequest
    <3> QED BY <3>1, <2>1, FlushFrame
  <2> QED BY <1>2, <2>3
<1>3. CASE o # q
  <2>1. o \in Open /\ o \in Requests /\ req'[o] = req[o]
    BY <1>3, OpenKeeps
  <2>2. ASSUME s \in sessions PROVE s \in req'[o].drop \/ {s.id, o} \in overlaps'
    BY <1>3, <2>1, <2>2, SessionOverlapStays DEF SessionsInv, Drops
  <2>3. ASSUME s \notin sessions PROVE {s.id, o} \in overlaps'
    <3>1. CommitRequest(q)
      BY <2>3, Quiet DEF Step
    <3>2. s.id = q
      BY <2>3, <3>1, CommitSessions DEF SessionRow
    <3>3. req[q].kind \in {req[q].kind}
      OBVIOUS
    <3> QED BY <3>1, <3>2, <3>3, MetMore
  <2> QED BY <2>2, <2>3
<1> QED BY <1>1, <1>2, <1>3

\* Every step keeps what open requests rely on about sessions.
LEMMA SessionsInvStep ==
  ASSUME TypeOK, OpenRequestsMeet, UsersInv, SessionsInv, NEW q \in Requests, Step(q)
  PROVE  SessionsInv'
<1>1. ASSUME NEW s \in sessions'
      PROVE  s.id \in Users \/ (s.id \in Requests /\ req'[s.id].step = "committed")
  <2>1. CASE s \in sessions
    BY <2>1, CommittedStays DEF SessionsInv
  <2>2. CASE s \notin sessions
    <3>1. CommitRequest(q)
      BY <2>2, Quiet DEF Step
    <3>2. s.id = q
      BY <2>2, <3>1, CommitSessions DEF SessionRow
    <3> QED BY <3>1, <3>2, CommitKeeps
  <2> QED BY <2>1, <2>2
<1> QED BY <1>1, LoginReadStep, DropsStep DEF SessionsInv

\* A commit that suspends a user or sets a password has run its DELETE.
LEMMA RevokingFlushed ==
  ASSUME TypeOK, NEW q \in Requests, CommitRequest(q), req[q].kind \in Revoking,
         NEW u, u = req[q].user
  PROVE  \/ req[q].step = "flushed"
         \/ user'[u].password = user[u].password /\ user'[u].status \in {user[u].status, "ACTIVE"}
<1>1. SetPassword(q) \/ UpdateStatus(q)
  BY DEF CommitRequest, Register, Login, Logout, UpdateAdmin, UpdateBalance, DeleteUser, AddBalance,
         CreateOrder, MarkOrderPaid, ChangeAdapter, CreateUsage, Cleanup, UpsertRetention,
         Commit, Revoking
<1>2. CASE SetPassword(q)
  BY <1>2 DEF SetPassword, Commit
<1>3. CASE UpdateStatus(q)
  <2>1. u \in Users /\ Exists(u) /\ user \in [Users -> UserRows \cup {None}]
    BY <1>3 DEF UpdateStatus, Commit, TypeOK, RequestsOK, AccountRequestOK, AccountKinds, Open, RowsOK
  <2> QED BY <1>3, <2>1 DEF UpdateStatus, Commit, UserRows, Exists, Assigned
<1> QED BY <1>1, <1>2, <1>3

\* Every step keeps revoked sessions gone where no overlap excuses it.
LEMMA RevokedStep ==
  ASSUME TypeOK, TypeOK', OpenRequestsMeet, UsersInv, SessionsInv, RevokedSessionsEnd,
         NEW q \in Requests, Step(q)
  PROVE  RevokedSessionsEnd'
<1> SUFFICES ASSUME NEW s \in sessions', NEW u, u = s.user
             PROVE  \/ user'[u].password = s.password /\ user'[u].status = "ACTIVE"
                    \/ \E r \in Requests : {s.id, r} \in overlaps' /\ Committed(r, Revoking, u)'
  BY DEF RevokedSessionsEnd, Revoking
<1>1. u \in Users /\ user'[u] # None
  BY DEF TypeOK, RowsOK, Exists
<1>2. CASE s \in sessions
  <2>1. Exists(u)
    BY <1>2 DEF TypeOK, RowsOK
  <2>2. CASE \E r \in Requests : {s.id, r} \in overlaps /\ Committed(r, Revoking, u)
    <3>1. PICK r \in Requests : {s.id, r} \in overlaps /\ Committed(r, Revoking, u)
      BY <2>2
    <3>2. req'[r] = req[r] /\ r # q
      BY <3>1, CommittedStays DEF Committed
    <3>3. {s.id, r} \in overlaps'
      BY <1>2, <3>1, <3>2, SessionOverlapStays
    <3> QED BY <3>1, <3>2, <3>3 DEF Committed
  <2>3. CASE user[u].password = s.password /\ user[u].status = "ACTIVE"
    <3>1. CASE ~CommitRequest(q)
      BY <2>3, <3>1, Quiet DEF Step
    <3>2. CASE CommitRequest(q) /\ ~(req[q].kind \in Revoking /\ u = req[q].user)
      BY <1>1, <2>1, <2>3, <3>2, CommitUsers DEF UserKept, UserNew, Fresh, Revoking
    <3>3. CASE CommitRequest(q) /\ req[q].kind \in Revoking /\ u = req[q].user /\ req[q].step = "flushed"
      <4>1. s \notin req[q].drop
        BY <1>2, <3>3, CommitSessions DEF Revoking
      <4>2. q \in Open /\ overlaps' = overlaps /\ Committed(q, Revoking, u)'
        BY <3>3, CommitKeeps DEF Committed
      <4>3. {s.id, q} \in overlaps'
        BY <1>2, <3>3, <4>1, <4>2 DEF SessionsInv, Drops
      <4> QED BY <4>2, <4>3
    <3>4. CASE CommitRequest(q) /\ req[q].kind \in Revoking /\ u = req[q].user /\ req[q].step # "flushed"
      BY <2>3, <3>4, RevokingFlushed
    <3> QED BY <3>1, <3>2, <3>3, <3>4
  <2> QED BY <1>2, <2>2, <2>3 DEF RevokedSessionsEnd, Revoking
<1>3. CASE s \notin sessions
  <2>1. CommitRequest(q)
    BY <1>3, Quiet DEF Step
  <2>2. CASE req[q].kind = "register" /\ s = SessionRow(q, req[q].user, q) /\ UserNew(q, req[q].user)
    BY <2>2 DEF SessionRow, UserNew, UserRow
  <2>3. CASE /\ req[q].kind = "login" /\ s = SessionRow(q, req[q].user, req[q].seen)
             /\ Exists(req[q].user) /\ user' = user
    <3>1. q \in Open /\ overlaps' = overlaps /\ LoginRead(q)
      BY <2>1, CommitKeeps DEF SessionsInv
    <3>2. CASE user[u].password = req[q].seen /\ user[u].status = "ACTIVE"
      BY <2>3, <3>2 DEF SessionRow
    <3>3. CASE MetAbout(q, Revoking, u)
      <4>1. PICK p \in Requests : {p, q} \in overlaps /\ Committed(p, Revoking, u)
        BY <3>3 DEF MetAbout
      <4>2. req'[p] = req[p] /\ {q, p} \in overlaps'
        BY <3>1, <4>1, CommittedStays DEF Committed
      <4> QED BY <2>3, <4>1, <4>2 DEF Committed, SessionRow
    <3> QED BY <2>3, <3>1, <3>2, <3>3 DEF LoginRead, SessionRow
  <2> QED BY <1>3, <2>1, <2>2, <2>3, CommitSessions
<1> QED BY <1>2, <1>3

\* Setting a password and suspending a user end every session of the user but one
\* whose login overlapped that request (RevokedSessionsEnd).
THEOREM RevokedSessionsAreGone == Spec => []RevokedSessionsEnd
<1> DEFINE Inv == OpenRequestsMeet /\ UsersInv /\ SessionsInv /\ RevokedSessionsEnd
<1>1. TypeOK /\ Init => Inv
  <2> SUFFICES ASSUME TypeOK, Init PROVE Inv
    OBVIOUS
  <2>1. Open = {} /\ \A q \in Requests : req[q].step = "new"
    BY DEF Init, Open, NewRequest
  <2>2. OpenRequestsMeet /\ UsersInv
    BY <2>1 DEF OpenRequestsMeet, UsersInv, Deleted, Committed
  <2>3. ASSUME NEW s \in sessions
        PROVE  s.id \in Users /\ user[s.user].password = s.password /\ user[s.user].status = "ACTIVE"
    <3> PICK admins \in (SUBSET Users) \ {{}} :
          /\ user = [u \in Users |-> IF u \in admins THEN UserRow(TRUE, None, Cost) ELSE None]
          /\ sessions = {SessionRow(u, u, None) : u \in admins}
      BY DEF Init
    <3> QED BY DEF SessionRow, UserRow
  <2> QED BY <2>1, <2>2, <2>3 DEF SessionsInv, RevokedSessionsEnd
<1>2. TypeOK /\ TypeOK' /\ Inv /\ [Next]_vars => Inv'
  <2> SUFFICES ASSUME TypeOK, TypeOK', Inv, [Next]_vars PROVE Inv'
    OBVIOUS
  <2>1. CASE Next
    <3> PICK q \in Requests : Step(q)
      BY <2>1, StepOfARequest DEF Step
    <3> QED BY OpenRequestsMeetStep, UsersInvStep, SessionsInvStep, RevokedStep
  <2>2. CASE UNCHANGED vars
    <3> USE <2>2 DEF Open, Exists, Committed
    <3>1. OpenRequestsMeet'
      BY DEF OpenRequestsMeet
    <3>2. UsersInv'
      BY DEF UsersInv, Deleted
    <3>3. SessionsInv'
      BY DEF SessionsInv, LoginRead, Drops, MetAbout
    <3>4. RevokedSessionsEnd'
      BY DEF RevokedSessionsEnd
    <3> QED BY <3>1, <3>2, <3>3, <3>4
  <2> QED BY <2>1, <2>2
<1>3. Inv => RevokedSessionsEnd
  OBVIOUS
<1> QED BY <1>1, <1>2, <1>3, TypeCorrect, PTL DEF Spec

-----------------------------------------------------------------------------
(* Orders and deposits.                                                    *)

\* Orders and deposits change by a deletion, by creating an order and by paying one.
LEMMA CommitPayments ==
  ASSUME TypeOK, NEW q \in Requests, CommitRequest(q)
  PROVE  \/ order' = order /\ deposits' = deposits
         \/ \E u \in Users :
              /\ deposits' = {d \in deposits : d.user # u}
              /\ \A o \in Orders : order'[o] = IF order[o] # None /\ order[o].user = u THEN None ELSE order[o]
         \/ /\ req[q].kind = "order" /\ req[q].order \in Orders /\ order[req[q].order] = None
            /\ order'[req[q].order].status = "PENDING" /\ deposits' = deposits
            /\ \A o \in Orders \ {req[q].order} : order'[o] = order[o]
         \/ /\ req[q].kind = "callback" /\ req[q].order \in Orders /\ order[req[q].order] # None
            /\ order'[req[q].order] # None /\ order'[req[q].order].status = "PAID"
            /\ order'[req[q].order].user = order[req[q].order].user
            /\ \A o \in Orders \ {req[q].order} : order'[o] = order[o]
            /\ \A d \in deposits : d.payment # req[q].arg
            /\ deposits' = deposits \cup {DepositRow(q, req[q].order, req[q].user, req[q].arg)}
<1>1. CASE DeleteUser(q)
  <2>1. req[q].user \in Users
    BY <1>1 DEF DeleteUser, Commit, TypeOK, RequestsOK, AccountRequestOK, AccountKinds, Open
  <2> QED BY <1>1, <2>1 DEF DeleteUser
<1>2. CASE CreateOrder(q)
  <2>1. req[q].kind = "order" /\ req[q].order \in Orders /\ DOMAIN order = Orders
    BY <1>2 DEF CreateOrder, Commit, TypeOK, RequestsOK, RowsOK, AccountRequestOK, Open
  <2> QED BY <1>2, <2>1 DEF CreateOrder, OrderRow
<1>3. CASE MarkOrderPaid(q)
  <2> DEFINE o == req[q].order
             new == [order[o] EXCEPT !.status = "PAID"]
  <2>1. /\ req[q].kind = "callback" /\ o \in Orders /\ DOMAIN order = Orders
        /\ order[o] # None /\ order[o] \in OrderRows
    BY <1>3 DEF MarkOrderPaid, Commit, TypeOK, RequestsOK, RowsOK, AccountRequestOK, Open
  <2>2. new \in OrderRows /\ new.status = "PAID" /\ new.user = order[o].user
    BY <2>1 DEF OrderRows
  <2>3. new # None
    BY <2>2, IdsAssumption
  <2>4. order' = [order EXCEPT ![o] = new]
    BY <1>3, <2>1 DEF MarkOrderPaid
  <2>5. /\ \A d \in deposits : d.payment # req[q].arg
        /\ deposits' = deposits \cup {DepositRow(q, o, req[q].user, req[q].arg)}
    BY <1>3 DEF MarkOrderPaid
  <2> HIDE DEF new
  <2> QED BY <2>1, <2>2, <2>3, <2>4, <2>5
<1>4. CASE UpdateBalance(q) \/ AddBalance(q) \/ CreateUsage(q) \/ ChangeAdapter(q) \/ Register(q)
           \/ Login(q) \/ Logout(q) \/ SetPassword(q) \/ UpdateStatus(q) \/ UpdateAdmin(q)
           \/ Cleanup(q) \/ UpsertRetention(q)
  BY <1>4 DEF UpdateBalance, AddBalance, CreateUsage, ChangeAdapter, Register, Login, Logout,
              SetPassword, UpdateStatus, UpdateAdmin, Cleanup, UpsertRetention
<1> QED BY <1>1, <1>2, <1>3, <1>4 DEF CommitRequest

\* Where the deposits of a commit belong.
DepositOK(d) ==
  /\ order[d.order] # None /\ order[d.order].user = d.user /\ order[d.order].status = "PAID"
  /\ req[d.by].step = "committed"

\* Every recorded deposit stays one of an order that is paid.
LEMMA DepositsStep ==
  ASSUME TypeOK, DepositsInv, NEW q \in Requests, Step(q), NEW d \in deposits'
  PROVE  DepositOK(d)'
<1>1. CASE ~CommitRequest(q)
  <2>1. d \in deposits /\ order' = order
    BY <1>1, Quiet DEF Step
  <2>2. req'[d.by] = req[d.by]
    BY <2>1, CommittedStays DEF DepositsInv, TypeOK, RowsOK
  <2> QED BY <2>1, <2>2 DEF DepositsInv, DepositOK
<1>2. CASE CommitRequest(q) /\ d \in deposits
  <2>1. /\ req'[d.by] = req[d.by] /\ d.order \in Orders /\ d.user \in Users
        /\ order[d.order] # None /\ order[d.order].user = d.user
        /\ order[d.order].status = "PAID" /\ req[d.by].step = "committed"
    BY <1>2, CommittedStays DEF DepositsInv, TypeOK, RowsOK
  <2>2. order'[d.order] # None /\ order'[d.order].user = d.user /\ order'[d.order].status = "PAID"
    BY <1>2, <2>1, CommitPayments
  <2> QED BY <2>1, <2>2 DEF DepositOK
<1>3. CASE CommitRequest(q) /\ d \notin deposits
  <2>1. req'[q].step = "committed" /\ OrderRead(q)
    BY <1>3, CommitKeeps DEF DepositsInv
  <2> QED BY <1>3, <2>1, CommitPayments DEF DepositOK, DepositRow, OrderRead
<1> QED BY <1>1, <1>2, <1>3

\* A callback that found its order unpaid met every payment of it since.
LEMMA OrderReadStep ==
  ASSUME TypeOK, OpenRequestsMeet, DepositsInv, NEW q \in Requests, Step(q), NEW o \in Open'
  PROVE  OrderRead(o)'
<1>1. CASE o = q /\ BeginRequest(q)
  <2>1. UNCHANGED <<accounts, payments, records>> /\ Open' = Open \cup {q} /\ Began(q, req'[q])
        /\ \A p \in Requests \ {q} : req'[p] = req[p]
    BY <1>1, RequestBegan, BeginFrame
  <2>2. ASSUME req'[o].kind = "order", NEW p \in Open' \ {o}
        PROVE  order'[req'[o].order] = None /\ req'[p].order # req'[o].order
    BY <1>1, <2>1, <2>2 DEF Began, BeganPlatform, Open
  <2>3. ASSUME req'[o].kind = "order" PROVE order'[req'[o].order] = None
    BY <1>1, <2>1, <2>3 DEF Began, BeganPlatform
  <2>4. ASSUME req'[o].kind = "callback", NEW d \in deposits', d.order = req'[o].order PROVE FALSE
    BY <1>1, <2>1, <2>4 DEF Began, BeganPlatform, DepositsInv
  <2>5. ASSUME req'[o].kind = "callback" PROVE order'[req'[o].order].user = req'[o].user
    BY <1>1, <2>1, <2>5 DEF Began, BeganPlatform
  <2> QED BY <2>2, <2>3, <2>4, <2>5 DEF OrderRead
<1>2. CASE ~(o = q /\ BeginRequest(q))
  <2>1. /\ o \in Open /\ o \in Requests /\ req'[o].kind = req[o].kind /\ req'[o].user = req[o].user
        /\ req'[o].order = req[o].order /\ OrderRead(o)
        /\ req[o].kind \in {"order", "callback"} => req[o].order \in Orders
    BY <1>2, OpenKeeps DEF DepositsInv, TypeOK, RequestsOK, AccountRequestOK
  <2>2. ASSUME req[o].kind = "order" PROVE order'[req[o].order] = None
    <3>1. CASE ~CommitRequest(q)
      BY <2>1, <2>2, <3>1, Quiet DEF Step, OrderRead
    <3>2. CASE CommitRequest(q)
      <4>1. q \in Open /\ q # o
        BY <3>2, CommitKeeps
      <4> QED BY <2>1, <2>2, <3>2, <4>1, CommitPayments DEF OrderRead
    <3> QED BY <3>1, <3>2
  <2>3. ASSUME req[o].kind = "order", NEW p \in Open' \ {o}, req'[p].kind \in {"order", "callback"}
        PROVE  req'[p].order # req[o].order
    <3>1. CASE p = q /\ BeginRequest(q)
      BY <2>1, <2>3, <3>1, RequestBegan DEF Began, BeganPlatform, OrderRead
    <3>2. CASE ~(p = q /\ BeginRequest(q))
      BY <2>1, <2>3, <3>2, OpenKeeps DEF OrderRead
    <3> QED BY <3>1, <3>2
  <2>4. ASSUME req[o].kind = "callback", order'[req[o].order] # None
        PROVE  order'[req[o].order].user = req[o].user
    <3>1. CASE ~CommitRequest(q)
      BY <2>1, <2>4, <3>1, Quiet DEF Step, OrderRead
    <3>2. CASE CommitRequest(q)
      <4>1. q \in Open /\ q # o /\ OrderRead(q)
        BY <3>2, CommitKeeps DEF DepositsInv
      <4> QED BY <2>1, <2>4, <3>2, <4>1, CommitPayments DEF OrderRead
    <3> QED BY <3>1, <3>2
  <2>5. ASSUME req[o].kind = "callback", NEW d \in deposits', d.order = req[o].order
        PROVE  {d.by, o} \in overlaps'
    <3>1. CASE d \in deposits
      <4>1. {d.by, o} \in overlaps /\ d.by \in Requests /\ req[d.by].step = "committed"
        BY <2>1, <2>5, <3>1 DEF OrderRead, DepositsInv, TypeOK, RowsOK
      <4>2. d.by # q
        BY <4>1, CommittedStays
      <4>3. o # q \/ ~Rollback(q)
        BY RollbackFrame
      <4> QED BY <4>1, <4>2, <4>3, OverlapStays
    <3>2. CASE d \notin deposits
      <4>1. CommitRequest(q)
        BY <3>2, Quiet DEF Step
      <4>2. d.by = q
        BY <3>2, <4>1, CommitPayments DEF DepositRow
      <4>3. req[q].kind \in {req[q].kind}
        OBVIOUS
      <4> QED BY <4>1, <4>2, <4>3, MetMore
    <3> QED BY <3>1, <3>2
  <2> QED BY <2>1, <2>2, <2>3, <2>4, <2>5 DEF OrderRead
<1> QED BY <1>1, <1>2

\* Every step keeps orders paid at most once where no overlap excuses it.
LEMMA PaidStep ==
  ASSUME TypeOK, DepositsInv, PaidOnce, NEW q \in Requests, Step(q)
  PROVE  PaidOnce'
<1>1. ASSUME NEW o \in Orders, order'[o] # None, order'[o].status = "PAID"
      PROVE  \E d \in deposits' : d.order = o
  <2>1. order[o] # None /\ order[o].status = "PAID" => \E d \in deposits : d.order = o
    BY DEF PaidOnce
  <2>2. CASE ~CommitRequest(q)
    BY <1>1, <2>1, <2>2, Quiet DEF Step
  <2>3. CASE CommitRequest(q)
    <3>1. CASE order[o] # None /\ order[o].status = "PAID"
      <4>1. PICK d \in deposits : d.order = o
        BY <2>1, <3>1
      <4>2. order[o].user = d.user
        BY <4>1 DEF DepositsInv
      <4>3. d \in deposits'
        BY <1>1, <2>3, <4>2, CommitPayments
      <4> QED BY <4>1, <4>3
    <3>2. CASE ~(order[o] # None /\ order[o].status = "PAID")
      <4>1. /\ deposits' = deposits \cup {DepositRow(q, req[q].order, req[q].user, req[q].arg)}
            /\ o = req[q].order
        BY <1>1, <2>3, <3>2, CommitPayments
      <4>2. DepositRow(q, req[q].order, req[q].user, req[q].arg).order = req[q].order
        BY DEF DepositRow
      <4> QED BY <4>1, <4>2
    <3> QED BY <3>1, <3>2
  <2> QED BY <2>2, <2>3
<1>2. ASSUME NEW o \in Orders, NEW d \in deposits', d.order = o
      PROVE  order'[o].status = "PAID"
  BY <1>2, DepositsStep DEF DepositOK
<1>3. ASSUME NEW d \in deposits', NEW e \in deposits', d.order = e.order, d # e
      PROVE  d.payment # e.payment /\ {d.by, e.by} \in overlaps'
  <2>1. CASE d \in deposits /\ e \in deposits
    <3>1. {d.by, e.by} \in overlaps /\ d.payment # e.payment
      BY <1>3, <2>1 DEF PaidOnce
    <3>2. d.by # q /\ e.by # q
      BY <2>1, CommittedStays DEF DepositsInv, TypeOK, RowsOK
    <3> QED BY <3>1, <3>2, OverlapStays
  <2>2. CASE ~(d \in deposits /\ e \in deposits)
    <3>1. CommitRequest(q)
      BY <2>2, Quiet DEF Step
    <3>2. q \in Open /\ OrderRead(q) /\ overlaps' = overlaps
      BY <3>1, CommitKeeps DEF DepositsInv
    <3> DEFINE new == DepositRow(q, req[q].order, req[q].user, req[q].arg)
    <3>3. new.by = q /\ new.order = req[q].order /\ new.payment = req[q].arg
      BY DEF DepositRow
    <3>4. /\ req[q].kind = "callback" /\ deposits' = deposits \cup {new}
          /\ \A c \in deposits : c.payment # req[q].arg
      BY <2>2, <3>1, CommitPayments
    <3> HIDE DEF new
    <3>5. \A c \in deposits : c.order = req[q].order => {c.by, q} \in overlaps
      BY <3>2, <3>4 DEF OrderRead
    <3>6. CASE d = new /\ e \in deposits
      BY <1>3, <3>2, <3>3, <3>4, <3>5, <3>6
    <3>7. CASE e = new /\ d \in deposits
      BY <1>3, <3>2, <3>3, <3>4, <3>5, <3>7
    <3> QED BY <1>3, <2>2, <3>4, <3>6, <3>7
  <2> QED BY <2>1, <2>2
<1> QED BY <1>1, <1>2, <1>3 DEF PaidOnce

\* An order is paid exactly if it was credited, and it is credited once, unless two
\* callbacks with different payment ids ran at the same time (PaidOnce).
THEOREM OrdersArePaidOnce == Spec => []PaidOnce
<1> DEFINE Inv == OpenRequestsMeet /\ DepositsInv /\ PaidOnce
<1>1. TypeOK /\ Init => Inv
  BY DEF Init, Open, NewRequest, OpenRequestsMeet, DepositsInv, PaidOnce
<1>2. TypeOK /\ Inv /\ [Next]_vars => Inv'
  <2> SUFFICES ASSUME TypeOK, Inv, [Next]_vars PROVE Inv'
    OBVIOUS
  <2>1. CASE Next
    <3> PICK q \in Requests : Step(q)
      BY <2>1, StepOfARequest DEF Step
    <3>1. DepositsInv'
      BY DepositsStep, OrderReadStep DEF DepositsInv, DepositOK
    <3> QED BY <3>1, OpenRequestsMeetStep, PaidStep
  <2>2. CASE UNCHANGED vars
    BY <2>2 DEF Open, OpenRequestsMeet, DepositsInv, OrderRead, PaidOnce
  <2> QED BY <2>1, <2>2
<1>3. Inv => PaidOnce
  OBVIOUS
<1> QED BY <1>1, <1>2, <1>3, TypeCorrect, PTL DEF Spec

-----------------------------------------------------------------------------
(* Rules that requests check.                                              *)

\* An active administrator whom a commit leaves none was demoted, deleted or suspended by it.
LEMMA AdminKept ==
  ASSUME TypeOK, NEW q \in Requests, Step(q), NEW a \in Users, ActiveAdmin(a)
  PROVE  ActiveAdmin(a)' \/ (CommitRequest(q) /\ Endangers(req[q]) /\ a = req[q].user)
<1>1. CASE ~CommitRequest(q)
  BY <1>1, Quiet DEF Step, ActiveAdmin, Exists
<1>2. CASE CommitRequest(q)
  <2>1. Exists(a) /\ user[a].admin /\ user[a].status = "ACTIVE"
    BY DEF ActiveAdmin
  <2>2. CASE user'[a] = None
    BY <1>2, <2>1, <2>2, CommitUsers DEF Endangers
  <2>3. CASE user'[a] # None
    <3>1. UserKept(q, a)
      BY <1>2, <2>1, <2>3, CommitUsers DEF UserNew, Fresh
    <3>2. CASE req[q].kind \notin {"admin", "status"} \/ a # req[q].user
      BY <2>1, <2>3, <3>1, <3>2 DEF UserKept, ActiveAdmin, Exists
    <3>3. CASE req[q].kind \in {"admin", "status"} /\ a = req[q].user /\ ~Endangers(req[q])
      <4>1. AccountRequestOK(req[q])
        BY <1>2, CommitKeeps DEF TypeOK, RequestsOK
      <4>2. req[q].arg = IF req[q].kind = "admin" THEN TRUE ELSE "ACTIVE"
        BY <3>3, <4>1 DEF Endangers, AccountRequestOK
      <4>3. IF req[q].kind = "admin" THEN UpdateAdmin(q) ELSE UpdateStatus(q)
        BY <1>2, <3>3 DEF CommitRequest, Register, Login, Logout, SetPassword, UpdateStatus,
           UpdateAdmin, UpdateBalance, DeleteUser, AddBalance, CreateOrder, MarkOrderPaid,
           ChangeAdapter, CreateUsage, Cleanup, UpsertRetention, Commit
      <4>4. user[a] \in UserRows /\ user \in [Users -> UserRows \cup {None}]
        BY <2>1 DEF TypeOK, RowsOK, Exists
      <4>5. CASE req[q].kind = "admin"
        <5>1. user'[a].admin
          BY <2>1, <3>3, <4>2, <4>3, <4>4, <4>5, ZenonT(40) DEF UpdateAdmin, UserRows, Assigned
        <5> QED BY <2>1, <2>3, <3>1, <4>5, <5>1 DEF UserKept, ActiveAdmin, Exists
      <4>6. CASE req[q].kind = "status"
        <5>1. user'[a].status = "ACTIVE"
          BY <2>1, <3>3, <4>2, <4>3, <4>4, <4>6 DEF UpdateStatus, UserRows, Assigned
        <5> QED BY <2>1, <2>3, <3>1, <4>6, <5>1 DEF UserKept, ActiveAdmin, Exists
      <4> QED BY <3>3, <4>5, <4>6
    <3> QED BY <1>2, <3>2, <3>3
  <2> QED BY <2>2, <2>3
<1> QED BY <1>1, <1>2

\* Every step keeps what open requests rely on about administrators.
LEMMA AdminsStep ==
  ASSUME TypeOK, OpenRequestsMeet, AdminsInv, NEW q \in Requests, Step(q)
  PROVE  AdminsInv'
<1> SUFFICES ASSUME NEW o \in Open', Endangers(req'[o]), NEW u, u = req'[o].user
             PROVE  \/ \E a \in Users \ {u} : ActiveAdmin(a)'
                    \/ SuspendsItself(o)'
                    \/ Met(o, Demoting)'
  BY DEF AdminsInv, AdminRead, Endangers
<1>1. CASE o = q /\ BeginRequest(q)
  <2>1. UNCHANGED user /\ Began(q, req'[q])
    BY <1>1, RequestBegan, BeginFrame
  <2> QED BY <1>1, <2>1 DEF Began, BeganAccount, Endangers, SuspendsItself, ActiveAdmin, Exists
<1>2. CASE ~(o = q /\ BeginRequest(q))
  <2>1. /\ o \in Open /\ req'[o].kind = req[o].kind /\ req'[o].arg = req[o].arg
        /\ req'[o].session = req[o].session /\ u = req[o].user
    BY <1>2, OpenKeeps
  <2>2. \/ \E a \in Users \ {u} : ActiveAdmin(a)
        \/ SuspendsItself(o)
        \/ Met(o, Demoting)
    BY <2>1 DEF AdminsInv, AdminRead, Endangers
  <2>3. CASE Met(o, Demoting)
    BY <2>3, MetStays
  <2>4. CASE SuspendsItself(o)
    BY <2>1, <2>4 DEF SuspendsItself
  <2>5. ASSUME NEW a \in Users \ {u}, ActiveAdmin(a)
        PROVE  ActiveAdmin(a)' \/ Met(o, Demoting)'
    BY <2>5, AdminKept, MetMore DEF Endangers, Demoting
  <2> QED BY <2>2, <2>3, <2>4, <2>5
<1> QED BY <1>1, <1>2

\* A step that leaves no active administrator is a commit that suspends its caller, or
\* one that overlapped another change of administrators.
LEMMA AdministratorStep ==
  ASSUME TypeOK, AdminsInv, NEW q \in Requests, Step(q), NEW a \in Users, ActiveAdmin(a),
         \A b \in Users : ~ActiveAdmin(b)'
  PROVE  /\ q \in Open /\ req'[q].step = "committed"
         /\ SuspendsItself(q) \/ Met(q, Demoting)
<1>1. CommitRequest(q) /\ Endangers(req[q])
  BY AdminKept
<1>2. q \in Open /\ req'[q].step = "committed" /\ AdminRead(q)
  BY <1>1, CommitKeeps DEF AdminsInv
<1>3. \A b \in Users \ {req[q].user} : ~ActiveAdmin(b)
  BY AdminKept
<1> QED BY <1>1, <1>2, <1>3 DEF AdminRead

\* The last active administrator only goes with a request that suspends its own caller or
\* that overlapped another change of administrators (AnAdministratorRemains).
THEOREM AnAdministratorStays == Spec => AnAdministratorRemains
<1> DEFINE Inv == OpenRequestsMeet /\ AdminsInv
           Leaves ==
             (\E u \in Users : ActiveAdmin(u)) =>
               \/ \E u \in Users : ActiveAdmin(u)'
               \/ \E q \in Requests :
                    /\ q \in Open /\ req'[q].step = "committed"
                    /\ SuspendsItself(q) \/ Met(q, {"admin", "delete", "status"})
<1>1. TypeOK /\ Init => Inv
  BY DEF Init, Open, NewRequest, OpenRequestsMeet, AdminsInv
<1>2. TypeOK /\ Inv /\ [Next]_vars => Inv' /\ [Leaves]_vars
  <2> SUFFICES ASSUME TypeOK, Inv, [Next]_vars PROVE Inv' /\ [Leaves]_vars
    OBVIOUS
  <2>1. CASE Next
    <3> PICK q \in Requests : Step(q)
      BY <2>1, StepOfARequest DEF Step
    <3>1. Leaves
      BY AdministratorStep DEF Demoting
    <3> QED BY <3>1, OpenRequestsMeetStep, AdminsStep
  <2>2. CASE UNCHANGED vars
    <3>1. OpenRequestsMeet'
      BY <2>2 DEF OpenRequestsMeet, Open
    <3>2. AdminsInv'
      BY <2>2 DEF AdminsInv, AdminRead, Open, Met, SuspendsItself, ActiveAdmin, Exists
    <3> QED BY <2>2, <3>1, <3>2
  <2> QED BY <2>1, <2>2
<1>3. Spec => [][Leaves]_vars
  <2> HIDE DEF Inv, Leaves
  <2> QED BY <1>1, <1>2, TypeCorrect, PTL DEF Spec
<1> QED BY <1>3 DEF AnAdministratorRemains

\* What a commit does to the adapter.
LEMMA CommitAdapter ==
  ASSUME TypeOK, NEW q \in Requests, CommitRequest(q)
  PROVE  \/ adapter' = adapter
         \/ adapter' = None
         \/ req[q].kind = "create" /\ adapter' = req[q].arg
         \/ /\ req[q].kind = "enable" /\ SameAdapter(q) /\ req[q].arg \in BOOLEAN
            /\ adapter'.id = adapter.id /\ adapter'.complete = adapter.complete
            /\ adapter'.enabled \in {adapter.enabled, req[q].arg}
         \/ /\ req[q].kind = "configure" /\ SameAdapter(q) /\ req[q].arg \in BOOLEAN
            /\ adapter'.id = adapter.id /\ adapter'.enabled = adapter.enabled
            /\ adapter'.complete = req[q].arg
<1>1. CASE ChangeAdapter(q)
  <2>1. PlatformRequestOK(req[q])
    BY <1>1 DEF ChangeAdapter, Commit, TypeOK, RequestsOK, Open
  <2>2. adapter # None => adapter \in AdapterRows
    BY DEF TypeOK, RowsOK
  <2> QED
    BY <1>1, <2>1, <2>2 DEF ChangeAdapter, Commit, PlatformRequestOK, SameAdapter, AdapterRows, Assigned
<1>2. CASE ~ChangeAdapter(q)
  BY <1>2 DEF CommitRequest, Register, Login, Logout, SetPassword, UpdateStatus, UpdateAdmin,
     UpdateBalance, DeleteUser, AddBalance, CreateOrder, MarkOrderPaid, CreateUsage,
     Cleanup, UpsertRetention
<1> QED BY <1>1, <1>2

\* Every step keeps what open requests rely on about the payment adapter.
LEMMA AdapterStep ==
  ASSUME TypeOK, OpenRequestsMeet, AdapterInv, NEW q \in Requests, Step(q)
  PROVE  AdapterInv'
<1>1. ASSUME NEW id, id \in Requests \cup {None}, Settled(id) PROVE Settled(id)' /\ id # q
  BY <1>1, IdsAssumption, CommittedStays DEF Settled
<1>2. adapter # None => adapter.id \in Requests \cup {None} /\ Settled(adapter.id)
  BY DEF AdapterInv, TypeOK, RowsOK, AdapterRows
<1>3. ASSUME adapter' # None, NEW id, id = adapter'.id PROVE Settled(id)'
  <2>1. CASE ~CommitRequest(q)
    BY <1>1, <1>2, <1>3, <2>1, Quiet DEF Step
  <2>2. CASE CommitRequest(q)
    <3>1. q \in Open /\ AdapterRead(q) /\ req'[q].step = "committed"
      BY <2>2, CommitKeeps DEF AdapterInv
    <3>2. CASE req[q].kind = "create" /\ adapter' = req[q].arg
      BY <1>3, <3>1, <3>2 DEF AdapterRead, Settled
    <3>3. CASE adapter # None /\ adapter'.id = adapter.id
      BY <1>1, <1>2, <1>3, <3>3
    <3> QED BY <1>3, <2>2, <3>2, <3>3, CommitAdapter DEF SameAdapter
  <2> QED BY <2>1, <2>2
<1>4. ASSUME NEW o \in Open' PROVE AdapterRead(o)'
  <2>1. CASE o = q /\ BeginRequest(q)
    <3>1. UNCHANGED <<accounts, payments, records>> /\ Began(q, req'[q])
      BY <2>1, RequestBegan, BeginFrame
    <3>2. ASSUME req'[o].kind \in {"order", "enable", "configure", "remove"},
                 NEW id, id = req'[o].seen.id
          PROVE  Settled(id)'
      BY <1>1, <1>2, <2>1, <3>1, <3>2 DEF Began, BeganPlatform
    <3>3. Settled(req[o].seen.id)' <=> \E id \in {req'[o].seen.id} : Settled(id)'
      BY DEF Settled
    <3> QED BY <2>1, <3>1, <3>2, <3>3 DEF Began, BeganPlatform, AdapterRead
  <2>2. CASE ~(o = q /\ BeginRequest(q))
    <3>1. /\ o \in Open /\ o \in Requests /\ req'[o].kind = req[o].kind
          /\ req'[o].arg = req[o].arg /\ req'[o].seen = req[o].seen /\ AdapterRead(o)
          /\ req[o].kind \in {"order", "enable", "configure", "remove"} => req[o].seen \in AdapterRows
      BY <2>2, OpenKeeps DEF AdapterInv, TypeOK, RequestsOK, PlatformRequestOK
    <3> DEFINE id == req[o].seen.id
    <3>2. req[o].kind \in {"order", "enable", "configure", "remove"} => Settled(id)' /\ id # q
      BY <1>1, <3>1 DEF AdapterRead, AdapterRows
    <3>3. Met(o, {"configure"}) => Met(o, {"configure"})'
      BY MetStays
    <3>4. Met(o, {"enable"}) => Met(o, {"enable"})'
      BY MetStays
    <3>5. CASE ~CommitRequest(q)
      <4>1. adapter' = adapter
        BY <3>5, Quiet DEF Step
      <4> QED BY <3>1, <3>2, <3>3, <3>4, <4>1 DEF AdapterRead, SameAdapter, Settled
    <3>6. CASE CommitRequest(q)
      <4>1. q \in Open /\ AdapterRead(q)
        BY <3>6, CommitKeeps DEF AdapterInv
      <4>2. req[q].kind = "configure" => Met(o, {"configure"})'
        BY <3>6, MetMore
      <4>3. req[q].kind = "enable" => Met(o, {"enable"})'
        BY <3>6, MetMore
      <4>4. ASSUME req[o].kind = "enable", req[o].arg, adapter' # None, adapter'.id = id
            PROVE  adapter'.complete \/ Met(o, {"configure"})'
        BY <3>1, <3>2, <3>3, <3>6, <4>1, <4>2, <4>4, CommitAdapter DEF AdapterRead, SameAdapter
      <4>5. ASSUME req[o].kind = "configure", ~req[o].arg, adapter' # None, adapter'.id = id
            PROVE  ~adapter'.enabled \/ Met(o, {"enable"})'
        BY <3>1, <3>2, <3>4, <3>6, <4>1, <4>3, <4>5, CommitAdapter DEF AdapterRead, SameAdapter
      <4> QED BY <3>1, <3>2, <4>4, <4>5 DEF AdapterRead, SameAdapter, Settled
    <3> QED BY <3>5, <3>6
  <2> QED BY <2>1, <2>2
<1> QED BY <1>3, <1>4 DEF AdapterInv, Settled

\* Every step keeps an enabled adapter complete where no overlap excuses it.
LEMMA EnabledStep ==
  ASSUME TypeOK, AdapterInv, EnabledAdapterIsComplete, NEW q \in Requests, Step(q)
  PROVE  EnabledAdapterIsComplete'
<1>1. ASSUME NEW p \in Requests, NEW o \in Requests, {p, o} \in overlaps,
             req[p].step = "committed", req[p].kind = "enable",
             req[o].step = "committed", req[o].kind = "configure"
      PROVE  EnabledAdapterIsComplete'
  <2>1. req'[p] = req[p] /\ p # q /\ req'[o] = req[o] /\ o # q
    BY <1>1, CommittedStays
  <2>2. {p, o} \in overlaps'
    BY <1>1, <2>1, OverlapStays
  <2> QED BY <1>1, <2>1, <2>2 DEF EnabledAdapterIsComplete
<1>2. ASSUME adapter = None \/ (adapter.enabled => adapter.complete)
      PROVE  EnabledAdapterIsComplete'
  <2>1. CASE ~CommitRequest(q)
    BY <1>2, <2>1, Quiet DEF Step, EnabledAdapterIsComplete
  <2>2. CASE CommitRequest(q)
    <3>1. /\ q \in Open /\ AdapterRead(q) /\ overlaps' = overlaps /\ req'[q].step = "committed"
          /\ req'[q].kind = req[q].kind
      BY <2>2, CommitKeeps DEF AdapterInv
    <3>2. CASE req[q].kind = "enable" /\ Met(q, {"configure"})
      <4>1. PICK p \in Requests : {p, q} \in overlaps /\ req[p].step = "committed" /\ req[p].kind = "configure"
        BY <3>2 DEF Met
      <4>2. req'[p] = req[p] /\ {q, p} \in overlaps'
        BY <3>1, <4>1, CommittedStays
      <4> QED BY <3>1, <3>2, <4>1, <4>2 DEF EnabledAdapterIsComplete
    <3>3. CASE req[q].kind = "configure" /\ Met(q, {"enable"})
      <4>1. PICK p \in Requests : {p, q} \in overlaps /\ req[p].step = "committed" /\ req[p].kind = "enable"
        BY <3>3 DEF Met
      <4>2. req'[p] = req[p] /\ {p, q} \in overlaps'
        BY <3>1, <4>1, CommittedStays
      <4> QED BY <3>1, <3>3, <4>1, <4>2 DEF EnabledAdapterIsComplete
    <3>4. CASE ~(req[q].kind = "enable" /\ Met(q, {"configure"}))
               /\ ~(req[q].kind = "configure" /\ Met(q, {"enable"}))
      <4>1. adapter' = None \/ (adapter'.enabled => adapter'.complete)
        BY <1>2, <2>2, <3>1, <3>4, CommitAdapter DEF AdapterRead, SameAdapter
      <4> QED BY <4>1 DEF EnabledAdapterIsComplete
    <3> QED BY <3>2, <3>3, <3>4
  <2> QED BY <2>1, <2>2
<1> QED BY <1>1, <1>2 DEF EnabledAdapterIsComplete

\* An enabled adapter is completely configured, unless one request enabled it while
\* another took a part of its configuration away (EnabledAdapterIsComplete).
THEOREM EnabledAdaptersAreComplete == Spec => []EnabledAdapterIsComplete
<1> DEFINE Inv == OpenRequestsMeet /\ AdapterInv /\ EnabledAdapterIsComplete
<1>1. TypeOK /\ Init => Inv
  <2> SUFFICES ASSUME TypeOK, Init PROVE Inv
    OBVIOUS
  <2>1. Open = {}
    BY DEF Init, Open, NewRequest
  <2>2. adapter.id = None /\ adapter.complete
    BY DEF Init, AdapterRow
  <2> QED
    BY <2>1, <2>2 DEF OpenRequestsMeet, AdapterInv, Settled, EnabledAdapterIsComplete
<1>2. TypeOK /\ Inv /\ [Next]_vars => Inv'
  <2> SUFFICES ASSUME TypeOK, Inv, [Next]_vars PROVE Inv'
    OBVIOUS
  <2>1. CASE Next
    <3> PICK q \in Requests : Step(q)
      BY <2>1, StepOfARequest DEF Step
    <3> QED BY OpenRequestsMeetStep, AdapterStep, EnabledStep
  <2>2. CASE UNCHANGED vars
    <3> USE <2>2 DEF Open, Met, Settled, SameAdapter
    <3>1. OpenRequestsMeet'
      BY DEF OpenRequestsMeet
    <3>2. AdapterInv'
      BY ZenonT(40) DEF AdapterInv, AdapterRead
    <3>3. EnabledAdapterIsComplete'
      BY DEF EnabledAdapterIsComplete
    <3> QED BY <3>1, <3>2, <3>3
  <2> QED BY <2>1, <2>2
<1>3. Inv => EnabledAdapterIsComplete
  OBVIOUS
<1> QED BY <1>1, <1>2, <1>3, TypeCorrect, PTL DEF Spec

=============================================================================
