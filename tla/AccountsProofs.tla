---------------------------- MODULE AccountsProofs ----------------------------
(***************************************************************************)
(* For every set of accounts, addresses and administrators: a revoked      *)
(* session stays out unless it is refreshed or the instant moves back,     *)
(* every account has a role and an address of its own, and a realm is only *)
(* locked out by an author who no longer administers it.                   *)
(***************************************************************************)
EXTENDS Accounts, TLAPS

\* What Begin has established about a request and no other request can undo: its author may
\* touch the account, and does not deprive itself where the handlers spare it.
AuthorsBound ==
  \A x \in Actors :
    LET r == request[x]
    IN  /\ r.op \notin {"none", "suspend", "resume"} => r.on \in Accounts
        /\ x = Operator => r.op \in {"none", "create"}
        /\ x \in Accounts /\ r.op \notin {"none", "suspend", "resume"} => r.on \in Realm(x)
        /\ r.op \in {"disable", "delete"} => r.on # x
        /\ x \in Staff /\ r.op = "role" /\ r.on = x => r.to = "admin"

IInv == AccountsSound /\ AuthorsBound

\* A request as the code can hold it.
Request == [op : Ops, on : Actors, to : Roles, seen : SUBSET Roles,
            at : 0..MaxClock, overtaken : BOOLEAN]

-----------------------------------------------------------------------------

\* The initial accounts: administrators with distinct addresses and nothing in flight.
LEMMA InitInv == Init => IInv
<1> SUFFICES ASSUME Init PROVE IInv
    OBVIOUS
<1> USE AccountsAssumption DEF AccountsAssumption, Init
<1>1. TypeOK
  <2>1. /\ status \in [Accounts -> {"none", "active", "disabled"}]
        /\ roles \in [Accounts -> SUBSET Roles]
        /\ since \in [Accounts -> 0..MaxClock]
    BY DEF Roles
  <2>2. token \in [Accounts -> [at : -1..MaxClock, roles : SUBSET Roles]]
    BY DEF NoToken
  <2>3. request \in [Actors -> Request]
    BY DEF NoRequest, Ops, Roles, Actors, Request
  <2> QED
    BY <2>1, <2>2, <2>3 DEF TypeOK, Request
<1>2. EveryAccountHasARole /\ OneAccountPerAddress
  BY DEF EveryAccountHasARole, OneAccountPerAddress, Exists, Accounts
<1>3. AuthorsBound
  BY DEF AuthorsBound, NoRequest, Actors
<1> QED
  BY <1>1, <1>2, <1>3 DEF IInv, AccountsSound

\* Requests that end, or lose something they saw, stay within what their Begin checked.
LEMMA AuthorsKept ==
  ASSUME IInv,
         \A y \in Actors : \/ request'[y] = request[y]
                           \/ request'[y] = NoRequest
                           \/ \E s \in SUBSET Roles, o \in BOOLEAN :
                                request'[y] = [request[y] EXCEPT !.seen = s, !.overtaken = o]
  PROVE  AuthorsBound'
<1>1. /\ NoRequest.op = "none" /\ AuthorsBound
      /\ request \in [Actors -> Request]
  BY DEF NoRequest, IInv, AccountsSound, TypeOK, Request
<1>2. ASSUME NEW y \in Actors
      PROVE  \/ request'[y].op = "none"
             \/ /\ request'[y].op = request[y].op /\ request'[y].on = request[y].on
                /\ request'[y].to = request[y].to
  BY <1>1 DEF Request
<1> QED
  BY <1>1, <1>2 DEF AuthorsBound, Realm

-----------------------------------------------------------------------------
(* Signing in, time, and the beginning of requests: no row of an account changes *)

\* A token, the clock or a request moves; what the rows say does not.
LEMMA RowsKept ==
  ASSUME IInv, UNCHANGED <<status, roles>>
  PROVE  EveryAccountHasARole' /\ OneAccountPerAddress'
BY DEF IInv, AccountsSound, EveryAccountHasARole, OneAccountPerAddress, Exists

\* Issue gives the account a token of this moment.
LEMMA SignInKeeps ==
  ASSUME IInv, NEW a \in Accounts, Login(a) \/ Refresh(a)
  PROVE  IInv'
<1>1. Issue(a) /\ UNCHANGED <<status, roles, since, request, tenant, clock, requests>>
  BY DEF Login, Refresh
<1>2. TypeOK'
  <2>1. token' \in [Accounts -> [at : -1..MaxClock, roles : SUBSET Roles]]
    BY <1>1, AccountsAssumption DEF Issue, IInv, AccountsSound, TypeOK, AccountsAssumption
  <2> QED
    BY <1>1, <2>1 DEF IInv, AccountsSound, TypeOK
<1>3. AuthorsBound'
  BY <1>1, AuthorsKept
<1> QED
  BY <1>1, <1>2, <1>3, RowsKept DEF IInv, AccountsSound

\* The clock advances.
LEMMA TickKeeps ==
  ASSUME IInv, Tick
  PROVE  IInv'
<1>1. TypeOK'
  BY AccountsAssumption DEF Tick, IInv, AccountsSound, TypeOK, AccountsAssumption
<1>2. AuthorsBound'
  BY AuthorsKept DEF Tick
<1> QED
  BY <1>1, <1>2, RowsKept DEF Tick, IInv, AccountsSound

\* One more request is in flight; the rows are as they were.
LEMMA BeginTypes ==
  ASSUME IInv, NEW x \in Actors, NEW r \in Request,
         request' = [request EXCEPT ![x] = r],
         requests < MaxRequests, requests' = requests + 1,
         UNCHANGED <<status, roles, since, token, tenant, clock>>
  PROVE  TypeOK'
<1>1. request' \in [Actors -> Request]
  BY DEF IInv, AccountsSound, TypeOK, Request
<1>2. requests' \in 0..MaxRequests
  BY AccountsAssumption DEF IInv, AccountsSound, TypeOK, AccountsAssumption
<1> QED
  BY <1>1, <1>2 DEF IInv, AccountsSound, TypeOK, Request

\* The guards of the handlers are what AuthorsBound remembers.
LEMMA BeginKeeps ==
  ASSUME IInv, NEW x \in Actors, Begin(x)
  PROVE  IInv'
<1>1. PICK op \in {"create", "role", "disable", "enable", "password", "delete"},
           a \in Accounts, to \in Roles :
        /\ Acceptable(x, op, a, to)
        /\ request' = [request EXCEPT ![x] =
                         [op |-> op, on |-> a, to |-> to,
                          seen |-> IF op = "role" THEN roles[a] ELSE {},
                          at |-> Instant(op), overtaken |-> FALSE]]
  BY DEF Begin
<1> DEFINE r == [op |-> op, on |-> a, to |-> to, seen |-> IF op = "role" THEN roles[a] ELSE {},
                  at |-> Instant(op), overtaken |-> FALSE]
<1>2. r \in Request
  <2>1. Instant(op) \in 0..MaxClock
    BY AccountsAssumption DEF Instant, IInv, AccountsSound, TypeOK, AccountsAssumption
  <2> QED
    BY <2>1 DEF Request, Ops, Actors, IInv, AccountsSound, TypeOK
<1>3. request' = [request EXCEPT ![x] = r]
  BY <1>1
<1>4. UNCHANGED <<status, roles, since, token, tenant, clock>>
      /\ requests < MaxRequests /\ requests' = requests + 1
  BY DEF Begin
<1>5. TypeOK'
  BY <1>2, <1>3, <1>4, BeginTypes
<1>6. AuthorsBound'
  <2>1. /\ x = Operator => op = "create"
        /\ x \in Accounts => a \in Realm(x)
        /\ op \in {"disable", "delete"} => a # x
        /\ x \in Staff /\ op = "role" /\ a = x => to = "admin"
    BY <1>1, AccountsAssumption
       DEF Acceptable, Manages, Spared, AccountsAssumption, Accounts
  <2>2. \A y \in Actors : y # x => request'[y] = request[y]
    BY <1>3 DEF IInv, AccountsSound, TypeOK
  <2>3. request'[x] = r /\ r.op = op /\ r.on = a /\ r.to = to
    BY <1>3 DEF IInv, AccountsSound, TypeOK
  <2>4. AuthorsBound
    BY DEF IInv
  <2> QED
    BY <2>1, <2>2, <2>3, <2>4 DEF AuthorsBound, Realm
<1> QED
  BY <1>4, <1>5, <1>6, RowsKept DEF IInv, AccountsSound

\* An own password or the tenant's state.
LEMMA BeginOwnKeeps ==
  ASSUME IInv, NEW x \in Accounts, BeginOwnPassword(x) \/ (x \in Staff /\ BeginTenant(x))
  PROVE  IInv'
<1>1. x \in Actors
  BY DEF Actors
<1>2. PICK r \in {[NoRequest EXCEPT !.op = "password", !.on = x, !.at = clock],
                  [NoRequest EXCEPT !.op = "suspend", !.at = Instant("suspend")],
                  [NoRequest EXCEPT !.op = "resume", !.at = Instant("resume")]} :
        request' = [request EXCEPT ![x] = r]
  BY DEF BeginOwnPassword, BeginTenant
<1>3. UNCHANGED <<status, roles, since, token, tenant, clock>>
      /\ requests < MaxRequests /\ requests' = requests + 1
  BY DEF BeginOwnPassword, BeginTenant
<1>4. /\ r \in Request
      /\ r.op \in {"password", "suspend", "resume"} /\ (r.op = "password" => r.on = x)
  <2>1. /\ clock \in 0..MaxClock /\ 0 \in 0..MaxClock
        /\ Instant("suspend") \in 0..MaxClock /\ Instant("resume") \in 0..MaxClock
    BY AccountsAssumption DEF Instant, IInv, AccountsSound, TypeOK, AccountsAssumption
  <2> QED
    BY <2>1 DEF Request, NoRequest, Ops, Roles, Actors
<1>5. TypeOK'
  BY <1>1, <1>2, <1>3, <1>4, BeginTypes
<1>6. AuthorsBound'
  <2>1. \A y \in Actors : y # x => request'[y] = request[y]
    BY <1>1, <1>2 DEF IInv, AccountsSound, TypeOK
  <2>2. request'[x] = r
    BY <1>1, <1>2 DEF IInv, AccountsSound, TypeOK
  <2>3. x # Operator
    BY AccountsAssumption DEF AccountsAssumption
  <2>4. AuthorsBound
    BY DEF IInv
  <2> QED
    BY <1>4, <2>1, <2>2, <2>3, <2>4 DEF AuthorsBound, Realm, Accounts
<1> QED
  BY <1>3, <1>5, <1>6, RowsKept DEF IInv, AccountsSound

-----------------------------------------------------------------------------
(* Commits *)

\* How a commit leaves the requests: its own is over, another may have lost what it saw, or
\* its author.
LEMMA OthersKept ==
  ASSUME IInv, NEW x \in Actors, NEW a \in Actors, NEW gone \in SUBSET Roles,
         \/ Ends(x, request) \/ Ends(x, Overtake(x))
         \/ Ends(x, Without(gone, a))
         \/ Ends(x, Orphaned(a, Without(gone, a)))
  PROVE  /\ request' \in [Actors -> Request]
         /\ AuthorsBound'
         /\ request'[x] = NoRequest
<1> DEFINE Marked(r, s, o) == [r EXCEPT !.seen = s, !.overtaken = o]
           Close(r, y) == \/ r = request[y]
                          \/ \E s \in SUBSET Roles, o \in BOOLEAN : r = Marked(request[y], s, o)
<1>1. request \in [Actors -> Request]
  BY DEF IInv, AccountsSound, TypeOK, Request
<1>2. NoRequest \in Request
  BY AccountsAssumption DEF NoRequest, Request, Ops, Roles, Actors, AccountsAssumption
<1>3. ASSUME NEW y \in Actors, NEW s \in SUBSET Roles, NEW o \in BOOLEAN
      PROVE  Marked(request[y], s, o) \in Request
  <2>1. request[y] \in Request
    BY <1>1
  <2>2. [request[y] EXCEPT !.seen = s] \in Request
    BY <2>1 DEF Request
  <2>3. Marked(request[y], s, o) = [[request[y] EXCEPT !.seen = s] EXCEPT !.overtaken = o]
    BY <2>1 DEF Request
  <2> QED
    BY <2>2, <2>3 DEF Request
<1> DEFINE W == Without(gone, a)
           O == Orphaned(a, W)
           V == Overtake(x)
<1>4. W \in [Actors -> Request] /\ \A y \in Actors : Close(W[y], y)
  <2>1. ASSUME NEW y \in Actors
        PROVE  /\ [request[y] EXCEPT !.seen = @ \ gone]
                    = Marked(request[y], request[y].seen \ gone, request[y].overtaken)
               /\ request[y].seen \ gone \in SUBSET Roles /\ request[y].overtaken \in BOOLEAN
    BY <1>1 DEF Request
  <2>2. \A y \in Actors : W[y] = IF request[y].op = "role" /\ request[y].on = a
                                 THEN Marked(request[y], request[y].seen \ gone,
                                             request[y].overtaken)
                                 ELSE request[y]
    BY <2>1 DEF Without
  <2>3. ASSUME NEW y \in Actors PROVE W[y] \in Request /\ Close(W[y], y)
    <3> HIDE DEF Marked, W
    <3> QED
      BY <1>1, <1>3, <2>1, <2>2
  <2>4. W = [y \in Actors |-> W[y]]
    BY DEF Without
  <2> HIDE DEF W, Close
  <2> QED
    BY <2>3, <2>4
<1>5. V \in [Actors -> Request] /\ \A y \in Actors : Close(V[y], y)
  <2> DEFINE late(y) == request[y].overtaken \/ Revokes(request[y]) \cap Revokes(request[x]) # {}
  <2>1. ASSUME NEW y \in Actors
        PROVE  /\ V[y] = Marked(request[y], request[y].seen, late(y))
               /\ request[y].seen \in SUBSET Roles /\ late(y) \in BOOLEAN
    BY <1>1 DEF Request, Overtake
  <2>2. ASSUME NEW y \in Actors PROVE V[y] \in Request /\ Close(V[y], y)
    <3> HIDE DEF Marked, V, late
    <3> QED
      BY <1>3, <2>1
  <2>3. V = [y \in Actors |-> V[y]]
    BY DEF Overtake
  <2> HIDE DEF V, Close
  <2> QED
    BY <2>2, <2>3
<1>6. O \in [Actors -> Request] /\ \A y \in Actors : O[y] = W[y] \/ O[y] = NoRequest
  <2> HIDE DEF W
  <2> QED
    BY <1>2, <1>4 DEF Orphaned
<1> HIDE DEF W, O, V, Marked
<1>7. PICK f \in {request, W, O, V} : request' = [f EXCEPT ![x] = NoRequest]
  BY DEF Ends, W, O, V
<1>8. f \in [Actors -> Request]
  BY <1>1, <1>4, <1>5, <1>6
<1>9. request' \in [Actors -> Request] /\ request'[x] = NoRequest
      /\ \A y \in Actors : request'[y] = f[y] \/ request'[y] = NoRequest
  BY <1>2, <1>7, <1>8
<1>10. \A y \in Actors : request'[y] = NoRequest \/ Close(request'[y], y)
  <2> SUFFICES ASSUME NEW y \in Actors, request'[y] # NoRequest
               PROVE  Close(request'[y], y)
      OBVIOUS
  <2>1. request'[y] = request[y] \/ request'[y] = W[y] \/ request'[y] = V[y]
    BY <1>6, <1>9
  <2> QED
    BY <1>4, <1>5, <2>1
<1> QED
  BY <1>9, <1>10, AuthorsKept DEF Marked

\* A new account has its role, and on the tenant's side an address nobody has.
LEMMA CreateKeeps ==
  ASSUME IInv, NEW x \in Actors, NEW a \in Accounts, NEW to \in Roles, Create(x, a, to)
  PROVE  EveryAccountHasARole' /\ OneAccountPerAddress'
<1>1. status' = [status EXCEPT ![a] = "active"] /\ roles' = [roles EXCEPT ![a] = {to}]
      /\ ~Exists(a) /\ ~Clashes(a)
  BY DEF Create
<1>2. \A b \in Accounts : Exists(b)' <=> (b = a \/ Exists(b))
  BY <1>1 DEF Exists, IInv, AccountsSound, TypeOK
<1>3. EveryAccountHasARole'
  BY <1>1, <1>2 DEF IInv, AccountsSound, TypeOK, EveryAccountHasARole
<1>4. OneAccountPerAddress'
  BY <1>1, <1>2 DEF IInv, AccountsSound, OneAccountPerAddress, Clashes, Accounts
<1> QED
  BY <1>3, <1>4

\* A changed, disabled, enabled or renewed account stays one; a deleted one loses its roles.
LEMMA OthersKeepRows ==
  ASSUME IInv, NEW x \in Actors, NEW a \in Accounts, NEW to \in Roles,
         \/ ChangeRole(x, a, to)
         \/ Disable(x, a) \/ Enable(x, a) \/ SetPassword(x, a)
         \/ Delete(x, a)
  PROVE  EveryAccountHasARole' /\ OneAccountPerAddress'
<1>1. \A b \in Accounts : Exists(b)' => Exists(b)
  BY DEF ChangeRole, Disable, Enable, SetPassword, Delete, Exists, IInv, AccountsSound, TypeOK
<1>2. OneAccountPerAddress'
  BY <1>1 DEF IInv, AccountsSound, OneAccountPerAddress, Accounts
<1>3. EveryAccountHasARole'
  BY DEF ChangeRole, Disable, Enable, SetPassword, Delete, Exists, IInv, AccountsSound, TypeOK,
         EveryAccountHasARole
<1> QED
  BY <1>2, <1>3

\* Every effect stays within its types.
LEMMA EffectTypes ==
  ASSUME IInv, NEW x \in Actors, NEW a \in Accounts, NEW to \in Roles,
         \/ Create(x, a, to) \/ ChangeRole(x, a, to)
         \/ Disable(x, a) \/ Enable(x, a) \/ SetPassword(x, a)
         \/ Delete(x, a),
         UNCHANGED <<clock, requests>>
  PROVE  TypeOK' /\ AuthorsBound' /\ request'[x] = NoRequest
<1> USE AccountsAssumption DEF AccountsAssumption
<1>1. TypeOK
  BY DEF IInv, AccountsSound
<1>2. status' \in [Accounts -> {"none", "active", "disabled"}]
  BY <1>1 DEF TypeOK, Create, ChangeRole, Disable, Enable, SetPassword, Delete
<1>3. roles' \in [Accounts -> SUBSET Roles]
  BY <1>1 DEF TypeOK, Create, ChangeRole, Disable, Enable, SetPassword, Delete
<1>4. since' \in [Accounts -> 0..MaxClock]
  <2>1. request[x].at \in 0..MaxClock
    BY <1>1 DEF TypeOK
  <2> QED
    BY <1>1, <2>1 DEF TypeOK, Create, ChangeRole, Disable, Enable, SetPassword, Delete, Revoke
<1>5. token' \in [Accounts -> [at : -1..MaxClock, roles : SUBSET Roles]]
  <2>1. NoToken \in [at : -1..MaxClock, roles : SUBSET Roles]
    BY DEF NoToken
  <2>2. token' = token \/ token' = [token EXCEPT ![a] = NoToken]
    BY DEF Create, ChangeRole, Disable, Enable, SetPassword, Delete
  <2> QED
    BY <1>1, <2>1, <2>2 DEF TypeOK
<1>6. tenant' \in {"ACTIVE", "SUSPENDED"}
  BY <1>1 DEF TypeOK, Create, ChangeRole, Disable, Enable, SetPassword, Delete
<1>7. \E gone \in SUBSET Roles :
        \/ Ends(x, request) \/ Ends(x, Overtake(x))
        \/ Ends(x, Without(gone, a))
        \/ Ends(x, Orphaned(a, Without(gone, a)))
  <2>1. request[x].seen \in SUBSET Roles /\ roles[a] \in SUBSET Roles
    BY <1>1 DEF TypeOK
  <2>2. CASE ChangeRole(x, a, to)
    BY <2>1, <2>2 DEF ChangeRole
  <2>3. CASE Delete(x, a)
    BY <2>1, <2>3 DEF Delete
  <2> QED
    BY <2>1, <2>2, <2>3 DEF Create, Disable, Enable, SetPassword, Revoke
<1>8. /\ request' \in [Actors -> Request]
      /\ AuthorsBound' /\ request'[x] = NoRequest
  BY <1>7, OthersKept DEF Actors
<1> QED
  BY <1>1, <1>2, <1>3, <1>4, <1>5, <1>6, <1>8 DEF TypeOK, Request

\* Suspending a tenant touches no account's row but its revocation time; it needs none.
LEMMA TenantTypes ==
  ASSUME IInv, NEW x \in Actors, SetTenant(x), UNCHANGED <<clock, requests>>
  PROVE  TypeOK' /\ AuthorsBound' /\ request'[x] = NoRequest
<1>1. request \in [Actors -> Request]
  BY DEF IInv, AccountsSound, TypeOK, Request
<1>2. Ends(x, Overtake(x))
  BY DEF SetTenant, Revoke
<1>3. request' \in [Actors -> Request] /\ request'[x] = NoRequest /\ AuthorsBound'
  BY <1>2, OthersKept
<1>5. since' \in [Accounts -> 0..MaxClock]
  BY <1>1 DEF SetTenant, Revoke, IInv, AccountsSound, TypeOK, Request
<1>6. tenant' \in {"ACTIVE", "SUSPENDED"} /\ UNCHANGED <<status, roles, token>>
  BY DEF SetTenant
<1>7. TypeOK'
  BY <1>3, <1>5, <1>6 DEF IInv, AccountsSound, TypeOK, Request
<1> QED
  BY <1>3, <1>7

\* Of the requests on accounts, each has an account to act on; the tenant's have none.
LEMMA CommitSplits ==
  ASSUME IInv, NEW x \in Actors, Commit(x)
  PROVE  \/ /\ request[x].on \in Accounts /\ request[x].to \in Roles
            /\ \/ Create(x, request[x].on, request[x].to)
               \/ request[x].op = "role" /\ ChangeRole(x, request[x].on, request[x].to)
               \/ request[x].op = "disable" /\ Disable(x, request[x].on)
               \/ Enable(x, request[x].on) \/ SetPassword(x, request[x].on)
               \/ request[x].op = "delete" /\ Delete(x, request[x].on)
         \/ SetTenant(x)
BY DEF Commit, Effect, IInv, AuthorsBound, AccountsSound, TypeOK

\* A commit keeps the invariant.
LEMMA CommitKeeps ==
  ASSUME IInv, NEW x \in Actors, Commit(x)
  PROVE  IInv'
<1> DEFINE a == request[x].on
           to == request[x].to
<1>1. UNCHANGED <<clock, requests>>
  BY DEF Commit
<1>2. CASE SetTenant(x)
  BY <1>1, <1>2, TenantTypes, RowsKept DEF SetTenant, IInv, AccountsSound
<1>3. CASE /\ a \in Accounts /\ to \in Roles
           /\ \/ Create(x, a, to) \/ ChangeRole(x, a, to)
              \/ Disable(x, a) \/ Enable(x, a) \/ SetPassword(x, a)
              \/ Delete(x, a)
  <2> HIDE DEF a, to
  <2>1. TypeOK' /\ AuthorsBound'
    BY <1>1, <1>3, EffectTypes
  <2>2. EveryAccountHasARole' /\ OneAccountPerAddress'
    BY <1>3, CreateKeeps, OthersKeepRows
  <2> QED
    BY <2>1, <2>2 DEF IInv, AccountsSound
<1> QED
  BY <1>2, <1>3, CommitSplits

\* A request that rolls back writes nothing.
LEMMA RollBackKeeps ==
  ASSUME IInv, NEW x \in Actors, RollBack(x)
  PROVE  IInv'
<1>1. request \in [Actors -> Request] /\ NoRequest \in Request
  BY AccountsAssumption
     DEF AccountsAssumption, IInv, AccountsSound, TypeOK, Request, NoRequest, Ops, Roles, Actors
<1>2. request' = [request EXCEPT ![x] = NoRequest]
      /\ UNCHANGED <<status, roles, since, token, tenant, clock, requests>>
  BY DEF RollBack, Ends
<1>3. request' \in [Actors -> Request]
      /\ \A y \in Actors : request'[y] = request[y] \/ request'[y] = NoRequest
  BY <1>1, <1>2
<1>4. AuthorsBound'
  BY <1>3, AuthorsKept
<1>5. TypeOK'
  BY <1>2, <1>3 DEF IInv, AccountsSound, TypeOK, Request
<1> QED
  BY <1>2, <1>4, <1>5, RowsKept DEF IInv, AccountsSound

\* Every step keeps the invariant.
LEMMA NextInv == IInv /\ [Next]_vars => IInv'
<1> SUFFICES ASSUME IInv, [Next]_vars PROVE IInv'
    OBVIOUS
<1>1. ASSUME NEW a \in Accounts, Login(a) \/ Refresh(a) \/ BeginOwnPassword(a) PROVE IInv'
  BY <1>1, SignInKeeps, BeginOwnKeeps
<1>2. ASSUME NEW x \in Staff, BeginTenant(x) PROVE IInv'
  BY <1>2, BeginOwnKeeps DEF Accounts
<1>3. ASSUME NEW x \in Actors, Begin(x) PROVE IInv'
  BY <1>3, BeginKeeps
<1>4. ASSUME NEW x \in Actors, Commit(x) PROVE IInv'
  BY <1>4, CommitKeeps
<1>5. ASSUME NEW x \in Actors, RollBack(x) PROVE IInv'
  BY <1>5, RollBackKeeps
<1>6. CASE Tick
  BY <1>6, TickKeeps
<1>7. CASE UNCHANGED vars
  BY <1>7 DEF vars, IInv, AccountsSound, TypeOK, EveryAccountHasARole, OneAccountPerAddress,
              Exists, AuthorsBound
<1> QED
  BY <1>1, <1>2, <1>3, <1>4, <1>5, <1>6, <1>7 DEF Next

\* The rows of accounts keep their types, a role each and an address each, whichever
\* administrative requests overlap (admin.py, platform.py, uq_users_tenant_email).
THEOREM AccountsCorrect == Spec => []AccountsSound
<1>1. Init => IInv
  BY InitInv
<1>2. IInv /\ [Next]_vars => IInv'
  BY NextInv
<1>3. IInv => AccountsSound
  BY DEF IInv
<1> QED
  BY <1>1, <1>2, <1>3, PTL DEF Spec

-----------------------------------------------------------------------------
(* Revocation *)

\* The instants of revocations lie in the past, and one that no other overtook lies at or
\* after the one its account has.
InstantsOrdered ==
  /\ \A a \in Accounts : since[a] <= clock
  /\ \A x \in Actors :
       /\ request[x].at <= clock
       /\ ~request[x].overtaken =>
            \A a \in Accounts : a \in Revokes(request[x]) => since[a] <= request[x].at

\* Requests that end or change nothing but what they saw or who overtook them stay ordered.
LEMMA OrderKept ==
  ASSUME IInv, InstantsOrdered, clock' = clock \/ clock' = clock + 1,
         \A a \in Accounts : since'[a] \in Int /\ since'[a] <= clock,
         \A y \in Actors :
           \/ request'[y] = NoRequest
           \/ /\ request'[y].at = request[y].at /\ request'[y].op = request[y].op
              /\ request'[y].on = request[y].on
              /\ ~request'[y].overtaken =>
                   /\ ~request[y].overtaken
                   /\ \A a \in Accounts : a \in Revokes(request[y]) => since'[a] <= since[a]
  PROVE  InstantsOrdered'
<1>1. /\ clock \in Nat /\ since \in [Accounts -> Int] /\ \A x \in Actors : request[x].at \in Nat
      /\ NoRequest.at = 0 /\ Revokes(NoRequest) = {}
  BY AccountsAssumption
     DEF IInv, AccountsSound, TypeOK, AccountsAssumption, NoRequest, Revokes, Revocations
<1>2. ASSUME NEW y \in Actors, request'[y] # NoRequest
      PROVE  Revokes(request[y])' = Revokes(request[y])
  BY <1>2 DEF Revokes
<1>3. \A a \in Accounts : since'[a] <= clock'
  BY <1>1 DEF IInv, AccountsSound, TypeOK
<1>4. ASSUME NEW y \in Actors
      PROVE  /\ request'[y].at <= clock'
             /\ ~request'[y].overtaken =>
                  \A a \in Accounts : a \in Revokes(request'[y]) => since'[a] <= request'[y].at
  <2>1. CASE request'[y] = NoRequest
    BY <1>1, <2>1
  <2>2. CASE request'[y] # NoRequest
    <3>1. request'[y].at <= clock'
      BY <1>1, <2>2 DEF InstantsOrdered
    <3>2. ASSUME ~request'[y].overtaken, NEW a \in Accounts, a \in Revokes(request'[y])
          PROVE  since'[a] <= request'[y].at
      <4>1. /\ a \in Revokes(request[y]) /\ ~request[y].overtaken
            /\ since'[a] <= since[a] /\ request'[y].at = request[y].at
        BY <1>2, <2>2, <3>2
      <4>2. since[a] <= request[y].at /\ since[a] \in Int /\ since'[a] \in Int
        BY <1>1, <4>1 DEF InstantsOrdered
      <4> QED
        BY <1>1, <4>1, <4>2
    <3> QED
      BY <3>1, <3>2
  <2> QED
    BY <2>1, <2>2
<1> QED
  BY <1>3, <1>4 DEF InstantsOrdered

\* A request begins: if it revokes, its instant is now.
LEMMA BeginOrder ==
  ASSUME IInv, InstantsOrdered, NEW x \in Actors, NEW r \in Request,
         request' = [request EXCEPT ![x] = r], r.at = Instant(r.op), r.overtaken = FALSE,
         UNCHANGED <<since, clock>>
  PROVE  InstantsOrdered'
<1>1. /\ clock \in Nat /\ since \in [Accounts -> Int] /\ request \in [Actors -> Request]
  BY AccountsAssumption DEF IInv, AccountsSound, TypeOK, AccountsAssumption, Request
<1>2. r.at <= clock /\ \A a \in Accounts : a \in Revokes(r) => since[a] <= r.at
  BY <1>1 DEF InstantsOrdered, Instant, Revokes, Revocations
<1>3. request'[x] = r /\ \A y \in Actors : y # x => request'[y] = request[y]
  BY <1>1
<1> QED
  BY <1>2, <1>3 DEF InstantsOrdered, Revokes

\* The steps that begin a request.
LEMMA BeginsOrdered ==
  ASSUME IInv, InstantsOrdered, NEW x \in Actors,
         Begin(x) \/ (x \in Accounts /\ BeginOwnPassword(x)) \/ (x \in Staff /\ BeginTenant(x))
  PROVE  InstantsOrdered'
<1>1. UNCHANGED <<since, clock>>
  BY DEF Begin, BeginOwnPassword, BeginTenant
<1>2. clock \in 0..MaxClock /\ 0 \in 0..MaxClock /\ \A op \in Ops : Instant(op) \in 0..MaxClock
  BY AccountsAssumption DEF Instant, IInv, AccountsSound, TypeOK, AccountsAssumption
<1>3. \E r \in Request : /\ request' = [request EXCEPT ![x] = r]
                         /\ r.at = Instant(r.op) /\ r.overtaken = FALSE
  <2>1. CASE Begin(x)
    <3>1. PICK op \in {"create", "role", "disable", "enable", "password", "delete"},
               a \in Accounts, to \in Roles :
            request' = [request EXCEPT ![x] =
                          [op |-> op, on |-> a, to |-> to,
                           seen |-> IF op = "role" THEN roles[a] ELSE {},
                           at |-> Instant(op), overtaken |-> FALSE]]
      BY <2>1 DEF Begin
    <3> DEFINE r == [op |-> op, on |-> a, to |-> to,
                     seen |-> IF op = "role" THEN roles[a] ELSE {},
                     at |-> Instant(op), overtaken |-> FALSE]
    <3>2. r \in Request /\ r.at = Instant(r.op) /\ r.overtaken = FALSE
      BY <1>2 DEF Request, Ops, Actors, IInv, AccountsSound, TypeOK
    <3> HIDE DEF r
    <3>3. request' = [request EXCEPT ![x] = r]
      BY <3>1 DEF r
    <3> QED
      BY <3>2, <3>3
  <2>2. CASE x \in Accounts /\ BeginOwnPassword(x)
    <3> DEFINE r == [NoRequest EXCEPT !.op = "password", !.on = x, !.at = clock]
    <3>1. r \in Request /\ r.at = Instant(r.op) /\ r.overtaken = FALSE
      BY <1>2 DEF Request, NoRequest, Ops, Roles, Actors, Instant, Revocations
    <3>2. request' = [request EXCEPT ![x] = r]
      BY <2>2 DEF BeginOwnPassword
    <3> HIDE DEF r
    <3> QED
      BY <3>1, <3>2
  <2>3. CASE x \in Staff /\ BeginTenant(x)
    <3>1. PICK op \in {"suspend", "resume"} :
            request' = [request EXCEPT ![x] = [NoRequest EXCEPT !.op = op, !.at = Instant(op)]]
      BY <2>3 DEF BeginTenant
    <3> DEFINE r == [NoRequest EXCEPT !.op = op, !.at = Instant(op)]
    <3>2. r \in Request /\ r.at = Instant(r.op) /\ r.overtaken = FALSE
      BY <1>2 DEF Request, NoRequest, Ops, Roles, Actors
    <3> HIDE DEF r
    <3>3. request' = [request EXCEPT ![x] = r]
      BY <3>1 DEF r
    <3> QED
      BY <3>2, <3>3
  <2> QED
    BY <2>1, <2>2, <2>3
<1> QED
  BY <1>1, <1>3, BeginOrder

\* A revocation puts the instant of its request, and every other one in flight for the same
\* account is overtaken.
LEMMA RevokeOrders ==
  ASSUME IInv, InstantsOrdered, NEW x \in Actors, Revoke(x), UNCHANGED clock
  PROVE  InstantsOrdered' /\ request'[x] = NoRequest
<1>1. request \in [Actors -> Request] /\ since \in [Accounts -> Int]
      /\ \A y \in Actors : request[y].at \in Int
  BY AccountsAssumption DEF IInv, AccountsSound, TypeOK, Request, AccountsAssumption
<1>2. \A a \in Accounts : since'[a] = IF a \in Revokes(request[x]) /\ Exists(a)
                                      THEN request[x].at ELSE since[a]
  BY DEF Revoke
<1>3. \A a \in Accounts : since'[a] \in Int /\ since'[a] <= clock
  BY <1>1, <1>2 DEF InstantsOrdered
<1> DEFINE V == Overtake(x)
<1>4. ASSUME NEW y \in Actors
      PROVE  /\ V[y].at = request[y].at /\ V[y].op = request[y].op /\ V[y].on = request[y].on
             /\ V[y].overtaken <=> \/ request[y].overtaken
                                   \/ Revokes(request[y]) \cap Revokes(request[x]) # {}
  <2>1. V[y] = [request[y] EXCEPT !.overtaken =
                   request[y].overtaken \/ Revokes(request[y]) \cap Revokes(request[x]) # {}]
    BY DEF Overtake
  <2>2. request[y] \in Request
    BY <1>1
  <2> HIDE DEF V
  <2> QED
    BY <2>1, <2>2 DEF Request
<1>5. request'[x] = NoRequest /\ \A y \in Actors : y # x => request'[y] = V[y]
  <2>1. V = [y \in Actors |-> V[y]]
    BY DEF Overtake
  <2>2. request' = [V EXCEPT ![x] = NoRequest]
    BY DEF Revoke, Ends
  <2> HIDE DEF V
  <2> QED
    BY <2>1, <2>2
<1> HIDE DEF V
<1>6. ASSUME NEW y \in Actors
      PROVE  \/ request'[y] = NoRequest
             \/ /\ request'[y].at = request[y].at /\ request'[y].op = request[y].op
                /\ request'[y].on = request[y].on
                /\ ~request'[y].overtaken =>
                     /\ ~request[y].overtaken
                     /\ \A a \in Accounts : a \in Revokes(request[y]) => since'[a] <= since[a]
  <2>1. CASE y = x
    BY <1>5, <2>1
  <2>2. CASE y # x
    <3>1. ASSUME ~V[y].overtaken, NEW a \in Accounts, a \in Revokes(request[y])
          PROVE  since'[a] = since[a]
      BY <1>2, <1>4, <3>1
    <3>2. \A a \in Accounts : since[a] <= since[a]
      BY <1>1
    <3> QED
      BY <1>4, <1>5, <2>2, <3>1, <3>2
  <2> QED
    BY <2>1, <2>2
<1> QED
  BY <1>3, <1>5, <1>6, OrderKept

\* A commit that revokes nothing moves no instant, except that a deleted account has none.
LEMMA CommitOrders ==
  ASSUME IInv, InstantsOrdered, NEW x \in Actors, Commit(x)
  PROVE  InstantsOrdered'
<1>1. request \in [Actors -> Request] /\ since \in [Accounts -> Int] /\ clock \in Nat
      /\ \A a \in Accounts : since[a] >= 0
  BY AccountsAssumption DEF IInv, AccountsSound, TypeOK, Request, AccountsAssumption
<1>2. UNCHANGED clock
  BY DEF Commit
<1> DEFINE a == request[x].on
           to == request[x].to
<1>3. CASE Revoke(x)
  BY <1>2, <1>3, RevokeOrders
<1>4. CASE /\ a \in Accounts /\ to \in Roles
           /\ Create(x, a, to) \/ ChangeRole(x, a, to) \/ Enable(x, a) \/ Delete(x, a)
  <2> HIDE DEF a, to
  <2>1. \A b \in Accounts : since'[b] \in Int /\ since'[b] <= since[b]
    BY <1>1, <1>4 DEF Create, ChangeRole, Enable, Delete
  <2>2. \E gone \in SUBSET Roles :
          Ends(x, request) \/ Ends(x, Without(gone, a)) \/ Ends(x, Orphaned(a, Without(gone, a)))
    <3>1. request[x].seen \in SUBSET Roles /\ roles[a] \in SUBSET Roles
      BY <1>1, <1>4 DEF Request, IInv, AccountsSound, TypeOK
    <3> QED
      BY <1>4, <3>1 DEF Create, ChangeRole, Enable, Delete
  <2>3. PICK gone \in SUBSET Roles :
          Ends(x, request) \/ Ends(x, Without(gone, a)) \/ Ends(x, Orphaned(a, Without(gone, a)))
    BY <2>2
  <2> DEFINE W == Without(gone, a)
             O == Orphaned(a, W)
  <2>4. ASSUME NEW y \in Actors
        PROVE  /\ W[y].at = request[y].at /\ W[y].op = request[y].op /\ W[y].on = request[y].on
               /\ W[y].overtaken = request[y].overtaken
    <3>1. W[y] = IF request[y].op = "role" /\ request[y].on = a
                 THEN [request[y] EXCEPT !.seen = @ \ gone] ELSE request[y]
      BY DEF Without
    <3>2. request[y] \in Request
      BY <1>1
    <3> HIDE DEF W
    <3> QED
      BY <3>1, <3>2 DEF Request
  <2>5. W = [y \in Actors |-> W[y]]
    BY DEF Without
  <2>6. O = [W EXCEPT ![a] = NoRequest]
    BY DEF Orphaned
  <2>7. \/ request' = [request EXCEPT ![x] = NoRequest] \/ request' = [W EXCEPT ![x] = NoRequest]
        \/ request' = [O EXCEPT ![x] = NoRequest]
    BY <2>3 DEF Ends
  <2> HIDE DEF W, O
  <2>8. ASSUME NEW y \in Actors
        PROVE  request'[y] = NoRequest \/ request'[y] = request[y] \/ request'[y] = W[y]
    BY <1>1, <2>5, <2>6, <2>7
  <2> QED
    <3>1. \A b \in Accounts : since'[b] <= clock
      BY <1>1, <2>1 DEF InstantsOrdered
    <3>2. ASSUME NEW y \in Actors
          PROVE  \/ request'[y] = NoRequest
                 \/ /\ request'[y].at = request[y].at /\ request'[y].op = request[y].op
                    /\ request'[y].on = request[y].on
                    /\ ~request'[y].overtaken =>
                         /\ ~request[y].overtaken
                         /\ \A b \in Accounts : b \in Revokes(request[y]) => since'[b] <= since[b]
      BY <2>1, <2>4, <2>8
    <3> QED
      BY <1>2, <2>1, <3>1, <3>2, OrderKept
<1> QED
  BY <1>3, <1>4, CommitSplits DEF SetTenant, Disable, SetPassword

\* Every step keeps the instants in order.
LEMMA NextOrders == IInv /\ InstantsOrdered /\ [Next]_vars => InstantsOrdered'
<1> SUFFICES ASSUME IInv, InstantsOrdered, [Next]_vars PROVE InstantsOrdered'
    OBVIOUS
<1>1. ASSUME UNCHANGED since, clock' = clock \/ clock' = clock + 1,
             \A y \in Actors : request'[y] = request[y] \/ request'[y] = NoRequest
      PROVE  InstantsOrdered'
  <2>1. \A a \in Accounts : since'[a] \in Int /\ since'[a] <= clock /\ since'[a] <= since[a]
    BY <1>1, AccountsAssumption
       DEF InstantsOrdered, IInv, AccountsSound, TypeOK, AccountsAssumption
  <2> QED
    BY <1>1, <2>1, OrderKept
<1>2. ASSUME NEW a \in Accounts, Login(a) \/ Refresh(a) PROVE InstantsOrdered'
  BY <1>1, <1>2 DEF Login, Refresh
<1>3. ASSUME NEW x \in Actors, RollBack(x) PROVE InstantsOrdered'
  <2>1. request \in [Actors -> Request]
    BY DEF IInv, AccountsSound, TypeOK, Request
  <2>2. request' = [request EXCEPT ![x] = NoRequest] /\ UNCHANGED <<since, clock>>
    BY <1>3 DEF RollBack, Ends
  <2>3. \A y \in Actors : request'[y] = request[y] \/ request'[y] = NoRequest
    BY <2>1, <2>2
  <2> QED
    BY <1>1, <2>2, <2>3
<1>4. CASE Tick \/ UNCHANGED vars
  BY <1>1, <1>4 DEF Tick, vars
<1>5. ASSUME NEW a \in Accounts, BeginOwnPassword(a) PROVE InstantsOrdered'
  BY <1>5, BeginsOrdered DEF Actors
<1>6. ASSUME NEW x \in Staff, BeginTenant(x) PROVE InstantsOrdered'
  BY <1>6, BeginsOrdered DEF Actors, Accounts
<1> QED
  BY <1>2, <1>3, <1>4, <1>5, <1>6, BeginsOrdered, CommitOrders DEF Next

\* A session that a revocation has ended comes back only refreshed, or when a revocation that
\* another one overtook moves the instant back.
ReturnsOnlyOvertaken ==
  \A a \in Accounts :
    token[a] # NoToken /\ token[a].at < since[a] /\ Admitted(a)' =>
      \/ token'[a] # token[a]
      \/ \E x \in Actors :
           /\ a \in Revokes(request[x]) /\ request[x].overtaken
           /\ request'[x] = NoRequest

\* An admitted session lies at or after its account's instant, so that the instant has moved.
LEMMA ReturnSteps ==
  ASSUME IInv, InstantsOrdered, [Next]_vars
  PROVE  ReturnsOnlyOvertaken
<1> SUFFICES ASSUME NEW a \in Accounts, token[a].at < since[a], Admitted(a)', token'[a] = token[a]
             PROVE  \E x \in Actors :
                      /\ a \in Revokes(request[x]) /\ request[x].overtaken
                      /\ request'[x] = NoRequest
    BY DEF ReturnsOnlyOvertaken
<1>1. token[a].at \in Int /\ since \in [Accounts -> 0..MaxClock]
      /\ \A x \in Actors : request[x].at \in Int /\ request[x].at >= 0
  BY AccountsAssumption DEF IInv, AccountsSound, TypeOK, AccountsAssumption
<1>2. IInv'
  BY NextInv
<1>3. since'[a] \in Int /\ since[a] \in Int
  BY <1>1, <1>2, AccountsAssumption DEF IInv, AccountsSound, TypeOK, AccountsAssumption
<1>4. since'[a] < since[a]
  <2>1. \A n \in Int : 2 * (n \div 2) <= n
    OBVIOUS
  <2>2. 2 * (token[a].at \div 2) >= since'[a]
    BY DEF Admitted, IssuedAt
  <2> QED
    BY <1>1, <1>3, <2>1, <2>2
<1>5. since'[a] # since[a]
  BY <1>3, <1>4
<1>6. PICK x \in Actors : Commit(x)
  BY <1>5 DEF Next, vars, Login, Refresh, BeginOwnPassword, BeginTenant, Begin, RollBack, Tick
<1>7. Revoke(x)
  <2>1. ASSUME NEW b \in Accounts, Delete(x, b) PROVE FALSE
    <3>1. b = a
      BY <1>5, <2>1, <1>1 DEF Delete
    <3>2. token'[a] = NoToken
      BY <2>1, <3>1 DEF Delete, IInv, AccountsSound, TypeOK
    <3> QED
      BY <3>2 DEF Admitted
  <2> QED
    BY <1>5, <1>6, <2>1, CommitSplits
       DEF SetTenant, Disable, SetPassword, Create, ChangeRole, Enable
<1>8. a \in Revokes(request[x]) /\ since'[a] = request[x].at
  BY <1>5, <1>7 DEF Revoke
<1>9. request[x].overtaken
  BY <1>1, <1>3, <1>4, <1>8 DEF InstantsOrdered
<1>10. request'[x] = NoRequest
  BY <1>6, <1>7, RevokeOrders DEF Commit
<1> QED
  BY <1>8, <1>9, <1>10

\* A session issued before a disable, a password change or a suspension is not admitted again
\* by any later step, but for a refresh, which does not read tokens_valid_from, and for an
\* overtaken revocation (get_principal compares the token's whole second with that instant).
THEOREM RevocationLasts == Spec => RevokedStaysOut
<1>1. Init => IInv /\ InstantsOrdered
  <2>1. ASSUME Init PROVE InstantsOrdered
    BY <2>1 DEF Init, InstantsOrdered, NoRequest, Revokes, Revocations
  <2> QED
    BY <2>1, InitInv
<1>2. IInv /\ InstantsOrdered /\ [Next]_vars => (IInv /\ InstantsOrdered)'
  BY NextInv, NextOrders
<1>3. IInv /\ InstantsOrdered /\ [Next]_vars => [ReturnsOnlyOvertaken]_vars
  BY ReturnSteps
<1>4. Spec => [][ReturnsOnlyOvertaken]_vars
  BY <1>1, <1>2, <1>3, PTL DEF Spec
<1> QED
  BY <1>4 DEF ReturnsOnlyOvertaken, RevokedStaysOut

-----------------------------------------------------------------------------
(* Locking out *)

Deserted(realm) == Governed(realm) /\ ~Governed(realm)'

\* Who administered the realm and no longer does is the account the commit was about, and
\* nobody else is left.
LEMMA OnlyTheSubject ==
  ASSUME NEW realm \in {Staff, Members}, Deserted(realm), NEW a \in Accounts,
         \A b \in Accounts : b # a => (Administers(b) => Administers(b)')
  PROVE  /\ a \in realm /\ ~Administers(a)'
         /\ \A b \in realm : Administers(b) => b = a
BY DEF Deserted, Governed, Administers, Accounts

\* A commit that takes the last administrator has an author that no longer administers, or
\* is a tenant's administrator changing its own role.
LEMMA DesertedByCommit ==
  ASSUME IInv, NEW x \in Actors, Commit(x), NEW realm \in {Staff, Members}, Deserted(realm)
  PROVE  \/ ~Administers(x)
         \/ x \in Members /\ request[x].op = "role" /\ request[x].on = x
<1> SUFFICES ASSUME Administers(x)
             PROVE  x \in Members /\ request[x].op = "role" /\ request[x].on = x
    OBVIOUS
<1>1. PICK a \in Accounts, to \in Roles :
      /\ request[x].on = a /\ request[x].to = to
      /\ \/ Create(x, a, to)
         \/ request[x].op = "role" /\ ChangeRole(x, a, to)
         \/ request[x].op = "disable" /\ Disable(x, a)
         \/ Enable(x, a) \/ SetPassword(x, a)
         \/ request[x].op = "delete" /\ Delete(x, a)
  <2>1. ~SetTenant(x)
    BY DEF Deserted, Governed, Administers, SetTenant
  <2> QED
    BY <2>1, CommitSplits
<1>2. \A b \in Accounts : b # a => (Administers(b) => Administers(b)')
  BY <1>1 DEF Administers, Create, ChangeRole, Disable, Enable, SetPassword, Delete, IInv,
              AccountsSound, TypeOK
<1>3. /\ a \in realm /\ ~Administers(a)' /\ Administers(a)
      /\ \A b \in realm : Administers(b) => b = a
  <2>2. /\ a \in realm /\ ~Administers(a)'
        /\ \A b \in realm : Administers(b) => b = a
    BY <1>2, OnlyTheSubject
  <2>3. \E b \in realm : Administers(b)
    BY DEF Deserted, Governed
  <2> QED
    BY <2>2, <2>3
<1>4. /\ x \in Accounts
      /\ request[x].op \in {"role", "disable", "delete"} => a \in Realm(x)
      /\ request[x].op \in {"disable", "delete"} => a # x
      /\ x \in Staff /\ request[x].op = "role" /\ a = x => to = "admin"
  BY <1>1 DEF Administers, IInv, AuthorsBound
<1>5. request[x].op \in {"role", "disable", "delete"} => a = x
  BY <1>3, <1>4, AccountsAssumption DEF Realm, Accounts, AccountsAssumption
<1>6. CASE request[x].op = "role" /\ ChangeRole(x, a, to)
  <2>1. x \notin Staff
    <3> SUFFICES ASSUME x \in Staff PROVE FALSE
        OBVIOUS
    <3>1. a = x /\ to = "admin"
      BY <1>4, <1>5, <1>6
    <3>2. "admin" \in roles'[a] /\ status'[a] = status[a]
      BY <1>1, <1>6, <3>1 DEF ChangeRole, IInv, AccountsSound, TypeOK
    <3> QED
      BY <1>1, <1>3, <3>2 DEF Administers
  <2> QED
    BY <1>1, <1>4, <1>5, <1>6, <2>1 DEF Accounts
<1>7. CASE (request[x].op = "disable" /\ Disable(x, a)) \/ (request[x].op = "delete" /\ Delete(x, a))
  BY <1>4, <1>5, <1>7
<1>8. CASE Create(x, a, to) \/ Enable(x, a) \/ SetPassword(x, a)
  <2>1. status[a] = "active" /\ "admin" \in roles[a]
    BY <1>3 DEF Administers
  <2>2. ~Create(x, a, to)
    BY <2>1 DEF Create, Exists
  <2>3. status'[a] = "active" /\ roles' = roles
    BY <1>1, <1>8, <2>1, <2>2 DEF Enable, SetPassword, IInv, AccountsSound, TypeOK
  <2> QED
    BY <1>1, <1>3, <2>1, <2>3 DEF Administers
<1> QED
  BY <1>1, <1>6, <1>7, <1>8

\* Every step but a commit leaves who administers as it was.
LEMMA DesertedStep ==
  ASSUME IInv, [Next]_vars, NEW realm \in {Staff, Members}, Deserted(realm)
  PROVE  \E x \in Actors :
           /\ request[x] # NoRequest /\ request'[x] = NoRequest
           /\ \/ ~Administers(x)
              \/ x \in Members /\ request[x].op = "role" /\ request[x].on = x
<1>1. <<status, roles>>' # <<status, roles>>
  BY DEF Deserted, Governed, Administers
<1>2. PICK x \in Actors : Commit(x)
  BY <1>1 DEF Next, vars, Login, Refresh, BeginOwnPassword, BeginTenant, Begin, RollBack, Tick
<1>3. request[x] # NoRequest
  BY <1>2 DEF Commit
<1>4. request'[x] = NoRequest
  <2>1. ~SetTenant(x)
    BY <1>1 DEF SetTenant
  <2> DEFINE a == request[x].on
             to == request[x].to
  <2>2. /\ a \in Accounts /\ to \in Roles
        /\ \/ Create(x, a, to) \/ ChangeRole(x, a, to)
           \/ Disable(x, a) \/ Enable(x, a) \/ SetPassword(x, a)
           \/ Delete(x, a)
    BY <1>2, <2>1, CommitSplits
  <2>3. UNCHANGED <<clock, requests>>
    BY <1>2 DEF Commit
  <2> HIDE DEF a, to
  <2> QED
    BY <2>2, <2>3, EffectTypes
<1> QED
  BY <1>2, <1>3, <1>4, DesertedByCommit

\* A realm loses its last administrator only by an author who had ceased to be one, or by a
\* tenant's administrator giving its own role up (the handlers' guards on the caller).
THEOREM LockoutIsStale == Spec => LockoutNeedsStaleAuthor
<1>1. Init => IInv
  BY InitInv
<1>2. IInv /\ [Next]_vars => IInv'
  BY NextInv
<1> DEFINE NoLockout ==
      \A realm \in {Staff, Members} :
        Governed(realm) /\ ~Governed(realm)' =>
          \E x \in Actors :
            /\ request[x] # NoRequest /\ request'[x] = NoRequest
            /\ \/ ~Administers(x)
               \/ x \in Members /\ request[x].op = "role" /\ request[x].on = x
<1>3. IInv /\ [Next]_vars => [NoLockout]_vars
  BY DesertedStep DEF Deserted
<1> HIDE DEF NoLockout
<1>4. Spec => [][NoLockout]_vars
  BY <1>1, <1>2, <1>3, PTL DEF Spec
<1> QED
  BY <1>4 DEF NoLockout, LockoutNeedsStaleAuthor
=============================================================================
