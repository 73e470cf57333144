------------------------------ MODULE Accounts ------------------------------
(***************************************************************************)
(* The accounts of the configuration API: platform staff and the users of  *)
(* one tenant (api/v1/admin.py, api/v1/platform.py, cli.py create-user),   *)
(* their sign-in, refresh and revocation (auth_service.py, security.py)    *)
(* and the check of every request (core/dependencies.py).                  *)
(*                                                                         *)
(* An administrative request is two steps.  Begin is the request up to its *)
(* first write: the caller is admitted, the guards are evaluated on the    *)
(* rows as they are read.  Commit makes its writes visible, subject to the *)
(* constraints of the tables.  PostgreSQL runs READ COMMITTED, so requests *)
(* of different administrators overlap freely between the two.             *)
(*                                                                         *)
(* An account keeps its latest token pair only, and expiry, which only     *)
(* takes admissions away, is left out.  A request changes one field.       *)
(***************************************************************************)
EXTENDS Integers, FiniteSets

CONSTANTS Staff,        \* platform accounts, belonging to no tenant
          Members,      \* accounts of the tenant
          Operator,     \* whoever runs the command line
          MailOf,       \* the address each account has or would be given
          First,        \* the accounts that exist at the start
          MaxClock,     \* bound: half seconds that pass
          MaxRequests   \* bound: administrative requests

Accounts == Staff \cup Members
Actors   == Accounts \cup {Operator}

ASSUME AccountsAssumption ==
  /\ Staff \cap Members = {} /\ Operator \notin Accounts
  /\ First \subseteq Accounts
  /\ DOMAIN MailOf = Accounts
  /\ \A a, b \in First : a # b => MailOf[a] # MailOf[b]
  /\ MaxClock \in Nat /\ MaxRequests \in Nat

NoToken   == [at |-> -1, roles |-> {}]
NoRequest == [op |-> "none", on |-> Operator, to |-> "other", seen |-> {},
              at |-> 0, overtaken |-> FALSE]

\* SUPER_ADMIN or TENANT_ADMIN, and any role without the right to manage accounts.
Roles == {"admin", "other"}
Ops   == {"none", "create", "role", "disable", "enable", "password", "delete",
          "suspend", "resume"}
Revocations == {"disable", "password", "suspend"}

VARIABLES
  status,    \* "none", "active" or "disabled"
  roles,     \* the user_roles rows of each account
  since,     \* users.tokens_valid_from, 0 when null
  token,     \* the latest pair issued to the account
  request,   \* the administrative request each actor has in flight
  tenant,    \* tenants.status
  clock,     \* half seconds
  requests   \* administrative requests begun

vars == <<status, roles, since, token, request, tenant, clock, requests>>

TypeOK ==
  /\ status \in [Accounts -> {"none", "active", "disabled"}]
  /\ roles \in [Accounts -> SUBSET Roles]
  /\ since \in [Accounts -> 0..MaxClock]
  /\ token \in [Accounts -> [at : -1..MaxClock, roles : SUBSET Roles]]
  /\ request \in [Actors -> [op : Ops, on : Actors, to : Roles, seen : SUBSET Roles,
                             at : 0..MaxClock, overtaken : BOOLEAN]]
  /\ tenant \in {"ACTIVE", "SUSPENDED"}
  /\ clock \in 0..MaxClock /\ requests \in 0..MaxRequests

Init ==
  /\ status = [a \in Accounts |-> IF a \in First THEN "active" ELSE "none"]
  /\ roles = [a \in Accounts |-> IF a \in First THEN {"admin"} ELSE {}]
  /\ since = [a \in Accounts |-> 0]
  /\ token = [a \in Accounts |-> NoToken]
  /\ request = [x \in Actors |-> NoRequest]
  /\ tenant = "ACTIVE" /\ clock = 0 /\ requests = 0

Exists(a) == status[a] # "none"
Realm(a)  == IF a \in Staff THEN Staff ELSE Members

(***************************************************************************)
(* Signing in                                                              *)
(***************************************************************************)

\* Mutant: the second is rounded up.
RoundedUp(t) == 2 * ((t.at + 1) \div 2)

\* "iat" keeps whole seconds; the clock counts half seconds.
IssuedAt(t) == 2 * (t.at \div 2)

\* get_principal: the row is read again on every request.
Admitted(a) ==
  /\ status[a] = "active" /\ token[a] # NoToken
  /\ IssuedAt(token[a]) >= since[a]

Issue(a) == token' = [token EXCEPT ![a] = [at |-> clock, roles |-> roles[a]]]

\* authenticate looks the address up over all tenants and expects one row.
Login(a) ==
  /\ status[a] = "active"
  /\ \A b \in Accounts : Exists(b) /\ MailOf[b] = MailOf[a] => b = a
  /\ Issue(a)
  /\ UNCHANGED <<status, roles, since, request, tenant, clock, requests>>

\* refresh resolves the roles again; it does not look at tokens_valid_from.
Refresh(a) ==
  /\ token[a] # NoToken /\ status[a] = "active"
  /\ Issue(a)
  /\ UNCHANGED <<status, roles, since, request, tenant, clock, requests>>

(***************************************************************************)
(* Administrative requests                                                 *)
(***************************************************************************)

\* The permissions of a request are those of its token, not of the tables.
Manages(x, a) ==
  \/ x = Operator
  \/ /\ x # Operator /\ Admitted(x)
     /\ "admin" \in token[x].roles /\ a \in Realm(x)

Vacant(a) == \A b \in Accounts : Exists(b) => MailOf[b] # MailOf[a]

\* Mutant: the caller may disable itself.
SparedFromDeletion(x, op, to) ==
  \/ op = "delete"
  \/ op = "role" /\ x \in Staff /\ to # "admin"

\* What the handlers refuse to do to the caller's own account.
Spared(x, op, to) ==
  \/ op \in {"disable", "delete"}
  \/ op = "role" /\ x \in Staff /\ to # "admin"

Acceptable(x, op, a, to) ==
  /\ Manages(x, a)
  /\ x = a => ~Spared(x, op, to)
  /\ x = Operator => op = "create"
  /\ \/ op = "create" /\ ~Exists(a) /\ Vacant(a)
     \/ op \in {"role", "password"} /\ Exists(a)
     \/ op = "disable" /\ status[a] = "active"
     \/ op = "enable" /\ status[a] = "disabled"
     \/ op = "delete" /\ a \in Members /\ Exists(a)

\* A request that revokes takes its instant, tokens_valid_from, in the handler, before its
\* audit record and its commit.
Instant(op) == IF op \in Revocations THEN clock ELSE 0

Begin(x) ==
  /\ request[x] = NoRequest /\ requests < MaxRequests
  /\ \E op \in {"create", "role", "disable", "enable", "password", "delete"},
        a \in Accounts, to \in Roles :
       /\ op \notin {"create", "role"} => to = "other"
       /\ Acceptable(x, op, a, to)
       /\ request' = [request EXCEPT ![x] =
                        [op |-> op, on |-> a, to |-> to,
                         seen |-> IF op = "role" THEN roles[a] ELSE {},
                         at |-> Instant(op), overtaken |-> FALSE]]
  /\ requests' = requests + 1
  /\ UNCHANGED <<status, roles, since, token, tenant, clock>>

\* change_own_password: only the active flag is read, no permission is asked for.
BeginOwnPassword(a) ==
  /\ request[a] = NoRequest /\ requests < MaxRequests
  /\ Admitted(a)
  /\ request' = [request EXCEPT ![a] = [NoRequest EXCEPT !.op = "password", !.on = a, !.at = clock]]
  /\ requests' = requests + 1
  /\ UNCHANGED <<status, roles, since, token, tenant, clock>>

\* update_tenant by a SUPER_ADMIN.
BeginTenant(x) ==
  /\ request[x] = NoRequest /\ requests < MaxRequests
  /\ x \in Staff /\ Admitted(x) /\ "admin" \in token[x].roles
  /\ \E op \in {"suspend", "resume"} :
       /\ op = "suspend" <=> tenant = "ACTIVE"
       /\ request' = [request EXCEPT ![x] = [NoRequest EXCEPT !.op = op, !.at = Instant(op)]]
  /\ requests' = requests + 1
  /\ UNCHANGED <<status, roles, since, token, tenant, clock>>

\* The DELETE of a role change that waits for another one removes only what it saw
\* and what is still there.
Without(gone, a) ==
  [y \in Actors |-> IF request[y].op = "role" /\ request[y].on = a
                    THEN [request[y] EXCEPT !.seen = @ \ gone] ELSE request[y]]

Ends(x, others) == request' = [others EXCEPT ![x] = NoRequest]

\* audit_logs.user_id refers to the author: the request of an account that is deleted
\* meanwhile cannot write its record and rolls back.
Orphaned(a, others) == [others EXCEPT ![a] = NoRequest]

\* The accounts whose sessions a request ends.
Revokes(r) ==
  IF r.op = "suspend" THEN Members
  ELSE IF r.op \in Revocations THEN {r.on} ELSE {}

\* The revocations in flight for an account that another one reaches first took their
\* instants before or after it: "overtaken" remembers it, for the property alone.
Overtake(x) ==
  [y \in Actors |-> [request[y] EXCEPT !.overtaken =
                       @ \/ Revokes(request[y]) \cap Revokes(request[x]) # {}]]

Revoke(x) ==
  /\ since' = [a \in Accounts |-> IF a \in Revokes(request[x]) /\ Exists(a)
                                  THEN request[x].at ELSE since[a]]
  /\ Ends(x, Overtake(x))

\* Mutant: the table has no such constraint.
NeverClashes(a) == FALSE

\* uq_users_tenant_email: two NULL tenants are not equal, so it binds members only.
Clashes(a) == a \in Members /\ \E b \in Members : Exists(b) /\ MailOf[b] = MailOf[a]

Create(x, a, to) ==
  /\ ~Exists(a) /\ ~Clashes(a)
  /\ status' = [status EXCEPT ![a] = "active"]
  /\ roles' = [roles EXCEPT ![a] = {to}]
  /\ Ends(x, request)
  /\ UNCHANGED <<since, token, tenant>>

\* Mutant: the assignment is inserted only when the role is not held yet, the old ones go after.
ChangeRoleMerging(x, a, to) ==
  LET seen == request[x].seen
  IN  /\ Exists(a)
      /\ roles' = [roles EXCEPT ![a] = (@ \cup {to}) \ seen]
      /\ Ends(x, Without(seen, a))
      /\ UNCHANGED <<status, since, token, tenant>>

\* The old assignments are deleted and the new one inserted in one transaction.
ChangeRole(x, a, to) ==
  LET seen == request[x].seen
  IN  /\ Exists(a)
      /\ a \in Members => to \notin roles[a] \ seen
      /\ roles' = [roles EXCEPT ![a] = (@ \ seen) \cup {to}]
      /\ Ends(x, Without(seen, a))
      /\ UNCHANGED <<status, since, token, tenant>>

Disable(x, a) ==
  /\ Exists(a)
  /\ status' = [status EXCEPT ![a] = "disabled"]
  /\ Revoke(x)
  /\ UNCHANGED <<roles, token, tenant>>

\* Mutant: enabling the account forgets the revocation.
EnableForgetting(x, a) ==
  /\ Exists(a)
  /\ status' = [status EXCEPT ![a] = "active"]
  /\ since' = [since EXCEPT ![a] = 0]
  /\ Ends(x, request)
  /\ UNCHANGED <<roles, token, tenant>>

Enable(x, a) ==
  /\ Exists(a)
  /\ status' = [status EXCEPT ![a] = "active"]
  /\ Ends(x, request)
  /\ UNCHANGED <<roles, since, token, tenant>>

SetPassword(x, a) ==
  /\ Exists(a)
  /\ Revoke(x)
  /\ UNCHANGED <<status, roles, token, tenant>>

\* The assignments of the account go with it, those another request inserted too.
Delete(x, a) ==
  /\ status' = [status EXCEPT ![a] = "none"]
  /\ roles' = [roles EXCEPT ![a] = {}]
  /\ since' = [since EXCEPT ![a] = 0]
  /\ token' = [token EXCEPT ![a] = NoToken]
  /\ Ends(x, Orphaned(a, Without(roles[a], a)))
  /\ UNCHANGED tenant

SetTenant(x) ==
  /\ tenant' = IF request[x].op = "suspend" THEN "SUSPENDED" ELSE "ACTIVE"
  /\ Revoke(x)
  /\ UNCHANGED <<status, roles, token>>

Effect(x) ==
  LET r == request[x]
  IN  \/ r.op = "create" /\ Create(x, r.on, r.to)
      \/ r.op = "role" /\ ChangeRole(x, r.on, r.to)
      \/ r.op = "disable" /\ Disable(x, r.on)
      \/ r.op = "enable" /\ Enable(x, r.on)
      \/ r.op = "password" /\ SetPassword(x, r.on)
      \/ r.op = "delete" /\ Delete(x, r.on)
      \/ r.op \in {"suspend", "resume"} /\ SetTenant(x)

Commit(x) ==
  /\ request[x] # NoRequest
  /\ Effect(x)
  /\ UNCHANGED <<clock, requests>>

\* The row is gone or a constraint refuses: the transaction rolls back.
RollBack(x) ==
  LET r == request[x]
  IN  /\ r # NoRequest
      /\ \/ r.op = "create" /\ (Exists(r.on) \/ Clashes(r.on))
         \/ r.op \in {"role", "disable", "enable", "password"} /\ ~Exists(r.on)
         \/ r.op = "role" /\ r.on \in Members /\ r.to \in roles[r.on] \ r.seen
      /\ Ends(x, request)
      /\ UNCHANGED <<status, roles, since, token, tenant, clock, requests>>

Tick ==
  /\ clock < MaxClock
  /\ clock' = clock + 1
  /\ UNCHANGED <<status, roles, since, token, request, tenant, requests>>

Next ==
  \/ \E a \in Accounts : Login(a) \/ Refresh(a) \/ BeginOwnPassword(a)
  \/ \E x \in Staff : BeginTenant(x)
  \/ \E x \in Actors : Begin(x) \/ Commit(x) \/ RollBack(x)
  \/ Tick

Spec == Init /\ [][Next]_vars

(***************************************************************************)
(* Properties                                                              *)
(***************************************************************************)

\* A session revoked once is never admitted again, through no later change of the account,
\* its role, its state or its tenant (token_issued_at against tokens_valid_from), but for two
\* ways the code leaves open: it is refreshed, which does not look at the revocation, or a
\* second revocation that another one overtook moves the instant back.
RevokedStaysOut ==
  [][\A a \in Accounts :
       token[a] # NoToken /\ token[a].at < since[a] /\ Admitted(a)' =>
         \/ token'[a] # token[a]
         \/ \E x \in Actors :
              /\ a \in Revokes(request[x]) /\ request[x].overtaken
              /\ request'[x] = NoRequest]_vars

\* Overlapping role changes and deletions never leave an account that no role describes:
\* such a user could sign in and reach nothing.
EveryAccountHasARole ==
  \A a \in Accounts : Exists(a) <=> roles[a] # {}

\* Two accounts of the tenant never share an address, although the check for it and the
\* insert are apart.
OneAccountPerAddress ==
  \A a, b \in Members : Exists(a) /\ Exists(b) /\ MailOf[a] = MailOf[b] => a = b

Administers(x) == x \in Accounts /\ status[x] = "active" /\ "admin" \in roles[x]
Governed(realm) == \E a \in realm : Administers(a)

\* A realm loses its last administrator only through a request whose author was no longer
\* one when it took effect, or through a tenant administrator giving up its own role:
\* the guards on the caller's own account stop every other way.
LockoutNeedsStaleAuthor ==
  [][\A realm \in {Staff, Members} :
       Governed(realm) /\ ~Governed(realm)' =>
         \E x \in Actors :
           /\ request[x] # NoRequest /\ request'[x] = NoRequest
           /\ \/ ~Administers(x)
              \/ x \in Members /\ request[x].op = "role" /\ request[x].on = x]_vars

\* What the rows keep at every moment, whichever requests overlap.
AccountsSound == TypeOK /\ EveryAccountHasARole /\ OneAccountPerAddress
=============================================================================
