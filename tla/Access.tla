------------------------------- MODULE Access -------------------------------
(***************************************************************************)
(* Accounts: the start of a process, which seeds the first admin, login,   *)
(* the exchange of refresh tokens, logout, the administration of users,    *)
(* and the projects and memberships that refer to them                     *)
(* (src/main.rs, src/api/auth_routes.rs, src/api/auth.rs,                  *)
(* src/services/auth_service.rs, src/api/projects.rs).                     *)
(*                                                                         *)
(* Every SQL statement or transaction is a step. A handler trusts the      *)
(* claims of the access token for as long as it is valid and never looks   *)
(* the caller up: a token that never expires, as here, allows all that one *)
(* that does. The n-th account ever made is user n and the n-th login or   *)
(* exchange makes refresh token and access token n. The shared links that  *)
(* go with an account are left out.                                        *)
(***************************************************************************)
EXTENDS Integers

CONSTANTS
    Nodes,      \* starts of a process of the service; a restart is one more
    Requests,   \* requests that are served at the same time
    Projects,
    MaxUsers,   \* bound: accounts ever made
    MaxCreated, \* bound: accounts made by admins
    MaxTokens,  \* bound: logins and exchanges
    MaxEdits    \* bound: changes of roles and passwords

ASSUME ConstantsAssumption ==
    /\ MaxUsers \in Nat \ {0} /\ MaxTokens \in Nat \ {0}
    /\ MaxCreated \in Nat /\ MaxEdits \in Nat

Users == 1 .. MaxUsers
Tokens == 1 .. MaxTokens
Roles == {"user", "admin"}

VARIABLES
    boot,       \* boot[n]: how far the start of process n is
    born,       \* accounts ever made
    role,       \* users.role; "none" before and after the account
    version,    \* users.updated_at: how often u's role or password was set
    named,      \* the user who has the default admin's name, or 0
    minted,     \* tokens ever made
    live,       \* refresh_tokens: the tokens that have a row
    claim,      \* claim[t]: the role in access token t
    ofUser,     \* ofUser[t]: the user of token t
    owner,      \* projects.owner_id, 0 without a row
    deleted,    \* projects with deleted_at
    members,    \* user_projects
    req,        \* req[r]: where request r is and what it has read
    edits,
    seeds,      \* history: how often the default admin was inserted
    parent,     \* history: the token t was exchanged for, 0 for a login
    root,       \* history: the version of the account that the login behind t read
    raced,      \* history: a change of the account ran into the making of t, or of one before it
    usurped     \* history: an account was changed by someone who was no admin any more

nodeVars == <<boot, seeds>>
userVars == <<born, role, version, named>>
tokenVars == <<minted, live, claim, ofUser, parent, root, raced>>
projectVars == <<owner, deleted, members>>
vars == <<nodeVars, userVars, tokenVars, projectVars, req, edits, usurped>>

Steps == {"idle", "login", "consumed", "found", "delete"}

\* by: the token that is exchanged, or the admin who deletes; who: the account.
Request == [at : Steps, by : Users \cup Tokens \cup {0}, who : 0 .. MaxUsers,
            role : Roles \cup {"none"}, seen : 0 .. MaxEdits, racing : BOOLEAN]
Idle == [at |-> "idle", by |-> 0, who |-> 0, role |-> "none", seen |-> 0, racing |-> FALSE]

TypeOK ==
    /\ boot \in [Nodes -> {"down", "seed", "up"}]
    /\ born \in 0 .. MaxUsers
    /\ role \in [Users -> Roles \cup {"none"}]
    /\ version \in [Users -> 0 .. MaxEdits]
    /\ named \in 0 .. MaxUsers
    /\ minted \in 0 .. MaxTokens
    /\ live \subseteq Tokens
    /\ claim \in [Tokens -> Roles \cup {"none"}]
    /\ ofUser \in [Tokens -> 0 .. MaxUsers]
    /\ owner \in [Projects -> 0 .. MaxUsers]
    /\ deleted \subseteq Projects
    /\ members \subseteq Users \X Projects
    /\ req \in [Requests -> Request]
    /\ edits \in 0 .. MaxEdits
    /\ seeds \in Nat
    /\ parent \in [Tokens -> 0 .. MaxTokens]
    /\ root \in [Tokens -> 0 .. MaxEdits]
    /\ raced \in [Tokens -> BOOLEAN]
    /\ usurped \in BOOLEAN

Init ==
    /\ boot = [n \in Nodes |-> "down"]
    /\ born = 0
    /\ role = [u \in Users |-> "none"]
    /\ version = [u \in Users |-> 0]
    /\ named = 0
    /\ minted = 0 /\ live = {}
    /\ claim = [t \in Tokens |-> "none"]
    /\ ofUser = [t \in Tokens |-> 0]
    /\ owner = [p \in Projects |-> 0]
    /\ deleted = {} /\ members = {}
    /\ req = [r \in Requests |-> Idle]
    /\ edits = 0 /\ seeds = 0
    /\ parent = [t \in Tokens |-> 0]
    /\ root = [t \in Tokens |-> 0]
    /\ raced = [t \in Tokens |-> FALSE]
    /\ usurped = FALSE

Alive == {u \in Users : role[u] # "none"}
Serving == \E n \in Nodes : boot[n] = "up"
Done(r) == req' = [req EXCEPT ![r] = Idle]

-----------------------------------------------------------------------------
(* Start of a process                                                      *)

\* User::count: the table is empty, or the process goes on.
BootCount(n) ==
    /\ boot[n] = "down"
    /\ boot' = [boot EXCEPT ![n] = IF Alive = {} THEN "seed" ELSE "up"]
    /\ UNCHANGED <<userVars, tokenVars, projectVars, req, edits, seeds, usurped>>

NewUser(r) ==
    /\ born < MaxUsers
    /\ born' = born + 1
    /\ role' = [role EXCEPT ![born + 1] = r]

\* Mutant of BootSeed: a process whose insert is refused tries again.
BootSeed_Again(n) ==
    /\ boot[n] = "seed" /\ named = 0
    /\ NewUser("admin") /\ named' = born + 1
    /\ seeds' = seeds + 1
    /\ boot' = [boot EXCEPT ![n] = "up"]
    /\ UNCHANGED <<version, tokenVars, projectVars, req, edits, usurped>>

\* User::create: the username is unique, and the process ends when another one
\* has inserted it.
BootSeed(n) ==
    /\ boot[n] = "seed"
    /\ \/ /\ named = 0
          /\ NewUser("admin") /\ named' = born + 1
          /\ seeds' = seeds + 1
          /\ boot' = [boot EXCEPT ![n] = "up"]
       \/ /\ named # 0
          /\ boot' = [boot EXCEPT ![n] = "down"]
          /\ UNCHANGED <<seeds, born, role, named>>
    /\ UNCHANGED <<version, tokenVars, projectVars, req, edits, usurped>>

\* The process that serves r dies, or a statement fails.
RequestDies(r) ==
    /\ req[r].at # "idle"
    /\ Done(r)
    /\ UNCHANGED <<nodeVars, userVars, tokenVars, projectVars, edits, usurped>>

-----------------------------------------------------------------------------
(* Sessions                                                                *)

\* The row of the user, and the password checked against it.
Login(r, u) ==
    /\ Serving /\ req[r].at = "idle" /\ u \in Alive
    /\ req' = [req EXCEPT ![r] = [Idle EXCEPT !.at = "login", !.who = u,
                                              !.role = role[u], !.seen = version[u]]]
    /\ UNCHANGED <<nodeVars, userVars, tokenVars, projectVars, edits, usurped>>

\* RefreshToken::create refers to the user's row; the access token has the role
\* that was read with it. t is the token that is given back, 0 for none.
Mint(r, t, seen, race) ==
    /\ minted < MaxTokens
    /\ IF req[r].who \in Alive
       THEN LET m == minted + 1 IN
            /\ minted' = m /\ live' = live \cup {m}
            /\ claim' = [claim EXCEPT ![m] = req[r].role]
            /\ ofUser' = [ofUser EXCEPT ![m] = req[r].who]
            /\ parent' = [parent EXCEPT ![m] = t]
            /\ root' = [root EXCEPT ![m] = seen]
            /\ raced' = [raced EXCEPT ![m] = race]
       ELSE UNCHANGED tokenVars
    /\ Done(r)
    /\ UNCHANGED <<nodeVars, userVars, projectVars, edits, usurped>>

LoginInsert(r) ==
    /\ req[r].at = "login"
    /\ Mint(r, 0, req[r].seen, req[r].racing)

\* Mutant of Refresh: the token is looked up and not consumed.
Refresh_Lookup(r, t) ==
    /\ Serving /\ req[r].at = "idle" /\ t \in live
    /\ req' = [req EXCEPT ![r] = [Idle EXCEPT !.at = "consumed", !.by = t, !.who = ofUser[t]]]
    /\ UNCHANGED <<nodeVars, userVars, tokenVars, projectVars, edits, usurped>>

\* consume_by_hash: one DELETE ... RETURNING.
Refresh(r, t) ==
    /\ Serving /\ req[r].at = "idle" /\ t \in live
    /\ live' = live \ {t}
    /\ req' = [req EXCEPT ![r] = [Idle EXCEPT !.at = "consumed", !.by = t, !.who = ofUser[t]]]
    /\ UNCHANGED <<nodeVars, userVars, minted, claim, ofUser, parent, root, raced,
                   projectVars, edits, usurped>>

\* The user as it is now; 401 when the account is gone.
RefreshFind(r) ==
    /\ req[r].at = "consumed"
    /\ IF req[r].who \in Alive
       THEN req' = [req EXCEPT ![r].at = "found", ![r].role = role[req[r].who]]
       ELSE Done(r)
    /\ UNCHANGED <<nodeVars, userVars, tokenVars, projectVars, edits, usurped>>

RefreshInsert(r) ==
    /\ req[r].at = "found"
    /\ Mint(r, req[r].by, root[req[r].by], raced[req[r].by] \/ req[r].racing)

Logout(t) ==
    /\ Serving /\ t \in live
    /\ live' = live \ {t}
    /\ UNCHANGED <<nodeVars, userVars, minted, claim, ofUser, parent, root, raced,
                   projectVars, req, edits, usurped>>

-----------------------------------------------------------------------------
(* Administration of users: t is the access token of the request           *)

AsAdmin(t) == Serving /\ claim[t] = "admin"

CreateUser(t, r) ==
    /\ AsAdmin(t)
    /\ born - seeds < MaxCreated
    /\ NewUser(r)
    /\ UNCHANGED <<nodeVars, version, named, tokenVars, projectVars, req, edits, usurped>>

OfUser(u) == {t \in Tokens : ofUser[t] = u}
\* The sign-ins of u that have read the old row.
Racing(u) == {r \in Requests : req[r].at \in {"login", "consumed", "found"} /\ req[r].who = u}
Usurp(a) == usurped' = (usurped \/ role[a] # "admin")

\* Mutant of UpdateUser: a change of the role alone leaves the refresh tokens.
UpdateUser_KeepsTokens(t, u, rl, pass) ==
    /\ AsAdmin(t) /\ u \in Alive
    /\ edits < MaxEdits
    /\ rl # "none" \/ pass
    /\ ~(u = ofUser[t] /\ rl = "user")
    /\ role' = [role EXCEPT ![u] = IF rl = "none" THEN @ ELSE rl]
    /\ version' = [version EXCEPT ![u] = @ + 1]
    /\ live' = IF pass THEN live \ OfUser(u) ELSE live
    /\ edits' = edits + 1
    /\ Usurp(ofUser[t])
    /\ req' = [r \in Requests |->
                 IF r \in Racing(u) THEN [req[r] EXCEPT !.racing = TRUE] ELSE req[r]]
    /\ UNCHANGED <<nodeVars, born, named, minted, claim, ofUser, parent, root, raced,
                   projectVars>>

\* Mutant of UpdateUser: admins may demote themselves.
UpdateUser_Self(t, u, rl, pass) ==
    /\ AsAdmin(t) /\ u \in Alive
    /\ edits < MaxEdits
    /\ rl # "none" \/ pass
    /\ role' = [role EXCEPT ![u] = IF rl = "none" THEN @ ELSE rl]
    /\ version' = [version EXCEPT ![u] = @ + 1]
    /\ live' = live \ OfUser(u)
    /\ edits' = edits + 1
    /\ Usurp(ofUser[t])
    /\ req' = [r \in Requests |->
                 IF r \in Racing(u) THEN [req[r] EXCEPT !.racing = TRUE] ELSE req[r]]
    /\ UNCHANGED <<nodeVars, born, named, minted, claim, ofUser, parent, root, raced,
                   projectVars>>

\* One transaction changes role, password and the refresh tokens of the user;
\* what is checked before it, that the account exists and is not demoted by
\* itself, the UPDATE finds unchanged. rl is "none" when the role stays, pass
\* says that a password is given.
UpdateUser(t, u, rl, pass) ==
    /\ AsAdmin(t) /\ u \in Alive
    /\ edits < MaxEdits
    /\ rl # "none" \/ pass
    /\ ~(u = ofUser[t] /\ rl = "user")
    /\ role' = [role EXCEPT ![u] = IF rl = "none" THEN @ ELSE rl]
    /\ version' = [version EXCEPT ![u] = @ + 1]
    /\ live' = live \ OfUser(u)
    /\ edits' = edits + 1
    /\ Usurp(ofUser[t])
    /\ req' = [r \in Requests |->
                 IF r \in Racing(u) THEN [req[r] EXCEPT !.racing = TRUE] ELSE req[r]]
    /\ UNCHANGED <<nodeVars, born, named, minted, claim, ofUser, parent, root, raced,
                   projectVars>>

Owned(u) == {p \in Projects : owner[p] = u}

\* Not oneself, and nobody who owns projects that are not deleted; then the
\* user's tokens go, in a statement of their own.
DeleteTokens(r, t, u) ==
    /\ AsAdmin(t) /\ req[r].at = "idle"
    /\ u # ofUser[t] /\ u \in Alive
    /\ Owned(u) \subseteq deleted
    /\ live' = live \ OfUser(u)
    /\ req' = [req EXCEPT ![r] = [Idle EXCEPT !.at = "delete", !.by = ofUser[t], !.who = u]]
    /\ UNCHANGED <<nodeVars, userVars, minted, claim, ofUser, parent, root, raced,
                   projectVars, edits, usurped>>

\* User::delete: a project that refers to the user, deleted or not, refuses it;
\* tokens and memberships go with the row.
DeleteUser(r) ==
    LET u == req[r].who IN
    /\ req[r].at = "delete"
    /\ IF u \in Alive /\ Owned(u) = {}
       THEN /\ role' = [role EXCEPT ![u] = "none"]
            /\ named' = IF named = u THEN 0 ELSE named
            /\ live' = live \ OfUser(u)
            /\ members' = {m \in members : m[1] # u}
            /\ Usurp(req[r].by)
       ELSE UNCHANGED <<role, named, live, members, usurped>>
    /\ Done(r)
    /\ UNCHANGED <<nodeVars, born, version, minted, claim, ofUser, parent, root, raced,
                   owner, deleted, edits>>

-----------------------------------------------------------------------------
(* Projects and their members                                              *)

\* An INSERT that refers to the caller's row.
CreateProject(t, p) ==
    /\ Serving /\ claim[t] # "none" /\ ofUser[t] \in Alive
    /\ owner[p] = 0
    /\ owner' = [owner EXCEPT ![p] = ofUser[t]]
    /\ UNCHANGED <<nodeVars, userVars, tokenVars, deleted, members, req, edits, usurped>>

\* The owner or an admin; deleted_at is set, the row stays.
DeleteProject(t, p) ==
    /\ Serving /\ owner[p] # 0 /\ p \notin deleted
    /\ claim[t] = "admin" \/ (claim[t] = "user" /\ owner[p] = ofUser[t])
    /\ deleted' = deleted \cup {p}
    /\ UNCHANGED <<nodeVars, userVars, tokenVars, owner, members, req, edits, usurped>>

\* The account may be deleted behind the checks; the row refers to both.
AddMember(t, u, p) ==
    /\ AsAdmin(t) /\ owner[p] # 0 /\ p \notin deleted /\ u \in Alive
    /\ members' = members \cup {<<u, p>>}
    /\ UNCHANGED <<nodeVars, userVars, tokenVars, owner, deleted, req, edits, usurped>>

RemoveMember(t, m) ==
    /\ AsAdmin(t) /\ m \in members
    /\ members' = members \ {m}
    /\ UNCHANGED <<nodeVars, userVars, tokenVars, owner, deleted, req, edits, usurped>>

-----------------------------------------------------------------------------
Boot(n) == BootCount(n) \/ BootSeed(n)

Continue(r) == LoginInsert(r) \/ RefreshFind(r) \/ RefreshInsert(r) \/ DeleteUser(r)

Begin(r) ==
    \/ \E u \in Users : Login(r, u)
    \/ \E t \in Tokens : Refresh(r, t) \/ \E u \in Users : DeleteTokens(r, t, u)

AtOnce(t) ==
    \/ Logout(t)
    \/ \E rl \in Roles : CreateUser(t, rl)
    \/ \E u \in Users, rl \in Roles \cup {"none"}, pass \in BOOLEAN : UpdateUser(t, u, rl, pass)
    \/ \E p \in Projects :
         CreateProject(t, p) \/ DeleteProject(t, p) \/ \E u \in Users : AddMember(t, u, p)
    \/ \E m \in members : RemoveMember(t, m)

Next ==
    \/ \E n \in Nodes : Boot(n)
    \/ \E r \in Requests : Begin(r) \/ Continue(r) \/ RequestDies(r)
    \/ \E t \in Tokens : AtOnce(t)

\* A process that ended is started again by the orchestrator.
Spec == Init /\ [][Next]_vars /\ \A n \in Nodes : WF_vars(Boot(n))

-----------------------------------------------------------------------------
\* A refresh token lives only for a login that read the account as it is now,
\* handed on from exchange to exchange: each change of the role, of the password
\* or of both ends every session of the account, except one that was signing in
\* or exchanging its token at that very moment.
SessionCurrent ==
    \A t \in live : root[t] = version[ofUser[t]] \/ raced[t]

\* A refresh token is exchanged at most once, also by requests that overlap.
ExchangedOnce ==
    /\ \A t, s \in Tokens : t # s /\ parent[t] # 0 => parent[t] # parent[s]
    /\ \A t \in Tokens, r \in Requests :
         req[r].at \in {"consumed", "found"} =>
            /\ parent[t] # req[r].by
            /\ \A q \in Requests \ {r} :
                 req[q].at \in {"consumed", "found"} => req[q].by # req[r].by

\* Once there was an admin there is one, unless an account was demoted or
\* deleted by someone who was no admin any more: each request only checks that
\* it is not about its own account.
AdminRemains ==
    seeds > 0 => usurped \/ \E u \in Users : role[u] = "admin"

\* Tokens, memberships and projects, deleted ones too, belong to accounts that exist.
ReferencesLive ==
    /\ \A t \in live : ofUser[t] \in Alive
    /\ \A p \in Projects : owner[p] # 0 => owner[p] \in Alive
    /\ \A m \in members : m[1] \in Alive

\* No start of a process after the first brings the default admin back, with
\* its well-known password, as long as AdminRemains explains.
NoReseed ==
    [][\A n \in Nodes : boot[n] = "down" /\ boot'[n] = "seed" => seeds = 0 \/ usurped]_vars

\* Processes that start together on an empty database all serve in the end:
\* the one whose insert loses ends, and finds the user when it starts again.
StartsServe == \A n \in Nodes : boot[n] = "down" ~> boot[n] = "up"
=============================================================================
