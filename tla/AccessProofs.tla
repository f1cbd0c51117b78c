---------------------------- MODULE AccessProofs ----------------------------
(***************************************************************************)
(* Theorems about Access, for any number of starts, requests, accounts,    *)
(* tokens, projects and changes.                                           *)
(***************************************************************************)
EXTENDS Access, TLAPS

Exchanging(r) == req[r].at \in {"consumed", "found"}

-----------------------------------------------------------------------------
(* Type correctness                                                        *)

\* The inductive form of TypeOK: no account was changed more often than there
\* were changes, and a token that is exchanged was made.
TypeInv ==
    /\ TypeOK
    /\ \A u \in Users : version[u] <= edits
    /\ live \subseteq 1 .. minted
    /\ \A r \in Requests : Exchanging(r) => req[r].by \in 1 .. minted

\* Request r goes on to x; the others stay.
LEMMA Moves ==
    ASSUME TypeOK, NEW r \in Requests, NEW x \in Request, req' = [req EXCEPT ![r] = x]
    PROVE  /\ req' \in [Requests -> Request] /\ req'[r] = x
           /\ \A q \in Requests : q # r => req'[q] = req[q]
  BY DEF TypeOK

LEMMA IdleType == Idle \in Request
  BY ConstantsAssumption DEF Idle, Request, Steps

\* A request that ends.
LEMMA Ends ==
    ASSUME TypeOK, NEW r \in Requests, Done(r)
    PROVE  /\ req' \in [Requests -> Request] /\ req'[r] = Idle
           /\ \A q \in Requests : q # r => req'[q] = req[q]
  BY IdleType, Moves DEF Done

\* A new account.
LEMMA NewUserType ==
    ASSUME TypeOK, NEW rl \in Roles, NewUser(rl)
    PROVE  /\ born' \in 0 .. MaxUsers /\ born + 1 \in Users
           /\ role' \in [Users -> Roles \cup {"none"}]
           /\ role'[born + 1] = rl /\ \A u \in Users : u # born + 1 => role'[u] = role[u]
<1>1. born \in 0 .. MaxUsers /\ born < MaxUsers /\ born' = born + 1
  BY DEF NewUser, TypeOK
<1>2. born + 1 \in Users /\ born' \in 0 .. MaxUsers
  BY <1>1, ConstantsAssumption DEF Users
<1> QED
  BY <1>2 DEF NewUser, TypeOK

\* What an update of account u does to the requests: the sign-ins of u race with it.
LEMMA UpdateRaces ==
    ASSUME TypeOK, NEW t, NEW u, NEW rl, NEW pass, UpdateUser(t, u, rl, pass)
    PROVE  /\ req' \in [Requests -> Request]
           /\ \A r \in Requests :
                /\ req'[r].at = req[r].at /\ req'[r].by = req[r].by /\ req'[r].who = req[r].who
                /\ req'[r].role = req[r].role /\ req'[r].seen = req[r].seen
                /\ req[r].racing => req'[r].racing
                /\ (req[r].at = "login" \/ Exchanging(r)) /\ req[r].who = u => req'[r].racing
<1>1. req' = [r \in Requests |->
                 IF r \in Racing(u) THEN [req[r] EXCEPT !.racing = TRUE] ELSE req[r]]
  BY DEF UpdateUser
<1>2. ASSUME NEW r \in Requests
      PROVE  /\ req'[r] \in Request
             /\ req'[r].at = req[r].at /\ req'[r].by = req[r].by /\ req'[r].who = req[r].who
             /\ req'[r].role = req[r].role /\ req'[r].seen = req[r].seen
             /\ req[r].racing => req'[r].racing
             /\ (req[r].at = "login" \/ Exchanging(r)) /\ req[r].who = u => req'[r].racing
  <2>1. req[r] \in Request
    BY DEF TypeOK
  <2>2. CASE r \in Racing(u)
    <3>1. req'[r] = [req[r] EXCEPT !.racing = TRUE]
      BY <1>1, <2>2
    <3> QED
      BY <2>1, <3>1 DEF Request
  <2>3. CASE r \notin Racing(u)
    <3>1. req'[r] = req[r]
      BY <1>1, <2>3
    <3> QED
      BY <2>1, <2>3, <3>1 DEF Racing, Exchanging
  <2> QED
    BY <2>2, <2>3
<1> QED
  BY <1>1, <1>2

\* A request that moves to x, with tokens that may go.
LEMMA TypeMove ==
    ASSUME TypeInv, NEW r \in Requests, NEW x \in Request, req' = [req EXCEPT ![r] = x],
           x.at \in {"consumed", "found"} => x.by \in 1 .. minted, live' \subseteq live,
           UNCHANGED <<nodeVars, userVars, minted, claim, ofUser, parent, root, raced,
                       projectVars, edits, usurped>>
    PROVE  TypeInv'
<1>1. /\ req' \in [Requests -> Request] /\ req'[r] = x
      /\ \A q \in Requests : q # r => req'[q] = req[q]
  BY Moves DEF TypeInv
<1>2. TypeOK'
  BY <1>1 DEF TypeInv, TypeOK, nodeVars, userVars, projectVars
<1> QED
  BY <1>1, <1>2 DEF TypeInv, userVars, Exchanging

\* A new token.
LEMMA MintType ==
    ASSUME TypeInv, NEW r \in Requests, NEW t \in 0 .. minted, NEW seen \in 0 .. MaxEdits,
           NEW race \in BOOLEAN, Mint(r, t, seen, race)
    PROVE  TypeInv'
<1>0. TypeOK /\ req[r] \in Request /\ minted \in 0 .. MaxTokens
  BY DEF TypeInv, TypeOK
<1>1. /\ req' \in [Requests -> Request] /\ req'[r] = Idle
      /\ \A q \in Requests : q # r => req'[q] = req[q]
  BY <1>0, Ends DEF Mint
<1>2. UNCHANGED <<nodeVars, userVars, projectVars, edits, usurped>>
  BY DEF Mint
<1>3. CASE UNCHANGED tokenVars
  <2>1. TypeOK'
    BY <1>0, <1>1, <1>2, <1>3 DEF TypeOK, nodeVars, userVars, projectVars, tokenVars
  <2> QED
    BY <1>1, <1>2, <1>3, <2>1 DEF TypeInv, userVars, tokenVars, Exchanging, Idle
<1>4. CASE req[r].who \in Alive
  <2> DEFINE m == minted + 1
  <2>1. /\ minted' = m /\ live' = live \cup {m}
        /\ claim' = [claim EXCEPT ![m] = req[r].role]
        /\ ofUser' = [ofUser EXCEPT ![m] = req[r].who]
        /\ parent' = [parent EXCEPT ![m] = t]
        /\ root' = [root EXCEPT ![m] = seen]
        /\ raced' = [raced EXCEPT ![m] = race]
    BY <1>4 DEF Mint
  <2>2. minted < MaxTokens
    BY DEF Mint
  <2>3. m \in Tokens /\ m \in 0 .. MaxTokens /\ t \in 0 .. MaxTokens /\ 1 .. minted \subseteq 1 .. m
        /\ m \in 1 .. m
    BY <1>0, <2>2, ConstantsAssumption DEF Tokens
  <2>4. claim' \in [Tokens -> Roles \cup {"none"}] /\ ofUser' \in [Tokens -> 0 .. MaxUsers]
    BY <1>0, <2>1 DEF TypeOK, Request
  <2>5. /\ parent' \in [Tokens -> 0 .. MaxTokens] /\ root' \in [Tokens -> 0 .. MaxEdits]
        /\ raced' \in [Tokens -> BOOLEAN]
    BY <1>0, <2>1, <2>3 DEF TypeOK
  <2>6. TypeOK'
    BY <1>0, <1>1, <1>2, <2>1, <2>3, <2>4, <2>5 DEF TypeOK, nodeVars, userVars, projectVars
  <2>7. live' \subseteq 1 .. minted'
    BY <2>1, <2>3 DEF TypeInv
  <2>8. \A q \in Requests : Exchanging(q)' => req'[q].by \in 1 .. minted
    BY <1>1 DEF TypeInv, Exchanging, Idle
  <2>9. \A u \in Users : version'[u] <= edits'
    BY <1>2 DEF TypeInv, userVars
  <2> QED
    BY <2>1, <2>3, <2>6, <2>7, <2>8, <2>9 DEF TypeInv
<1> QED
  BY <1>3, <1>4 DEF Mint

\* Every step of a request preserves TypeInv.
LEMMA RequestType ==
    ASSUME TypeInv, NEW r \in Requests, Begin(r) \/ Continue(r) \/ RequestDies(r)
    PROVE  TypeInv'
<1>0. TypeOK /\ req[r] \in Request /\ minted \in 0 .. MaxTokens
  BY DEF TypeInv, TypeOK
<1>1. ASSUME NEW u \in Users, Login(r, u)
      PROVE  TypeInv'
  <2> DEFINE x == [Idle EXCEPT !.at = "login", !.who = u, !.role = role[u], !.seen = version[u]]
  <2>1. u \in 0 .. MaxUsers /\ role[u] \in Roles \cup {"none"} /\ version[u] \in 0 .. MaxEdits
    <3>1. role[u] \in Roles \cup {"none"} /\ version[u] \in 0 .. MaxEdits
      BY <1>0 DEF TypeOK
    <3> QED
      BY <3>1, ConstantsAssumption DEF Users
  <2>2. x \in Request /\ x.at = "login"
    BY <2>1 DEF Idle, Request, Steps
  <2> QED
    BY <1>1, <2>2, TypeMove DEF Login, tokenVars
<1>2. ASSUME NEW t \in Tokens, Refresh(r, t)
      PROVE  TypeInv'
  <2> DEFINE x == [Idle EXCEPT !.at = "consumed", !.by = t, !.who = ofUser[t]]
  <2>0. ofUser[t] \in 0 .. MaxUsers /\ 0 \in 0 .. MaxEdits
    BY <1>0, ConstantsAssumption DEF TypeOK
  <2>1. x \in Request /\ x.by = t
    BY <2>0 DEF Idle, Request, Steps
  <2>2. t \in 1 .. minted
    BY <1>2 DEF Refresh, TypeInv
  <2>3. /\ req' = [req EXCEPT ![r] = x] /\ live' \subseteq live
        /\ UNCHANGED <<nodeVars, userVars, minted, claim, ofUser, parent, root, raced,
                       projectVars, edits, usurped>>
    BY <1>2 DEF Refresh
  <2> HIDE DEF x
  <2> QED
    BY <2>1, <2>2, <2>3, TypeMove
<1>3. ASSUME NEW t \in Tokens, NEW u \in Users, DeleteTokens(r, t, u)
      PROVE  TypeInv'
  <2> DEFINE x == [Idle EXCEPT !.at = "delete", !.by = ofUser[t], !.who = u]
  <2>0. ofUser[t] \in 0 .. MaxUsers /\ 0 \in 0 .. MaxEdits
    BY <1>0, ConstantsAssumption DEF TypeOK
  <2>a. ofUser[t] \in Users \cup {0} /\ u \in 0 .. MaxUsers
    BY <2>0, ConstantsAssumption DEF Users
  <2>1. x \in Request /\ x.at = "delete"
    BY <2>0, <2>a DEF Idle, Request, Steps
  <2>2. /\ req' = [req EXCEPT ![r] = x] /\ live' \subseteq live
        /\ UNCHANGED <<nodeVars, userVars, minted, claim, ofUser, parent, root, raced,
                       projectVars, edits, usurped>>
    BY <1>3 DEF DeleteTokens
  <2> HIDE DEF x
  <2> QED
    BY <2>1, <2>2, TypeMove
<1>4. CASE LoginInsert(r)
  <2>1. 0 \in 0 .. minted /\ req[r].seen \in 0 .. MaxEdits /\ req[r].racing \in BOOLEAN
    BY <1>0 DEF Request
  <2> QED
    BY <1>4, <2>1, MintType DEF LoginInsert
<1>5. CASE RefreshFind(r)
  <2>1. CASE req[r].who \in Alive
    <3> DEFINE x == [req[r] EXCEPT !.at = "found", !.role = role[req[r].who]]
    <3>1. role[req[r].who] \in Roles \cup {"none"}
      BY <1>0, <2>1 DEF TypeOK, Alive
    <3>2. x \in Request /\ x.by = req[r].by
      BY <1>0, <3>1 DEF Request, Steps
    <3>3. req[r].by \in 1 .. minted
      BY <1>5 DEF RefreshFind, TypeInv, Exchanging
    <3>4. req' = [req EXCEPT ![r] = x]
      BY <1>0, <1>5, <2>1 DEF RefreshFind
    <3> HIDE DEF x
    <3> QED
      BY <1>5, <3>2, <3>3, <3>4, TypeMove DEF RefreshFind, tokenVars
  <2>2. CASE Done(r)
    BY <1>5, <2>2, IdleType, TypeMove DEF RefreshFind, Done, Idle, tokenVars
  <2> QED
    BY <1>5, <2>1, <2>2 DEF RefreshFind
<1>6. CASE RefreshInsert(r)
  <2>1. req[r].by \in 1 .. minted
    BY <1>6 DEF RefreshInsert, TypeInv, Exchanging
  <2>2. req[r].by \in Tokens /\ req[r].by \in 0 .. minted
    BY <1>0, <2>1, ConstantsAssumption DEF Tokens
  <2>3. root[req[r].by] \in 0 .. MaxEdits
    BY <1>0, <2>2 DEF TypeOK
  <2>4. (raced[req[r].by] \/ req[r].racing) \in BOOLEAN
    OBVIOUS
  <2> QED
    BY <1>6, <2>2, <2>3, <2>4, MintType DEF RefreshInsert
<1>7. CASE DeleteUser(r)
  <2>1. /\ req' \in [Requests -> Request] /\ req'[r] = Idle
        /\ \A q \in Requests : q # r => req'[q] = req[q]
    BY <1>0, <1>7, Ends DEF DeleteUser
  <2>2. /\ role' \in [Users -> Roles \cup {"none"}] /\ named' \in 0 .. MaxUsers
        /\ live' \subseteq live /\ members' \subseteq members
    BY <1>0, <1>7, ConstantsAssumption DEF DeleteUser, TypeOK
  <2>3. usurped' \in BOOLEAN
    BY <1>0, <1>7 DEF DeleteUser, Usurp, TypeOK
  <2>4. TypeOK'
    BY <1>0, <1>7, <2>1, <2>2, <2>3 DEF DeleteUser, TypeOK, nodeVars
  <2> QED
    BY <1>7, <2>1, <2>2, <2>4 DEF DeleteUser, TypeInv, Exchanging, Idle
<1>8. CASE RequestDies(r)
  BY <1>8, IdleType, TypeMove DEF RequestDies, Done, Idle, tokenVars
<1> QED
  BY <1>1, <1>2, <1>3, <1>4, <1>5, <1>6, <1>7, <1>8 DEF Begin, Continue

\* A change of the projects or the end of a session preserves TypeInv.
LEMMA TypeFrame ==
    ASSUME TypeInv, live' \subseteq live, owner' \in [Projects -> 0 .. MaxUsers],
           deleted' \subseteq Projects, members' \subseteq Users \X Projects,
           UNCHANGED <<nodeVars, userVars, minted, claim, ofUser, parent, root, raced, req,
                       edits, usurped>>
    PROVE  TypeInv'
<1>1. TypeOK'
  BY DEF TypeInv, TypeOK, nodeVars, userVars
<1> QED
  BY <1>1 DEF TypeInv, userVars, Exchanging

\* Every step that one statement makes preserves TypeInv.
LEMMA AtOnceType ==
    ASSUME TypeInv, NEW t \in Tokens, AtOnce(t)
    PROVE  TypeInv'
<1>0. TypeOK
  BY DEF TypeInv
<1>1. CASE Logout(t)
  BY <1>0, <1>1, TypeFrame DEF Logout, projectVars, TypeOK
<1>2. ASSUME NEW rl \in Roles, CreateUser(t, rl)
      PROVE  TypeInv'
  <2>1. /\ born' \in 0 .. MaxUsers /\ role' \in [Users -> Roles \cup {"none"}]
    BY <1>0, <1>2, NewUserType DEF CreateUser
  <2>2. TypeOK'
    BY <1>0, <1>2, <2>1 DEF CreateUser, TypeOK, nodeVars, tokenVars, projectVars
  <2> QED
    BY <1>2, <2>2 DEF CreateUser, TypeInv, tokenVars, Exchanging
<1>3. ASSUME NEW u \in Users, NEW rl \in Roles \cup {"none"}, NEW pass \in BOOLEAN,
             UpdateUser(t, u, rl, pass)
      PROVE  TypeInv'
  <2>1. /\ req' \in [Requests -> Request]
        /\ \A r \in Requests : req'[r].at = req[r].at /\ req'[r].by = req[r].by
    BY <1>0, <1>3, UpdateRaces
  <2>2. edits \in 0 .. MaxEdits /\ edits < MaxEdits /\ edits' = edits + 1 /\ edits' \in 0 .. MaxEdits
    BY <1>0, <1>3, ConstantsAssumption DEF UpdateUser, TypeOK
  <2>3. version' \in [Users -> 0 .. MaxEdits] /\ \A v \in Users : version'[v] <= edits'
    <3>1. version' = [version EXCEPT ![u] = version[u] + 1] /\ version \in [Users -> 0 .. MaxEdits]
      BY <1>0, <1>3 DEF UpdateUser, TypeOK
    <3>2. \A v \in Users : version[v] <= edits
      BY DEF TypeInv
    <3>3. ASSUME NEW v \in Users
          PROVE  version'[v] \in 0 .. MaxEdits /\ version'[v] <= edits'
      BY <2>2, <3>1, <3>2, ConstantsAssumption
    <3> QED
      BY <3>1, <3>3
  <2>4. role' \in [Users -> Roles \cup {"none"}]
    BY <1>0, <1>3 DEF UpdateUser, TypeOK
  <2>5. usurped' \in BOOLEAN /\ live' \subseteq live
    BY <1>3 DEF UpdateUser, Usurp
  <2>6. TypeOK'
    BY <1>0, <1>3, <2>1, <2>2, <2>3, <2>4, <2>5 DEF UpdateUser, TypeOK, nodeVars, projectVars
  <2> QED
    BY <1>3, <2>1, <2>3, <2>5, <2>6 DEF UpdateUser, TypeInv, Exchanging
<1>4. ASSUME NEW p \in Projects, CreateProject(t, p) \/ DeleteProject(t, p)
      PROVE  TypeInv'
  <2>1. owner' \in [Projects -> 0 .. MaxUsers] /\ deleted' \subseteq Projects
    BY <1>0, <1>4 DEF CreateProject, DeleteProject, TypeOK
  <2> QED
    BY <1>0, <1>4, <2>1, TypeFrame DEF CreateProject, DeleteProject, tokenVars, TypeOK
<1>5. ASSUME NEW p \in Projects, NEW u \in Users, AddMember(t, u, p)
      PROVE  TypeInv'
  BY <1>0, <1>5, TypeFrame DEF AddMember, tokenVars, TypeOK
<1>6. ASSUME NEW m \in members, RemoveMember(t, m)
      PROVE  TypeInv'
  BY <1>0, <1>6, TypeFrame DEF RemoveMember, tokenVars, TypeOK
<1> QED
  BY <1>1, <1>2, <1>3, <1>4, <1>5, <1>6 DEF AtOnce

\* Every step preserves TypeInv.
LEMMA TypeStep == TypeInv /\ [Next]_vars => TypeInv'
<1> SUFFICES ASSUME TypeInv, [Next]_vars PROVE TypeInv'
  OBVIOUS
<1>0. TypeOK
  BY DEF TypeInv
<1>1. CASE UNCHANGED vars
  BY <1>1 DEF vars, nodeVars, userVars, tokenVars, projectVars, TypeInv, TypeOK, Exchanging
<1>2. ASSUME NEW n \in Nodes, BootCount(n)
      PROVE  TypeInv'
  <2>1. boot' \in [Nodes -> {"down", "seed", "up"}]
    BY <1>0, <1>2 DEF BootCount, TypeOK
  <2>2. TypeOK'
    BY <1>0, <1>2, <2>1 DEF BootCount, TypeOK, userVars, tokenVars, projectVars
  <2> QED
    BY <1>2, <2>2 DEF BootCount, TypeInv, userVars, tokenVars, Exchanging
<1>3. ASSUME NEW n \in Nodes, BootSeed(n)
      PROVE  TypeInv'
  <2>1. boot' \in [Nodes -> {"down", "seed", "up"}]
    BY <1>0, <1>3 DEF BootSeed, TypeOK
  <2>2. /\ born' \in 0 .. MaxUsers /\ role' \in [Users -> Roles \cup {"none"}]
        /\ named' \in 0 .. MaxUsers /\ seeds' \in Nat
    <3>1. CASE NewUser("admin") /\ named' = born + 1 /\ seeds' = seeds + 1
      <4>1. /\ born' \in 0 .. MaxUsers /\ role' \in [Users -> Roles \cup {"none"}]
        BY <1>0, <3>1, NewUserType DEF Roles
      <4> QED
        BY <1>0, <3>1, <4>1 DEF NewUser, TypeOK
    <3>2. CASE UNCHANGED <<seeds, born, role, named>>
      BY <1>0, <3>2 DEF TypeOK
    <3> QED
      BY <1>3, <3>1, <3>2 DEF BootSeed
  <2>3. TypeOK'
    BY <1>0, <1>3, <2>1, <2>2 DEF BootSeed, TypeOK, tokenVars, projectVars
  <2> QED
    BY <1>3, <2>3 DEF BootSeed, TypeInv, tokenVars, Exchanging
<1> QED
  BY <1>1, <1>2, <1>3, RequestType, AtOnceType DEF Next, Boot

\* The initial states are well typed.
LEMMA InitType == Init => TypeInv
<1> SUFFICES ASSUME Init PROVE TypeInv
  OBVIOUS
<1>1. /\ 0 \in 0 .. MaxUsers /\ 0 \in 0 .. MaxTokens /\ 0 \in 0 .. MaxEdits
      /\ version \in [Users -> 0 .. MaxEdits] /\ root \in [Tokens -> 0 .. MaxEdits]
      /\ parent \in [Tokens -> 0 .. MaxTokens] /\ ofUser \in [Tokens -> 0 .. MaxUsers]
      /\ owner \in [Projects -> 0 .. MaxUsers]
  BY ConstantsAssumption DEF Init
<1>2. TypeOK
  BY <1>1, IdleType DEF Init, TypeOK
<1> QED
  BY <1>2 DEF Init, TypeInv, Exchanging, Idle

\* Every reachable state is well typed: in particular no number of overlapping
\* logins and updates gives a role or a token that was not made
\* (auth_routes.rs, auth_service.rs).
THEOREM TypeCorrect == Spec => []TypeOK
<1>1. TypeInv => TypeOK
  BY DEF TypeInv
<1> QED
  BY <1>1, InitType, TypeStep, PTL DEF Spec

-----------------------------------------------------------------------------
(* References                                                              *)

\* ReferencesLive, and what keeps it: no account is made twice, requests are about
\* accounts, only accounts have made tokens, and nobody deletes their own.
RefInv ==
    /\ ReferencesLive
    /\ \A u \in Users : u > born => role[u] = "none"
    /\ \A t \in Tokens : claim[t] # "none" => ofUser[t] \in Users
    /\ \A r \in Requests : req[r].at # "idle" => req[r].who \in Users
    /\ \A r \in Requests : req[r].at = "delete" => req[r].by \in Users /\ req[r].by # req[r].who

\* A request that moves to x, with tokens that may go.
LEMMA RefMove ==
    ASSUME TypeInv, RefInv, NEW r \in Requests, NEW x \in Request, req' = [req EXCEPT ![r] = x],
           x.at # "idle" => x.who \in Users,
           x.at = "delete" => x.by \in Users /\ x.by # x.who, live' \subseteq live,
           UNCHANGED <<userVars, claim, ofUser, projectVars>>
    PROVE  RefInv'
<1>1. /\ req'[r] = x /\ \A q \in Requests : q # r => req'[q] = req[q]
  BY Moves DEF TypeInv
<1>2. ReferencesLive'
  BY DEF RefInv, ReferencesLive, Alive, userVars, projectVars
<1> QED
  BY <1>1, <1>2 DEF RefInv, userVars

\* A new token belongs to an account.
LEMMA MintRef ==
    ASSUME TypeInv, RefInv, NEW r \in Requests, NEW t, NEW seen, NEW race, Mint(r, t, seen, race)
    PROVE  RefInv'
<1>0. TypeOK /\ minted \in 0 .. MaxTokens
  BY DEF TypeInv, TypeOK
<1>1. /\ req'[r] = Idle /\ \A q \in Requests : q # r => req'[q] = req[q]
  BY <1>0, Ends DEF Mint
<1>2. UNCHANGED <<userVars, projectVars>>
  BY DEF Mint
<1>3. CASE UNCHANGED tokenVars
  <2>1. ReferencesLive'
    BY <1>2, <1>3 DEF RefInv, ReferencesLive, Alive, userVars, projectVars, tokenVars
  <2> QED
    BY <1>1, <1>2, <1>3, <2>1 DEF RefInv, userVars, tokenVars, Idle
<1>4. CASE req[r].who \in Alive
  <2> DEFINE m == minted + 1
  <2>1. /\ live' = live \cup {m}
        /\ claim' = [claim EXCEPT ![m] = req[r].role]
        /\ ofUser' = [ofUser EXCEPT ![m] = req[r].who]
    BY <1>4 DEF Mint
  <2>2. m \in Tokens
    BY <1>0, ConstantsAssumption DEF Mint, Tokens
  <2>3. /\ ofUser'[m] = req[r].who
        /\ \A s \in Tokens : s # m => ofUser'[s] = ofUser[s] /\ claim'[s] = claim[s]
    BY <1>0, <2>1, <2>2 DEF TypeOK
  <2>4. live \subseteq Tokens /\ Alive' = Alive /\ Alive \subseteq Users
    BY <1>0, <1>2 DEF TypeOK, Alive, userVars
  <2>5. ReferencesLive'
    BY <1>2, <1>4, <2>1, <2>3, <2>4 DEF RefInv, ReferencesLive, projectVars
  <2>6. \A s \in Tokens : claim'[s] # "none" => ofUser'[s] \in Users
    BY <1>4, <2>3, <2>4 DEF RefInv
  <2> QED
    BY <1>1, <1>2, <2>5, <2>6 DEF RefInv, userVars, Idle
<1> QED
  BY <1>3, <1>4 DEF Mint

\* A new account is a new one.
LEMMA NewUserRef ==
    ASSUME TypeInv, RefInv, NEW rl \in Roles, NewUser(rl),
           UNCHANGED <<tokenVars, projectVars, req>>
    PROVE  RefInv'
<1>0. TypeOK /\ born \in 0 .. MaxUsers /\ born' = born + 1
  BY DEF TypeInv, TypeOK, NewUser
<1>1. /\ born + 1 \in Users
      /\ role'[born + 1] = rl /\ \A u \in Users : u # born + 1 => role'[u] = role[u]
  BY <1>0, NewUserType
<1>2. Alive \subseteq Alive'
  BY <1>1 DEF Alive, Roles
<1>3. ReferencesLive'
  BY <1>2 DEF RefInv, ReferencesLive, tokenVars, projectVars
<1>4. \A u \in Users : u > born' => role'[u] = "none"
  BY <1>0, <1>1 DEF RefInv, Users
<1> QED
  BY <1>3, <1>4 DEF RefInv, tokenVars

\* Every step of a request preserves RefInv.
LEMMA RequestRef ==
    ASSUME TypeInv, RefInv, NEW r \in Requests, Begin(r) \/ Continue(r) \/ RequestDies(r)
    PROVE  RefInv'
<1>0. TypeOK /\ req[r] \in Request
  BY DEF TypeInv, TypeOK
<1>c. 0 \in 0 .. MaxEdits /\ Users \subseteq 0 .. MaxUsers
  BY ConstantsAssumption DEF Users
<1>1. ASSUME NEW u \in Users, Login(r, u)
      PROVE  RefInv'
  <2> DEFINE x == [Idle EXCEPT !.at = "login", !.who = u, !.role = role[u], !.seen = version[u]]
  <2>1. role[u] \in Roles \cup {"none"} /\ version[u] \in 0 .. MaxEdits
    BY <1>0 DEF TypeOK
  <2>2. x \in Request /\ x.at = "login" /\ x.who = u
    BY <1>c, <2>1 DEF Idle, Request, Steps
  <2> QED
    BY <1>1, <2>2, RefMove DEF Login, tokenVars
<1>2. ASSUME NEW t \in Tokens, Refresh(r, t)
      PROVE  RefInv'
  <2> DEFINE x == [Idle EXCEPT !.at = "consumed", !.by = t, !.who = ofUser[t]]
  <2>1. ofUser[t] \in Users
    BY <1>2 DEF Refresh, RefInv, ReferencesLive, Alive
  <2>2. x \in Request /\ x.at = "consumed" /\ x.who = ofUser[t]
    BY <1>c, <2>1 DEF Idle, Request, Steps
  <2> QED
    BY <1>2, <2>1, <2>2, RefMove DEF Refresh
<1>3. ASSUME NEW t \in Tokens, NEW u \in Users, DeleteTokens(r, t, u)
      PROVE  RefInv'
  <2> DEFINE x == [Idle EXCEPT !.at = "delete", !.by = ofUser[t], !.who = u]
  <2>1. ofUser[t] \in Users /\ u # ofUser[t]
    BY <1>3 DEF DeleteTokens, AsAdmin, RefInv
  <2>2. x \in Request /\ x.who = u /\ x.by = ofUser[t]
    BY <1>c, <2>1 DEF Idle, Request, Steps
  <2>3. req' = [req EXCEPT ![r] = x] /\ live' \subseteq live
        /\ UNCHANGED <<userVars, claim, ofUser, projectVars>>
    BY <1>3 DEF DeleteTokens
  <2> HIDE DEF x
  <2> QED
    BY <2>1, <2>2, <2>3, RefMove
<1>4. CASE LoginInsert(r) \/ RefreshInsert(r)
  BY <1>4, MintRef DEF LoginInsert, RefreshInsert
<1>5. CASE RefreshFind(r)
  <2>1. CASE req[r].who \in Alive
    <3> DEFINE x == [req[r] EXCEPT !.at = "found", !.role = role[req[r].who]]
    <3>1. role[req[r].who] \in Roles \cup {"none"} /\ req[r].who \in Users
      BY <1>0, <2>1 DEF TypeOK, Alive
    <3>2. x \in Request /\ x.at = "found" /\ x.who = req[r].who
      BY <1>0, <3>1 DEF Request, Steps
    <3>3. req' = [req EXCEPT ![r] = x]
      BY <1>0, <1>5, <2>1 DEF RefreshFind
    <3> HIDE DEF x
    <3> QED
      BY <1>5, <3>1, <3>2, <3>3, RefMove DEF RefreshFind, tokenVars
  <2>2. CASE Done(r)
    BY <1>5, <2>2, IdleType, RefMove DEF RefreshFind, Done, Idle, tokenVars
  <2> QED
    BY <1>5, <2>1, <2>2 DEF RefreshFind
<1>6. CASE DeleteUser(r)
  <2>1. /\ req'[r] = Idle /\ \A q \in Requests : q # r => req'[q] = req[q]
    BY <1>0, <1>6, Ends DEF DeleteUser
  <2>2. UNCHANGED <<born, claim, ofUser, owner>>
    BY <1>6 DEF DeleteUser
  <2>3. CASE UNCHANGED <<role, named, live, members, usurped>>
    <3>1. ReferencesLive'
      BY <2>2, <2>3 DEF RefInv, ReferencesLive, Alive
    <3> QED
      BY <2>1, <2>2, <2>3, <3>1 DEF RefInv, Idle
  <2>4. CASE req[r].who \in Alive /\ Owned(req[r].who) = {}
    <3>1. /\ role' = [role EXCEPT ![req[r].who] = "none"]
          /\ live' = live \ OfUser(req[r].who)
          /\ members' = {m \in members : m[1] # req[r].who}
      BY <1>6, <2>4 DEF DeleteUser
    <3>2. \A u \in Users : role'[u] = IF u = req[r].who THEN "none" ELSE role[u]
      BY <1>0, <3>1 DEF TypeOK
    <3>3. Alive' = Alive \ {req[r].who}
      BY <3>2 DEF Alive
    <3>4. \A t \in live' : t \in live /\ ofUser[t] # req[r].who
      BY <1>0, <3>1 DEF OfUser, TypeOK
    <3>5. \A p \in Projects : owner[p] # req[r].who
      BY <2>4 DEF Owned
    <3>6. ReferencesLive'
      BY <2>2, <3>1, <3>3, <3>4, <3>5 DEF RefInv, ReferencesLive
    <3> QED
      BY <2>1, <2>2, <3>2, <3>6 DEF RefInv, Idle
  <2> QED
    BY <1>6, <2>3, <2>4 DEF DeleteUser
<1>7. CASE RequestDies(r)
  BY <1>7, IdleType, RefMove DEF RequestDies, Done, Idle, tokenVars
<1> QED
  BY <1>1, <1>2, <1>3, <1>4, <1>5, <1>6, <1>7 DEF Begin, Continue

\* Every step that one statement makes preserves RefInv.
LEMMA AtOnceRef ==
    ASSUME TypeInv, RefInv, NEW t \in Tokens, AtOnce(t)
    PROVE  RefInv'
<1>0. TypeOK
  BY DEF TypeInv
<1>1. CASE Logout(t)
  <2>1. ReferencesLive'
    BY <1>1 DEF Logout, RefInv, ReferencesLive, Alive, userVars, projectVars
  <2> QED
    BY <1>1, <2>1 DEF Logout, RefInv, userVars
<1>2. ASSUME NEW rl \in Roles, CreateUser(t, rl)
      PROVE  RefInv'
  BY <1>2, NewUserRef DEF CreateUser
<1>3. ASSUME NEW u \in Users, NEW rl \in Roles \cup {"none"}, NEW pass \in BOOLEAN,
             UpdateUser(t, u, rl, pass)
      PROVE  RefInv'
  <2>1. \A r \in Requests :
          req'[r].at = req[r].at /\ req'[r].by = req[r].by /\ req'[r].who = req[r].who
    BY <1>0, <1>3, UpdateRaces
  <2>2. \A v \in Users : role'[v] = "none" <=> role[v] = "none"
    BY <1>0, <1>3 DEF UpdateUser, TypeOK, Alive, Roles
  <2>3. Alive' = Alive /\ live' \subseteq live
    BY <1>3, <2>2 DEF Alive, UpdateUser
  <2>4. UNCHANGED <<born, claim, ofUser, projectVars>>
    BY <1>3 DEF UpdateUser
  <2>5. ReferencesLive'
    BY <2>3, <2>4 DEF RefInv, ReferencesLive, projectVars
  <2> QED
    BY <2>1, <2>2, <2>4, <2>5 DEF RefInv
<1>4. ASSUME NEW p \in Projects, CreateProject(t, p)
      PROVE  RefInv'
  <2>1. \A q \in Projects : owner'[q] = IF q = p THEN ofUser[t] ELSE owner[q]
    BY <1>0, <1>4 DEF CreateProject, TypeOK
  <2>2. UNCHANGED <<userVars, tokenVars, members, req>> /\ ofUser[t] \in Alive
    BY <1>4 DEF CreateProject
  <2>3. ReferencesLive'
    BY <2>1, <2>2 DEF RefInv, ReferencesLive, Alive, userVars, tokenVars
  <2> QED
    BY <2>2, <2>3 DEF RefInv, userVars, tokenVars
<1>5. CASE \/ \E p \in Projects : DeleteProject(t, p) \/ \E u \in Users : AddMember(t, u, p)
           \/ \E m \in members : RemoveMember(t, m)
  <2>1. /\ UNCHANGED <<userVars, tokenVars, owner, req>>
        /\ \A m \in members' : m \in members \/ m[1] \in Alive
    BY <1>5 DEF DeleteProject, AddMember, RemoveMember
  <2>2. ReferencesLive'
    BY <2>1 DEF RefInv, ReferencesLive, Alive, userVars, tokenVars
  <2> QED
    BY <2>1, <2>2 DEF RefInv, userVars, tokenVars
<1> QED
  BY <1>1, <1>2, <1>3, <1>4, <1>5 DEF AtOnce

\* Every step preserves RefInv.
LEMMA RefStep == TypeInv /\ RefInv /\ [Next]_vars => RefInv'
<1> SUFFICES ASSUME TypeInv, RefInv, [Next]_vars PROVE RefInv'
  OBVIOUS
<1>1. CASE UNCHANGED <<userVars, tokenVars, projectVars, req>>
  <2>1. ReferencesLive'
    BY <1>1 DEF RefInv, ReferencesLive, Alive, userVars, tokenVars, projectVars
  <2> QED
    BY <1>1, <2>1 DEF RefInv, userVars, tokenVars
<1>2. CASE UNCHANGED vars
  BY <1>1, <1>2 DEF vars
<1>3. ASSUME NEW n \in Nodes, Boot(n)
      PROVE  RefInv'
  <2>1. CASE NewUser("admin") /\ UNCHANGED <<tokenVars, projectVars, req>>
    BY <2>1, NewUserRef DEF Roles
  <2> QED
    BY <1>1, <1>3, <2>1 DEF Boot, BootCount, BootSeed, userVars
<1> QED
  BY <1>2, <1>3, RequestRef, AtOnceRef DEF Next

LEMMA RefInit == Init => RefInv
  BY DEF Init, RefInv, ReferencesLive, Alive, Idle

\* Tokens, projects and memberships belong to accounts that exist, however deletes
\* of accounts overlap with logins, exchanges and new projects (User::delete).
THEOREM ReferencesSafe == Spec => []ReferencesLive
<1>1. RefInv => ReferencesLive
  BY DEF RefInv
<1> QED
  BY <1>1, InitType, TypeStep, RefInit, RefStep, PTL DEF Spec

-----------------------------------------------------------------------------
(* Sessions                                                                *)

\* What a request that signs in has read, or the token it exchanges, is as current
\* as SessionCurrent asks of the token it is going to make.
SessionInv ==
    /\ SessionCurrent
    /\ \A r \in Requests : req[r].at = "login" => req[r].seen = version[req[r].who] \/ req[r].racing
    /\ \A r \in Requests : Exchanging(r) =>
          root[req[r].by] = version[req[r].who] \/ raced[req[r].by] \/ req[r].racing

\* A new token is as current as what the request has read.
LEMMA MintSession ==
    ASSUME TypeInv, RefInv, SessionInv, NEW r \in Requests, NEW t, NEW seen, NEW race,
           Mint(r, t, seen, race), req[r].who \in Users => seen = version[req[r].who] \/ race
    PROVE  SessionInv'
<1>0. TypeOK /\ minted \in 0 .. MaxTokens /\ minted < MaxTokens
  BY DEF TypeInv, TypeOK, Mint
<1>1. /\ req'[r] = Idle /\ \A q \in Requests : q # r => req'[q] = req[q]
  BY <1>0, Ends DEF Mint
<1>2. UNCHANGED version
  BY DEF Mint, userVars
<1>3. CASE UNCHANGED tokenVars
  <2>1. SessionCurrent'
    BY <1>2, <1>3 DEF SessionInv, SessionCurrent, tokenVars
  <2> QED
    BY <1>1, <1>2, <1>3, <2>1 DEF SessionInv, tokenVars, Exchanging, Idle
<1>4. CASE req[r].who \in Alive
  <2> DEFINE m == minted + 1
  <2>1. /\ live' = live \cup {m}
        /\ ofUser' = [ofUser EXCEPT ![m] = req[r].who]
        /\ root' = [root EXCEPT ![m] = seen]
        /\ raced' = [raced EXCEPT ![m] = race]
    BY <1>4 DEF Mint
  <2>2. m \in Tokens /\ \A s \in 1 .. minted : s \in Tokens /\ s # m
    BY <1>0, ConstantsAssumption DEF Tokens
  <2>3. /\ ofUser'[m] = req[r].who /\ root'[m] = seen /\ raced'[m] = race
        /\ \A s \in Tokens : s # m => /\ ofUser'[s] = ofUser[s] /\ root'[s] = root[s]
                                      /\ raced'[s] = raced[s]
    BY <1>0, <2>1, <2>2 DEF TypeOK
  <2>4. req[r].who \in Users
    BY <1>4 DEF Alive
  <2>5. SessionCurrent'
    <3>1. ASSUME NEW s \in live
          PROVE  root'[s] = version'[ofUser'[s]] \/ raced'[s]
      <4>1. s \in Tokens /\ s # m
        BY <2>2 DEF TypeInv
      <4> QED
        BY <1>2, <2>3, <4>1 DEF SessionInv, SessionCurrent
    <3>2. root'[m] = version'[ofUser'[m]] \/ raced'[m]
      BY <1>2, <2>3, <2>4
    <3> QED
      BY <2>1, <3>1, <3>2 DEF SessionCurrent
  <2>6. ASSUME NEW q \in Requests, Exchanging(q)'
        PROVE  root'[req'[q].by] = version'[req'[q].who] \/ raced'[req'[q].by] \/ req'[q].racing
    <3>1. q # r /\ req'[q] = req[q] /\ Exchanging(q)
      BY <1>1, <2>6 DEF Exchanging, Idle
    <3>2. req[q].by \in Tokens /\ req[q].by # m
      BY <2>2, <3>1 DEF TypeInv
    <3> QED
      BY <1>2, <2>3, <3>1, <3>2 DEF SessionInv
  <2>7. ASSUME NEW q \in Requests, req'[q].at = "login"
        PROVE  req'[q].seen = version'[req'[q].who] \/ req'[q].racing
    BY <1>1, <1>2, <2>7 DEF SessionInv, Idle
  <2> QED
    BY <2>5, <2>6, <2>7 DEF SessionInv
<1> QED
  BY <1>3, <1>4 DEF Mint

\* A request that moves to x, with tokens that may go.
LEMMA SessionMove ==
    ASSUME TypeInv, SessionInv, NEW r \in Requests, NEW x \in Request,
           req' = [req EXCEPT ![r] = x],
           x.at = "login" => x.seen = version[x.who] \/ x.racing,
           x.at \in {"consumed", "found"} => root[x.by] = version[x.who] \/ raced[x.by] \/ x.racing,
           live' \subseteq live, UNCHANGED <<version, ofUser, root, raced>>
    PROVE  SessionInv'
<1>1. /\ req'[r] = x /\ \A q \in Requests : q # r => req'[q] = req[q]
  BY Moves DEF TypeInv
<1>2. SessionCurrent'
  BY DEF SessionInv, SessionCurrent
<1> QED
  BY <1>1, <1>2 DEF SessionInv, Exchanging

\* Every step of a request preserves SessionInv.
LEMMA RequestSession ==
    ASSUME TypeInv, RefInv, SessionInv, NEW r \in Requests,
           Begin(r) \/ Continue(r) \/ RequestDies(r)
    PROVE  SessionInv'
<1>0. TypeOK /\ req[r] \in Request
  BY DEF TypeInv, TypeOK
<1>c. 0 \in 0 .. MaxEdits /\ Users \subseteq 0 .. MaxUsers
  BY ConstantsAssumption DEF Users
<1>1. ASSUME NEW u \in Users, Login(r, u)
      PROVE  SessionInv'
  <2> DEFINE x == [Idle EXCEPT !.at = "login", !.who = u, !.role = role[u], !.seen = version[u]]
  <2>1. role[u] \in Roles \cup {"none"} /\ version[u] \in 0 .. MaxEdits
    BY <1>0 DEF TypeOK
  <2>2. x \in Request /\ x.at = "login" /\ x.who = u /\ x.seen = version[u]
    BY <1>c, <2>1 DEF Idle, Request, Steps
  <2>3. /\ req' = [req EXCEPT ![r] = x] /\ UNCHANGED <<version, live, ofUser, root, raced>>
    BY <1>1 DEF Login, tokenVars, userVars
  <2> HIDE DEF x
  <2> QED
    BY <2>2, <2>3, SessionMove
<1>2. ASSUME NEW t \in Tokens, Refresh(r, t)
      PROVE  SessionInv'
  <2> DEFINE x == [Idle EXCEPT !.at = "consumed", !.by = t, !.who = ofUser[t]]
  <2>1. ofUser[t] \in Users
    BY <1>2 DEF Refresh, RefInv, ReferencesLive, Alive
  <2>2. x \in Request /\ x.at = "consumed" /\ x.who = ofUser[t] /\ x.by = t
    BY <1>c, <2>1 DEF Idle, Request, Steps
  <2>3. root[t] = version[ofUser[t]] \/ raced[t]
    BY <1>2 DEF Refresh, SessionInv, SessionCurrent
  <2>4. /\ req' = [req EXCEPT ![r] = x] /\ live' \subseteq live
        /\ UNCHANGED <<version, ofUser, root, raced>>
    BY <1>2 DEF Refresh, userVars
  <2> HIDE DEF x
  <2> QED
    BY <2>2, <2>3, <2>4, SessionMove
<1>3. ASSUME NEW t \in Tokens, NEW u \in Users, DeleteTokens(r, t, u)
      PROVE  SessionInv'
  <2> DEFINE x == [Idle EXCEPT !.at = "delete", !.by = ofUser[t], !.who = u]
  <2>1. ofUser[t] \in Users
    BY <1>3 DEF DeleteTokens, AsAdmin, RefInv
  <2>2. x \in Request /\ x.at = "delete"
    BY <1>c, <2>1 DEF Idle, Request, Steps
  <2>3. /\ req' = [req EXCEPT ![r] = x] /\ live' \subseteq live
        /\ UNCHANGED <<version, ofUser, root, raced>>
    BY <1>3 DEF DeleteTokens, userVars
  <2> HIDE DEF x
  <2> QED
    BY <2>2, <2>3, SessionMove
<1>4. CASE LoginInsert(r)
  <2>1. req[r].seen = version[req[r].who] \/ req[r].racing
    BY <1>4 DEF LoginInsert, SessionInv
  <2> QED
    BY <1>4, <2>1, MintSession DEF LoginInsert
<1>5. CASE RefreshFind(r)
  <2>1. CASE req[r].who \in Alive
    <3> DEFINE x == [req[r] EXCEPT !.at = "found", !.role = role[req[r].who]]
    <3>1. role[req[r].who] \in Roles \cup {"none"}
      BY <1>0, <2>1 DEF TypeOK, Alive
    <3>2. /\ x \in Request /\ x.at = "found" /\ x.who = req[r].who /\ x.by = req[r].by
          /\ x.racing = req[r].racing
      BY <1>0, <3>1 DEF Request, Steps
    <3>3. /\ req' = [req EXCEPT ![r] = x] /\ UNCHANGED <<version, live, ofUser, root, raced>>
      BY <1>0, <1>5, <2>1 DEF RefreshFind, userVars, tokenVars
    <3>4. root[req[r].by] = version[req[r].who] \/ raced[req[r].by] \/ req[r].racing
      BY <1>5 DEF RefreshFind, SessionInv, Exchanging
    <3> HIDE DEF x
    <3> QED
      BY <3>2, <3>3, <3>4, SessionMove
  <2>2. CASE Done(r)
    BY <1>5, <2>2, IdleType, SessionMove DEF RefreshFind, Done, Idle, tokenVars, userVars
  <2> QED
    BY <1>5, <2>1, <2>2 DEF RefreshFind
<1>6. CASE RefreshInsert(r)
  <2>1. root[req[r].by] = version[req[r].who] \/ (raced[req[r].by] \/ req[r].racing)
    BY <1>6 DEF RefreshInsert, SessionInv, Exchanging
  <2> QED
    BY <1>6, <2>1, MintSession DEF RefreshInsert
<1>7. CASE DeleteUser(r)
  <2>1. live' \subseteq live /\ UNCHANGED <<version, ofUser, root, raced>>
    BY <1>7 DEF DeleteUser
  <2> QED
    BY <1>7, <2>1, IdleType, SessionMove DEF DeleteUser, Done, Idle
<1>8. CASE RequestDies(r)
  BY <1>8, IdleType, SessionMove DEF RequestDies, Done, Idle, tokenVars, userVars
<1> QED
  BY <1>1, <1>2, <1>3, <1>4, <1>5, <1>6, <1>7, <1>8 DEF Begin, Continue

\* An update ends the sessions of the account and marks the sign-ins it runs into.
LEMMA UpdateSession ==
    ASSUME TypeInv, RefInv, SessionInv, NEW t \in Tokens, NEW u \in Users, NEW rl, NEW pass,
           UpdateUser(t, u, rl, pass)
    PROVE  SessionInv'
<1>0. TypeOK
  BY DEF TypeInv
<1>1. \A r \in Requests :
         /\ req'[r].at = req[r].at /\ req'[r].by = req[r].by /\ req'[r].who = req[r].who
         /\ req'[r].seen = req[r].seen
  BY <1>0, UpdateRaces
<1>2. \A r \in Requests : req[r].racing => req'[r].racing
  BY <1>0, UpdateRaces
<1>3. \A r \in Requests :
         (req[r].at = "login" \/ Exchanging(r)) /\ req[r].who = u => req'[r].racing
  BY <1>0, UpdateRaces
<1>4. /\ live' = live \ OfUser(u) /\ UNCHANGED <<ofUser, root, raced>>
      /\ \A v \in Users : v # u => version'[v] = version[v]
  BY <1>0 DEF UpdateUser, TypeOK
<1>5. SessionCurrent'
  <2>1. ASSUME NEW s \in live'
        PROVE  root[s] = version'[ofUser[s]] \/ raced[s]
    <3>1. s \in live /\ ofUser[s] # u /\ ofUser[s] \in Users
      BY <1>0, <1>4 DEF OfUser, TypeOK, RefInv, ReferencesLive, Alive
    <3> QED
      BY <1>4, <3>1 DEF SessionInv, SessionCurrent
  <2> QED
    BY <1>4, <2>1 DEF SessionCurrent
<1>6. ASSUME NEW r \in Requests, req'[r].at = "login"
      PROVE  req'[r].seen = version'[req'[r].who] \/ req'[r].racing
  <2>1. req[r].at = "login" /\ req[r].who \in Users
    BY <1>1, <1>6 DEF RefInv
  <2> QED
    BY <1>1, <1>2, <1>3, <1>4, <2>1 DEF SessionInv
<1>7. ASSUME NEW r \in Requests, Exchanging(r)'
      PROVE  root'[req'[r].by] = version'[req'[r].who] \/ raced'[req'[r].by] \/ req'[r].racing
  <2>1. Exchanging(r) /\ req[r].who \in Users
    BY <1>1, <1>7 DEF RefInv, Exchanging
  <2> QED
    BY <1>1, <1>2, <1>3, <1>4, <2>1 DEF SessionInv
<1> QED
  BY <1>5, <1>6, <1>7 DEF SessionInv

\* Every step preserves SessionInv.
LEMMA SessionStep == TypeInv /\ RefInv /\ SessionInv /\ [Next]_vars => SessionInv'
<1> SUFFICES ASSUME TypeInv, RefInv, SessionInv, [Next]_vars PROVE SessionInv'
  OBVIOUS
<1>1. CASE live' \subseteq live /\ UNCHANGED <<version, ofUser, root, raced, req>>
  <2>1. SessionCurrent'
    BY <1>1 DEF SessionInv, SessionCurrent
  <2> QED
    BY <1>1, <2>1 DEF SessionInv, Exchanging
<1>2. CASE UNCHANGED vars
  BY <1>1, <1>2 DEF vars, userVars, tokenVars
<1>3. ASSUME NEW n \in Nodes, Boot(n)
      PROVE  SessionInv'
  BY <1>1, <1>3 DEF Boot, BootCount, BootSeed, userVars, tokenVars
<1>4. ASSUME NEW t \in Tokens, AtOnce(t)
      PROVE  SessionInv'
  <2>1. CASE \E u \in Users, rl \in Roles \cup {"none"}, pass \in BOOLEAN :
               UpdateUser(t, u, rl, pass)
    BY <2>1, UpdateSession
  <2>2. CASE ~\E u \in Users, rl \in Roles \cup {"none"}, pass \in BOOLEAN :
               UpdateUser(t, u, rl, pass)
    BY <1>1, <1>4, <2>2 DEF AtOnce, Logout, CreateUser, CreateProject, DeleteProject, AddMember,
       RemoveMember, userVars, tokenVars
  <2> QED
    BY <2>1, <2>2
<1> QED
  BY <1>2, <1>3, <1>4, RequestSession DEF Next

LEMMA SessionInit == Init => SessionInv
  BY DEF Init, SessionInv, SessionCurrent, Exchanging, Idle

\* A change of an account ends every session of it, except one that is signing in at
\* that moment, for any number of exchanges and changes (update_user, refresh).
THEOREM SessionsSafe == Spec => []SessionCurrent
<1>1. SessionInv => SessionCurrent
  BY DEF SessionInv
<1> QED
  BY <1>1, InitType, TypeStep, RefInit, RefStep, SessionInit, SessionStep, PTL DEF Spec

-----------------------------------------------------------------------------
(* The exchange of tokens                                                   *)

\* A token with a row was not exchanged and is not being exchanged.
ExchangeInv ==
    /\ ExchangedOnce
    /\ \A t \in Tokens : parent[t] \in 0 .. minted
    /\ \A t \in live :
         /\ \A s \in Tokens : parent[s] # t
         /\ \A r \in Requests : Exchanging(r) => req[r].by # t

\* A new token is given for one that nobody else gave back.
LEMMA MintExchange ==
    ASSUME TypeInv, ExchangeInv, NEW r \in Requests, NEW t \in 0 .. minted, NEW seen, NEW race,
           Mint(r, t, seen, race), t = 0 \/ (Exchanging(r) /\ t = req[r].by)
    PROVE  ExchangeInv'
<1>0. TypeOK /\ minted \in 0 .. MaxTokens /\ minted < MaxTokens
  BY DEF TypeInv, TypeOK, Mint
<1>1. /\ ~Exchanging(r)'
      /\ \A q \in Requests : Exchanging(q)' => q # r /\ Exchanging(q) /\ req'[q] = req[q]
  <2>1. /\ req'[r] = Idle /\ \A q \in Requests : q # r => req'[q] = req[q]
    BY <1>0, Ends DEF Mint
  <2> QED
    BY <2>1 DEF Exchanging, Idle
<1>2. CASE UNCHANGED tokenVars
  <2>1. ExchangedOnce'
    BY <1>1, <1>2 DEF ExchangeInv, ExchangedOnce, Exchanging, tokenVars
  <2> QED
    BY <1>1, <1>2, <2>1 DEF ExchangeInv, tokenVars
<1>3. CASE req[r].who \in Alive
  <2> DEFINE m == minted + 1
  <2>1. /\ minted' = m /\ live' = live \cup {m} /\ parent' = [parent EXCEPT ![m] = t]
    BY <1>3 DEF Mint
  <2>2. m \in Tokens /\ m \notin 0 .. minted /\ 0 .. minted \subseteq 0 .. m
        /\ 1 .. minted \subseteq Tokens /\ 1 .. minted \subseteq 0 .. minted /\ 0 \notin 1 .. minted
    BY <1>0, ConstantsAssumption DEF Tokens
  <2>3. \A s \in Tokens : parent'[s] = IF s = m THEN t ELSE parent[s]
    BY <1>0, <2>1, <2>2 DEF TypeOK
  <2>4. \A s \in Tokens : parent'[s] \in 0 .. minted
    BY <2>3 DEF ExchangeInv
  <2>5. \A s \in Tokens : t # 0 => parent[s] # t
    BY DEF ExchangeInv, ExchangedOnce, Exchanging
  <2>6. \A s1, s2 \in Tokens : s1 # s2 /\ parent'[s1] # 0 => parent'[s1] # parent'[s2]
    <3>1. \A s1, s2 \in Tokens : s1 # s2 /\ parent[s1] # 0 => parent[s1] # parent[s2]
      BY DEF ExchangeInv, ExchangedOnce
    <3> QED
      BY <2>3, <2>5, <3>1
  <2>7. ASSUME NEW q \in Requests, Exchanging(q)'
        PROVE  /\ \A s \in Tokens : parent'[s] # req'[q].by
               /\ \A p \in Requests \ {q} : Exchanging(p)' => req'[p].by # req'[q].by
    <3>1. q # r /\ Exchanging(q) /\ req'[q] = req[q]
      BY <1>1, <2>7
    <3>2. req[q].by \in 1 .. minted
      BY <3>1 DEF TypeInv
    <3>3. /\ \A s \in Tokens : parent[s] # req[q].by
          /\ \A p \in Requests \ {q} : Exchanging(p) => req[p].by # req[q].by
      <4>1. PICK k \in Tokens : TRUE
        BY <2>2
      <4>2. ASSUME NEW s \in Tokens
            PROVE  /\ parent[s] # req[q].by
                   /\ \A p \in Requests \ {q} : Exchanging(p) => req[p].by # req[q].by
        BY <3>1 DEF ExchangeInv, ExchangedOnce, Exchanging
      <4> QED
        BY <4>1, <4>2
    <3>4. t # req[q].by
      BY <2>2, <3>1, <3>2, <3>3
    <3> QED
      BY <1>1, <2>3, <3>1, <3>3, <3>4
  <2>8. ExchangedOnce'
    BY <2>6, <2>7 DEF ExchangedOnce, Exchanging
  <2>9. ASSUME NEW s \in live'
        PROVE  /\ \A k \in Tokens : parent'[k] # s
               /\ \A q \in Requests : Exchanging(q)' => req'[q].by # s
    <3>1. CASE s = m
      BY <1>1, <2>2, <2>4, <3>1 DEF TypeInv
    <3>2. CASE s \in live
      <4>1. s \in 1 .. minted /\ t # s
        BY <2>2, <3>2 DEF TypeInv, ExchangeInv
      <4> QED
        BY <1>1, <2>3, <3>2, <4>1 DEF ExchangeInv
    <3> QED
      BY <2>1, <3>1, <3>2
  <2>10. \A s \in Tokens : parent'[s] \in 0 .. minted'
    BY <2>1, <2>2, <2>4
  <2> QED
    BY <2>8, <2>9, <2>10 DEF ExchangeInv
<1> QED
  BY <1>2, <1>3 DEF Mint

\* A request that goes on with the token it has, or ends.
LEMMA ExchangeFrame ==
    ASSUME ExchangeInv, UNCHANGED <<minted, parent>>, live' \subseteq live,
           \A q \in Requests : Exchanging(q)' => Exchanging(q) /\ req'[q].by = req[q].by
    PROVE  ExchangeInv'
<1>1. ExchangedOnce'
  BY DEF ExchangeInv, ExchangedOnce, Exchanging
<1> QED
  BY <1>1 DEF ExchangeInv

\* Every step preserves ExchangeInv.
LEMMA ExchangeStep == TypeInv /\ ExchangeInv /\ [Next]_vars => ExchangeInv'
<1> SUFFICES ASSUME TypeInv, ExchangeInv, [Next]_vars PROVE ExchangeInv'
  OBVIOUS
<1>0. TypeOK /\ minted \in 0 .. MaxTokens
  BY DEF TypeInv, TypeOK
<1>1. CASE live' \subseteq live /\ UNCHANGED <<minted, parent, req>>
  BY <1>1, ExchangeFrame DEF Exchanging
<1>2. CASE UNCHANGED vars
  BY <1>1, <1>2 DEF vars, tokenVars
<1>3. ASSUME NEW n \in Nodes, Boot(n)
      PROVE  ExchangeInv'
  BY <1>1, <1>3 DEF Boot, BootCount, BootSeed, tokenVars
<1>4. ASSUME NEW t \in Tokens, AtOnce(t)
      PROVE  ExchangeInv'
  <2>1. ASSUME NEW u \in Users, NEW rl \in Roles \cup {"none"}, NEW pass \in BOOLEAN,
               UpdateUser(t, u, rl, pass)
        PROVE  ExchangeInv'
    <3>1. \A r \in Requests : req'[r].at = req[r].at /\ req'[r].by = req[r].by
      BY <1>0, <2>1, UpdateRaces
    <3>2. live' \subseteq live /\ UNCHANGED <<minted, parent>>
      BY <2>1 DEF UpdateUser
    <3> QED
      BY <3>1, <3>2, ExchangeFrame DEF Exchanging
  <2>2. CASE ~\E u \in Users, rl \in Roles \cup {"none"}, pass \in BOOLEAN :
               UpdateUser(t, u, rl, pass)
    BY <1>1, <1>4, <2>2 DEF AtOnce, Logout, CreateUser, CreateProject, DeleteProject, AddMember,
       RemoveMember, tokenVars
  <2> QED
    BY <2>1, <2>2
<1>5. ASSUME NEW r \in Requests, NEW t \in Tokens, Refresh(r, t)
      PROVE  ExchangeInv'
  <2> DEFINE x == [Idle EXCEPT !.at = "consumed", !.by = t, !.who = ofUser[t]]
  <2>1. x \in Request /\ x.at = "consumed" /\ x.by = t
    <3>1. ofUser[t] \in 0 .. MaxUsers /\ 0 \in 0 .. MaxEdits
      BY <1>0, ConstantsAssumption DEF TypeOK
    <3> QED
      BY <3>1 DEF Idle, Request, Steps
  <2>2. req' = [req EXCEPT ![r] = x]
    BY <1>5 DEF Refresh
  <2> HIDE DEF x
  <2>3. req'[r] = x /\ \A q \in Requests : q # r => req'[q] = req[q]
    BY <1>0, <2>1, <2>2, Moves
  <2>4. t \in live /\ live' = live \ {t} /\ UNCHANGED <<minted, parent>> /\ ~Exchanging(r)
    BY <1>5 DEF Refresh, Exchanging
  <2>5. /\ \A s \in Tokens : parent[s] # t
        /\ \A q \in Requests : Exchanging(q) => req[q].by # t
    BY <2>4 DEF ExchangeInv
  <2>6. \A q \in Requests : Exchanging(q)' =>
           (q = r /\ req'[q].by = t) \/ (q # r /\ Exchanging(q) /\ req'[q] = req[q])
    BY <2>1, <2>3 DEF Exchanging
  <2>7. ASSUME NEW q \in Requests, Exchanging(q)'
        PROVE  /\ \A s \in Tokens : parent'[s] # req'[q].by
               /\ \A p \in Requests \ {q} : Exchanging(p)' => req'[p].by # req'[q].by
    <3>1. CASE q = r
      BY <2>1, <2>3, <2>4, <2>5, <2>6, <2>7, <3>1
    <3>2. CASE q # r
      <4>1. Exchanging(q) /\ req'[q] = req[q]
        BY <2>6, <2>7, <3>2
      <4>2. /\ \A s \in Tokens : parent[s] # req[q].by
            /\ \A p \in Requests \ {q} : Exchanging(p) => req[p].by # req[q].by
        BY <4>1 DEF ExchangeInv, ExchangedOnce, Exchanging
      <4> QED
        BY <2>4, <2>5, <2>6, <4>1, <4>2
    <3> QED
      BY <3>1, <3>2
  <2>8. ExchangedOnce'
    BY <2>4, <2>7 DEF ExchangeInv, ExchangedOnce, Exchanging
  <2>9. ASSUME NEW s \in live'
        PROVE  /\ \A k \in Tokens : parent'[k] # s
               /\ \A q \in Requests : Exchanging(q)' => req'[q].by # s
    BY <2>4, <2>6, <2>9 DEF ExchangeInv
  <2> QED
    BY <2>4, <2>8, <2>9 DEF ExchangeInv
<1>6. ASSUME NEW r \in Requests, LoginInsert(r)
      PROVE  ExchangeInv'
  <2>1. 0 \in 0 .. minted
    BY <1>0
  <2> QED
    BY <1>6, <2>1, MintExchange DEF LoginInsert
<1>7. ASSUME NEW r \in Requests, RefreshInsert(r)
      PROVE  ExchangeInv'
  <2>1. Exchanging(r) /\ req[r].by \in 1 .. minted
    BY <1>7 DEF RefreshInsert, TypeInv, Exchanging
  <2>2. req[r].by \in 0 .. minted
    BY <1>0, <2>1
  <2> QED
    BY <1>7, <2>1, <2>2, MintExchange DEF RefreshInsert
<1>8. ASSUME NEW r \in Requests, RefreshFind(r)
      PROVE  ExchangeInv'
  <2>1. req[r] \in Request /\ Exchanging(r) /\ UNCHANGED <<live, minted, parent>>
    BY <1>0, <1>8 DEF RefreshFind, Exchanging, TypeOK, tokenVars
  <2>2. \A q \in Requests : Exchanging(q)' => Exchanging(q) /\ req'[q].by = req[q].by
    <3>1. CASE Done(r)
      BY <1>0, <3>1, Ends DEF Exchanging, Idle
    <3>2. CASE req' = [req EXCEPT ![r].at = "found", ![r].role = role[req[r].who]]
      BY <1>0, <2>1, <3>2 DEF TypeOK, Exchanging, Request
    <3> QED
      BY <1>8, <3>1, <3>2 DEF RefreshFind
  <2> QED
    BY <2>1, <2>2, ExchangeFrame
<1>9. ASSUME NEW r \in Requests, DeleteUser(r) \/ RequestDies(r)
      PROVE  ExchangeInv'
  <2>1. /\ req'[r] = Idle /\ \A q \in Requests : q # r => req'[q] = req[q]
    BY <1>0, <1>9, Ends DEF DeleteUser, RequestDies
  <2>2. live' \subseteq live /\ UNCHANGED <<minted, parent>>
    BY <1>9 DEF DeleteUser, RequestDies, tokenVars
  <2> QED
    BY <2>1, <2>2, ExchangeFrame DEF Exchanging, Idle
<1>10. ASSUME NEW r \in Requests, NEW u \in Users, Login(r, u)
       PROVE  ExchangeInv'
  <2>1. /\ req'[r].at = "login" /\ \A q \in Requests : q # r => req'[q] = req[q]
    BY <1>0, <1>10 DEF Login, TypeOK, Idle
  <2>2. UNCHANGED <<live, minted, parent>>
    BY <1>10 DEF Login, tokenVars
  <2> QED
    BY <2>1, <2>2, ExchangeFrame DEF Exchanging
<1>11. ASSUME NEW r \in Requests, NEW t \in Tokens, NEW u \in Users, DeleteTokens(r, t, u)
       PROVE  ExchangeInv'
  <2>1. /\ req'[r].at = "delete" /\ \A q \in Requests : q # r => req'[q] = req[q]
    BY <1>0, <1>11 DEF DeleteTokens, TypeOK, Idle
  <2>2. live' \subseteq live /\ UNCHANGED <<minted, parent>>
    BY <1>11 DEF DeleteTokens
  <2> QED
    BY <2>1, <2>2, ExchangeFrame DEF Exchanging
<1> QED
  BY <1>2, <1>3, <1>4, <1>5, <1>6, <1>7, <1>8, <1>9, <1>10, <1>11 DEF Next, Begin, Continue

LEMMA ExchangeInit == Init => ExchangeInv
<1> SUFFICES ASSUME Init PROVE ExchangeInv
  OBVIOUS
<1>1. \A t \in Tokens : parent[t] = 0 /\ 0 \in 0 .. minted
  BY DEF Init
<1>2. live = {} /\ \A r \in Requests : ~Exchanging(r)
  BY DEF Init, Exchanging, Idle
<1>3. ExchangedOnce
  BY <1>1, <1>2 DEF ExchangedOnce, Exchanging
<1> QED
  BY <1>1, <1>2, <1>3 DEF ExchangeInv

\* A refresh token is exchanged at most once, for any number of requests that
\* present it at the same time (consume_by_hash).
THEOREM ExchangeSafe == Spec => []ExchangedOnce
<1>1. ExchangeInv => ExchangedOnce
  BY DEF ExchangeInv
<1> QED
  BY <1>1, InitType, TypeStep, ExchangeInit, ExchangeStep, PTL DEF Spec

-----------------------------------------------------------------------------
(* Administrators                                                          *)

\* Every step keeps an admin, or is taken by somebody who is none any more.
LEMMA AdminStep == TypeInv /\ RefInv /\ AdminRemains /\ [Next]_vars => AdminRemains'
<1> SUFFICES ASSUME TypeInv, RefInv, AdminRemains, [Next]_vars PROVE AdminRemains'
  OBVIOUS
<1>0. TypeOK
  BY DEF TypeInv
<1>1. CASE UNCHANGED <<seeds, usurped, role>>
  BY <1>1 DEF AdminRemains
<1>2. CASE UNCHANGED vars
  BY <1>1, <1>2 DEF vars, nodeVars, userVars
<1>3. ASSUME NEW rl \in Roles, NewUser(rl), UNCHANGED usurped, rl = "admin" \/ seeds' = seeds
      PROVE  AdminRemains'
  <2>1. /\ born + 1 \in Users /\ born \in 0 .. MaxUsers
        /\ role'[born + 1] = rl /\ \A u \in Users : u # born + 1 => role'[u] = role[u]
    BY <1>0, <1>3, NewUserType DEF TypeOK
  <2>2. CASE rl = "admin"
    BY <2>1, <2>2 DEF AdminRemains
  <2>3. CASE seeds' = seeds
    <3>1. role[born + 1] # "admin"
      <4>1. born + 1 > born
        BY <2>1
      <4> QED
        BY <2>1, <4>1 DEF RefInv
    <3> QED
      BY <1>3, <2>1, <2>3, <3>1 DEF AdminRemains
  <2> QED
    BY <1>3, <2>2, <2>3
<1>4. ASSUME NEW n \in Nodes, Boot(n)
      PROVE  AdminRemains'
  <2>1. CASE NewUser("admin") /\ UNCHANGED usurped
    BY <1>3, <2>1 DEF Roles
  <2> QED
    BY <1>1, <1>4, <2>1 DEF Boot, BootCount, BootSeed, userVars
<1>5. ASSUME NEW t \in Tokens, NEW u \in Users, NEW rl \in Roles \cup {"none"}, NEW pass \in BOOLEAN,
             UpdateUser(t, u, rl, pass)
      PROVE  AdminRemains'
  <2>1. ofUser[t] \in Users /\ ~(u = ofUser[t] /\ rl = "user")
    BY <1>5 DEF UpdateUser, AsAdmin, RefInv
  <2>2. role' = [role EXCEPT ![u] = IF rl = "none" THEN role[u] ELSE rl]
    BY <1>5 DEF UpdateUser
  <2>3. \A v \in Users : role'[v] = IF v = u /\ rl # "none" THEN rl ELSE role[v]
    BY <1>0, <2>2 DEF TypeOK
  <2>4. usurped' = (usurped \/ role[ofUser[t]] # "admin")
    BY <1>5 DEF UpdateUser, Usurp
  <2>5. CASE role[ofUser[t]] = "admin"
    <3>1. role'[ofUser[t]] = "admin"
      BY <2>1, <2>3, <2>5 DEF Roles
    <3> QED
      BY <2>1, <3>1 DEF AdminRemains
  <2>6. CASE role[ofUser[t]] # "admin"
    BY <2>4, <2>6 DEF AdminRemains
  <2> QED
    BY <2>5, <2>6
<1>6. ASSUME NEW t \in Tokens, AtOnce(t)
      PROVE  AdminRemains'
  <2>1. ASSUME NEW rl \in Roles, CreateUser(t, rl)
        PROVE  AdminRemains'
    BY <1>3, <2>1 DEF CreateUser, nodeVars
  <2>2. CASE \/ Logout(t)
             \/ \E p \in Projects : \/ CreateProject(t, p) \/ DeleteProject(t, p)
                                    \/ \E u \in Users : AddMember(t, u, p)
             \/ \E m \in members : RemoveMember(t, m)
    BY <1>1, <2>2 DEF Logout, CreateProject, DeleteProject, AddMember, RemoveMember, nodeVars, userVars
  <2> QED
    BY <1>5, <1>6, <2>1, <2>2 DEF AtOnce
<1>7. ASSUME NEW r \in Requests, DeleteUser(r)
      PROVE  AdminRemains'
  <2>1. req[r].by \in Users /\ req[r].by # req[r].who /\ seeds' = seeds
    BY <1>7 DEF DeleteUser, RefInv, nodeVars
  <2>2. CASE UNCHANGED <<role, usurped>>
    BY <1>1, <2>1, <2>2
  <2>3. CASE /\ role' = [role EXCEPT ![req[r].who] = "none"] /\ Usurp(req[r].by)
    <3>1. role'[req[r].by] = role[req[r].by]
      BY <1>0, <2>1, <2>3 DEF TypeOK
    <3>2. CASE role[req[r].by] = "admin"
      BY <2>1, <3>1, <3>2 DEF AdminRemains
    <3>3. CASE role[req[r].by] # "admin"
      BY <2>3, <3>3 DEF AdminRemains, Usurp
    <3> QED
      BY <3>2, <3>3
  <2> QED
    BY <1>7, <2>2, <2>3 DEF DeleteUser
<1>8. ASSUME NEW r \in Requests, \/ Begin(r) \/ RequestDies(r)
                                 \/ LoginInsert(r) \/ RefreshFind(r) \/ RefreshInsert(r)
      PROVE  AdminRemains'
  BY <1>1, <1>8 DEF Begin, Login, Refresh, DeleteTokens, RequestDies, LoginInsert, RefreshFind,
     RefreshInsert, Mint, nodeVars, userVars
<1> QED
  BY <1>2, <1>4, <1>6, <1>7, <1>8 DEF Next, Continue

\* AdminRemains with what it rests on, in every reachable state.
LEMMA AdminInvariant == Spec => [](TypeInv /\ RefInv /\ AdminRemains)
<1>1. Init => AdminRemains
  BY DEF Init, AdminRemains
<1> QED
  BY <1>1, InitType, TypeStep, RefInit, RefStep, AdminStep, PTL DEF Spec

\* An admin remains unless somebody who was none any more took one away, for any
\* number of admins that demote and delete each other (update_user, delete_user).
THEOREM AdminSafe == Spec => []AdminRemains
  BY AdminInvariant, PTL

\* A start of a process seeds the default admin only once, as long as AdminRemains
\* explains (the count of users in main).
THEOREM ReseedSafe == Spec => NoReseed
<1> DEFINE Seeds == \A n \in Nodes : boot[n] = "down" /\ boot'[n] = "seed" => seeds = 0 \/ usurped
<1>1. TypeInv /\ AdminRemains /\ [Next]_vars => [Seeds]_vars
  <2> SUFFICES ASSUME TypeInv, AdminRemains, Next, NEW n \in Nodes,
                      boot[n] = "down", boot'[n] = "seed"
               PROVE  seeds = 0 \/ usurped
    OBVIOUS
  <2>1. \E m \in Nodes : Boot(m)
    <3>1. ASSUME NEW r \in Requests, Begin(r) \/ Continue(r) \/ RequestDies(r)
          PROVE  boot' = boot
      BY <3>1 DEF Begin, Continue, Login, Refresh, DeleteTokens, RequestDies, LoginInsert,
         RefreshFind, RefreshInsert, Mint, DeleteUser, nodeVars
    <3>2. ASSUME NEW t \in Tokens, AtOnce(t)
          PROVE  boot' = boot
      BY <3>2 DEF AtOnce, Logout, CreateUser, UpdateUser, CreateProject, DeleteProject, AddMember,
         RemoveMember, nodeVars
    <3> QED
      BY <3>1, <3>2 DEF Next
  <2>2. PICK m \in Nodes : Boot(m)
    BY <2>1
  <2>3. m = n /\ Alive = {}
    BY <2>2 DEF Boot, BootCount, BootSeed, TypeInv, TypeOK
  <2>4. \A u \in Users : role[u] # "admin"
    BY <2>3 DEF Alive
  <2>5. ~(seeds > 0) \/ usurped
    BY <2>4 DEF AdminRemains
  <2> QED
    BY <2>5 DEF TypeInv, TypeOK
<1> QED
  BY <1>1, AdminInvariant, PTL DEF Spec, NoReseed
=============================================================================
