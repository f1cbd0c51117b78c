----------------------------- MODULE SharedLink -----------------------------
(***************************************************************************)
(* What a shared link promises the project that hands it out, whatever     *)
(* happens to the storages behind it: a download begins only while the     *)
(* link is open, with its password given and its limit not reached; it     *)
(* ends with a response that is counted, or with none; and the responses   *)
(* never exceed the limit. A link that was closed does not open again.     *)
(***************************************************************************)
EXTENDS Naturals

CONSTANTS
    Links,
    Requests,
    Protected,  \* the links with a password
    Limit,      \* Limit[l]: how often l may be used
    NoLink

VARIABLES
    state,      \* state[l]: none, open, closed or deleted
    given,      \* the links whose password was given
    inside,     \* inside[r]: the link whose file r is fetching, or NoLink
    served      \* served[l]: responses with the file

vars == <<state, given, inside, served>>

TypeOK ==
    /\ state \in [Links -> {"none", "open", "closed", "deleted"}]
    /\ given \subseteq Protected
    /\ inside \in [Requests -> Links \cup {NoLink}]
    /\ served \in [Links -> Nat]

Init ==
    /\ state = [l \in Links |-> "none"]
    /\ given = {}
    /\ inside = [r \in Requests |-> NoLink]
    /\ served = [l \in Links |-> 0]

Becomes(l, s) == state' = [state EXCEPT ![l] = s]

Create(l) ==
    /\ state[l] = "none" /\ Becomes(l, "open")
    /\ UNCHANGED <<given, inside, served>>

GivePassword(l) ==
    /\ state[l] = "open" /\ l \in Protected
    /\ given' = given \cup {l}
    /\ UNCHANGED <<state, inside, served>>

Admit(r, l) ==
    /\ inside[r] = NoLink /\ state[l] = "open"
    /\ l \in Protected => l \in given
    /\ served[l] < Limit[l]
    /\ inside' = [inside EXCEPT ![r] = l]
    /\ UNCHANGED <<state, given, served>>

\* A download that began before the link was closed may still be answered, a
\* link that was deleted answers nothing.
Serve(r, l) ==
    /\ inside[r] = l /\ state[l] # "deleted" /\ served[l] < Limit[l]
    /\ served' = [served EXCEPT ![l] = served[l] + 1]
    /\ inside' = [inside EXCEPT ![r] = NoLink]
    /\ UNCHANGED <<state, given>>

\* Downloads that end without the file: it is not found, the limit was reached
\* in the meantime, or the process ends with all it was doing.
Drop(some) ==
    /\ inside' = [r \in Requests |-> IF r \in some THEN NoLink ELSE inside[r]]
    /\ UNCHANGED <<state, given, served>>

\* Deactivated, or expired.
Close(l) ==
    /\ state[l] = "open" /\ Becomes(l, "closed")
    /\ UNCHANGED <<given, inside, served>>

Delete(l) ==
    /\ state[l] \in {"open", "closed"} /\ Becomes(l, "deleted")
    /\ UNCHANGED <<given, inside, served>>

Next ==
    \/ \E l \in Links : Create(l) \/ GivePassword(l) \/ Close(l) \/ Delete(l)
    \/ \E r \in Requests, l \in Links : Admit(r, l) \/ Serve(r, l)
    \/ \E some \in SUBSET Requests : Drop(some)

Spec == Init /\ [][Next]_vars
=============================================================================
