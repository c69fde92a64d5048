-------------------------- MODULE SessionCapacity --------------------------
(***************************************************************************)
(* What the session limits of docs/design.md promise: every provider has   *)
(* slots for logical sessions.  A session occupies a slot of a provider    *)
(* while a request of it uses the provider, and stays there, retained,     *)
(* after a delivered answer until it has idled out.  A request enters only *)
(* if its session already has a slot or the cap of the configuration it    *)
(* was admitted with leaves one.  Nothing is said about how the slots are  *)
(* kept.                                                                   *)
(***************************************************************************)
EXTENDS Integers, FiniteSets

CONSTANTS
    Requests,   \* downstream requests
    Ids,        \* identities of sessions, those of anonymous requests included
    Named,      \* the identities a caller supplied
    Providers,  \* provider references
    Configs     \* configurations: a cap per provider, 0 for none, < 0 if absent

VARIABLES
    caps,       \* the configuration of every request
    active,     \* per provider, the requests using it, with their identity
    retained    \* per provider, the sessions it keeps between requests

vars == <<caps, active, retained>>

Users(p) == {use[2] : use \in active[p]}

Init ==
    /\ caps \in [Requests -> Configs]
    /\ active = [p \in Providers |-> {}]
    /\ retained = [p \in Providers |-> {}]

\* A request begins or ends and uses no provider: its configuration is fixed
\* until it ends.
Configure(r) ==
    /\ \A p \in Providers : \A use \in active[p] : use[1] # r
    /\ \E c \in Configs : caps' = [caps EXCEPT ![r] = c]
    /\ UNCHANGED <<active, retained>>

\* Sessions may idle out, but never one that is in use.
IdleOut ==
    \A p \in Providers : /\ retained'[p] \subseteq retained[p]
                         /\ (retained[p] \ retained'[p]) \cap Users(p) = {}

Expire == IdleOut /\ UNCHANGED <<caps, active>>

Enter(r, s, p) ==
    /\ active' = [active EXCEPT ![p] = @ \cup {<<r, s>>}]
    /\ UNCHANGED caps
    /\ IdleOut
    /\ LET occupied == Users(p) \cup retained'[p]
       IN  \/ s \in occupied
           \/ caps[r][p] = 0
           \/ Cardinality(occupied) < caps[r][p]

\* The request gives its slot back, and may end with that.  Only a caller's
\* own session can be retained.
Leave(r, s, p, retain) ==
    /\ <<r, s>> \in active[p]
    /\ retain => s \in Named
    /\ active' = [active EXCEPT ![p] = @ \ {<<r, s>>}]
    /\ retained' = IF retain THEN [retained EXCEPT ![p] = @ \cup {s}] ELSE retained
    /\ caps' = caps \/ \E c \in Configs : caps' = [caps EXCEPT ![r] = c]

\* The gateway stops and drops all slots.
Close ==
    /\ active' = [p \in Providers |-> {}]
    /\ retained' = [p \in Providers |-> {}]
    /\ UNCHANGED caps

Next ==
    \/ Expire
    \/ \E r \in Requests :
          \/ Configure(r)
          \/ \E s \in Ids, p \in Providers :
                \/ Enter(r, s, p)
                \/ \E retain \in BOOLEAN : Leave(r, s, p, retain)
    \/ Close

Spec == Init /\ [][Next]_vars
============================================================================
