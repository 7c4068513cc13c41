--------------------------- MODULE SessionLedger ---------------------------
(***************************************************************************)
(* What the session store promises, with no clock, locks or transactions:  *)
(* a session is opened once and closed once, and a request succeeds at an  *)
(* instant at which its session is open.                                   *)
(***************************************************************************)
CONSTANTS
    Request,    \* request slots
    Session,    \* session tokens
    Nobody      \* not a session

VARIABLES
    open,       \* sessions a cookie of which is good
    closed,     \* sessions that were revoked or have lapsed
    served      \* the session each request was last answered for, or Nobody

ledgerVars == <<open, closed, served>>

LedgerTypeOK ==
    /\ open \in SUBSET Session
    /\ closed \in SUBSET Session
    /\ served \in [Request -> Session \cup {Nobody}]

LedgerInit ==
    /\ open = {}
    /\ closed = {}
    /\ served = [r \in Request |-> Nobody]

Open(s) ==
    /\ s \notin open \cup closed
    /\ open' = open \cup {s}
    /\ UNCHANGED <<closed, served>>

Close(S) ==
    /\ S \subseteq open
    /\ open' = open \ S
    /\ closed' = closed \cup S
    /\ UNCHANGED served

Serve(r, s) ==
    /\ s \in open
    /\ served' = [served EXCEPT ![r] = s]
    /\ UNCHANGED <<open, closed>>

\* The request slot is taken by a request that has no answer yet.
Forget(r) ==
    /\ served' = [served EXCEPT ![r] = Nobody]
    /\ UNCHANGED <<open, closed>>

LedgerNext ==
    \/ \E s \in Session : Open(s)
    \/ \E S \in SUBSET Session : Close(S)
    \/ \E r \in Request : Forget(r) \/ (\E s \in Session : Serve(r, s))

LedgerSpec == LedgerInit /\ [][LedgerNext]_ledgerVars

\* A closed session stays closed, and no request succeeds on it again.
ClosedForGood ==
    [][/\ closed \subseteq closed'
       /\ \A r \in Request : served'[r] # served[r] => served'[r] \notin closed
      ]_ledgerVars

=============================================================================
