--------------------------- MODULE SerialSessions ---------------------------
(***************************************************************************)
(* What the engine promises about a session's append-only event log: one   *)
(* turn at a time holds the session, only the holder reads the history it  *)
(* resumes from and appends to the log, and no turn holds a session twice. *)
(* SessionOwners (session-owner.ts, turn.ts) is shown to implement this.   *)
(***************************************************************************)
EXTENDS Sequences

CONSTANTS Turns, Sessions, None

VARIABLES
    holder,     \* session -> the turn that holds it, or None
    served,     \* the turns that have held a session
    log,        \* session -> the turns that wrote its events, in order
    saw         \* turn -> the log it rebuilt its history from

vars == <<holder, served, log, saw>>

Init ==
    /\ holder = [s \in Sessions |-> None]
    /\ served = {}
    /\ log = [s \in Sessions |-> <<>>]
    /\ saw = [t \in Turns |-> <<>>]

Begin(s, t) ==
    /\ holder[s] = None
    /\ t \notin served
    /\ holder' = [holder EXCEPT ![s] = t]
    /\ served' = served \cup {t}
    /\ UNCHANGED <<log, saw>>

Recall(s, t) ==
    /\ holder[s] = t
    /\ saw' = [saw EXCEPT ![t] = log[s]]
    /\ UNCHANGED <<holder, served, log>>

Write(s, t) ==
    /\ holder[s] = t
    /\ log' = [log EXCEPT ![s] = Append(@, t)]
    /\ UNCHANGED <<holder, served, saw>>

End(s, t) ==
    /\ holder[s] = t
    /\ holder' = [holder EXCEPT ![s] = None]
    /\ UNCHANGED <<served, log, saw>>

Next ==
    \E s \in Sessions, t \in Turns :
        Begin(s, t) \/ Recall(s, t) \/ Write(s, t) \/ End(s, t)

Spec == Init /\ [][Next]_vars

=============================================================================
