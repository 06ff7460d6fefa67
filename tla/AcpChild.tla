------------------------------ MODULE AcpChild ------------------------------
(***************************************************************************)
(* The child process of one external-agent session, from spawn to reaping  *)
(* (LiveAcpSession.open, #start, #closeOnce, #reapPartial, spawnAcpChild   *)
(* and terminateChild of prototype/src/acp-client.ts).                     *)
(*                                                                         *)
(* The agent's processes are the environment: the leader forks helpers in  *)
(* its group, any of them exits or outlives a SIGTERM, the agent answers a *)
(* request, refuses it or says nothing.  /bin/kill may fail as well.  Every*)
(* wait of the client is a withTimeout, so every step that ends a wait has *)
(* the timeout among its outcomes.                                         *)
(***************************************************************************)
EXTENDS FiniteSets

CONSTANTS
    Leader,     \* the process that was spawned, leader of its group
    Helpers     \* processes it may fork into its group

VARIABLES
    group,      \* live processes of the group
    killed,     \* SIGKILL reached the group
    mayExist,   \* groupMayExist
    at,         \* where #start is
    abort,      \* the start's abort signal
    route,      \* #routeEvidence is set
    asks,       \* #closeCapability
    primary,    \* #primaryFailure
    close,      \* where #closeOnce is
    unreached   \* a signal command failed with the group alive

processVars == <<group, killed, mayExist>>
startVars == <<at, abort, route, asks>>
closeVars == <<primary, close, unreached>>
childVars == <<processVars, startVars, closeVars>>

Processes == {Leader} \cup Helpers
StartSteps == {"spawning", "initializing", "authenticating", "verifying",
               "opening", "ready", "failed"}
CloseSteps == {"none", "asking", "joining", "probing", "terminating", "waiting",
               "killing", "reaping", "joiningExit", "ok", "error"}
Failures == {"none", "prompt", "terminate", "other"}

ChildTypeOK ==
    /\ group \subseteq Processes /\ killed \in BOOLEAN /\ mayExist \in BOOLEAN
    /\ at \in StartSteps /\ abort \in BOOLEAN
    /\ route \in BOOLEAN /\ asks \in BOOLEAN
    /\ primary \in Failures /\ close \in CloseSteps /\ unreached \in BOOLEAN

ChildInit ==
    /\ group = {} /\ killed = FALSE /\ mayExist = FALSE
    /\ at = "spawning" /\ abort \in BOOLEAN /\ route = FALSE /\ asks = FALSE
    /\ primary = "none" /\ close = "none"
    /\ unreached = FALSE

-----------------------------------------------------------------------------
(* #start *)

\* A start that fails is reaped: #reapPartial runs #closeOnce, which asks the
\* agent nothing because there is no session.
FailUnreaped ==
    /\ at' = "failed" /\ close' = "reaped"
    /\ UNCHANGED <<abort, route, asks, primary, unreached>>

FailStart ==
    /\ at' = "failed" /\ close' = "joining"
    /\ UNCHANGED <<abort, route, asks, primary, unreached>>

\* The signal is looked at, the signaller probed and the agent spawned; any of
\* the three may fail before there is a child.
Spawn ==
    /\ at = "spawning"
    /\ \/ /\ at' = "failed" /\ close' = "ok"
          /\ UNCHANGED <<processVars, abort, route, asks, primary, unreached>>
       \/ /\ ~abort /\ group' = {Leader} /\ mayExist' = TRUE
          /\ at' = "initializing"
          /\ UNCHANGED <<killed, abort, route, asks, closeVars>>

\* A step of the handshake ends: it succeeds, or it fails, times out or loses
\* the race with the abort.
Step(from, to) ==
    /\ at = from
    /\ \/ ~abort /\ at' = to /\ UNCHANGED <<abort, route, asks, closeVars>>
       \/ FailStart
    /\ UNCHANGED processVars

\* initialize, whose answer says whether the agent can close a session.
Initialize ==
    /\ at = "initializing"
    /\ \/ /\ ~abort /\ at' = "authenticating" /\ asks' \in BOOLEAN
          /\ UNCHANGED <<abort, route, closeVars>>
       \/ FailStart
    /\ UNCHANGED processVars

Authenticate == Step("authenticating", "verifying")

\* onRouteVerified is not raced with the abort, only told of it.
VerifyLater ==
    /\ at = "verifying"
    /\ at' = "opening"
    /\ UNCHANGED <<processVars, abort, route, asks, closeVars>>

VerifyRaced ==
    /\ at = "verifying" /\ ~abort
    /\ at' = "opening" /\ route' = TRUE
    /\ UNCHANGED <<processVars, abort, asks, closeVars>>

Verify ==
    /\ at = "verifying"
    /\ \/ /\ at' = "opening" /\ route' = TRUE
          /\ UNCHANGED <<abort, asks, closeVars>>
       \/ FailStart
    /\ UNCHANGED processVars

OpenSession == Step("opening", "ready")

\* The turn is cancelled while its session starts.
AbortStart ==
    /\ ~abort /\ at \notin {"ready", "failed"} /\ abort' = TRUE
    /\ UNCHANGED <<processVars, at, route, asks, closeVars>>

-----------------------------------------------------------------------------
(* The group *)

Fork(p) ==
    /\ Leader \in group /\ p \in Helpers \ group /\ ~killed
    /\ group' = group \cup {p}
    /\ UNCHANGED <<killed, mayExist, startVars, closeVars>>

\* A process exits.  onBroken, which the leader's exit calls, is the session
\* map's affair.
Exit(p) ==
    /\ p \in group /\ group' = group \ {p}
    /\ UNCHANGED <<killed, mayExist, startVars, closeVars>>

\* A prompt fails, or the exchange breaks.
PromptFails ==
    /\ at = "ready" /\ close = "none"
    /\ primary' = IF primary = "none" THEN "prompt" ELSE primary
    /\ UNCHANGED <<processVars, startVars, close, unreached>>

-----------------------------------------------------------------------------
(* #closeOnce *)

Advance(to) == close' = to /\ UNCHANGED <<primary, unreached>>

\* close() is called once, by the session map or the one-shot runner.
Close ==
    /\ at = "ready" /\ close = "none"
    /\ Advance(IF asks THEN "asking" ELSE "joining")
    /\ UNCHANGED <<processVars, startVars>>

\* The session/close request is answered, times out or is refused.
CloseAsked ==
    /\ close = "asking" /\ close' = "joining"
    /\ primary' \in {primary} \cup (IF primary = "none"
                                    THEN {"terminate", "other"} ELSE {})
    /\ UNCHANGED <<processVars, startVars, unreached>>

\* The connection and stdin are waited for, and whatever happens the child is
\* terminated.  A leader that has exited needs a probe of its group first.
JoinedTo(step) ==
    /\ close = "joining" /\ Advance(step)
    /\ UNCHANGED <<processVars, startVars>>

JoinedExited ==
    JoinedTo(IF Leader \in group THEN "terminating" ELSE "joiningExit")

JoinedAlive == Leader \in group /\ JoinedTo("terminating")

Joined == JoinedTo(IF Leader \in group THEN "terminating" ELSE "probing")

\* signalGroup: /bin/kill reports whether the group exists.  A command that
\* fails is believed to have found none only when the leader has exited and a
\* second probe finds nothing; otherwise the error goes to the caller.
FailureIsNone ==
    IF group = {} THEN {"none"} ELSE {"sent", "none"}
SignalOutcomes ==
    IF ~mayExist THEN {"none"}
    ELSE IF group = {} THEN {"none", "failed"} ELSE {"sent", "failed"}

Signal(probe, there, gone, failed) == \E outcome \in SignalOutcomes :
    /\ mayExist' = (mayExist /\ ~(probe /\ outcome = "none"))
    /\ unreached' = (unreached \/ (outcome = "failed" /\ group # {}))
    /\ primary' = primary
    /\ close' = CASE outcome = "sent" -> there
                  [] outcome = "none" -> gone
                  [] outcome = "failed" -> failed
    /\ UNCHANGED <<group, killed, startVars>>

\* The probe of a group whose leader has exited: if nothing is left the exit is
\* waited for; a failed probe fails the termination.
Probe ==
    /\ close = "probing"
    /\ Signal(TRUE, "terminating", "joiningExit", "error")

\* SIGTERM, then polling until the group is gone or the time is up.  A failure
\* of either is forgotten: the group is killed.
Terminate ==
    /\ close = "terminating"
    /\ Signal(FALSE, "waiting", "waiting", "killing")

WaitTo(timeout) ==
    /\ close = "waiting"
    /\ Signal(TRUE, timeout, "joiningExit", "killing")

WaitOnce == WaitTo("joiningExit")
WaitGivesUp == WaitTo("error")

Wait == WaitTo("killing")

\* SIGKILL, which every process of the group dies of, then polling again.
Kill ==
    /\ close = "killing"
    /\ \/ /\ mayExist /\ killed' = TRUE /\ Advance("reaping")
          /\ UNCHANGED <<group, mayExist>>
       \/ /\ ~mayExist /\ Advance("reaping") /\ UNCHANGED processVars
       \/ /\ close' = "error" /\ UNCHANGED primary
          /\ unreached' = (unreached \/ group # {})
          /\ UNCHANGED processVars
    /\ UNCHANGED <<startVars>>

Reap ==
    /\ close = "reaping"
    /\ Signal(TRUE, "error", "joiningExit", "error")

\* The leader's exit event is waited for.  A failed close request is thrown
\* even when the group is gone; a failed prompt is not.
Reaped ==
    /\ close = "joiningExit"
    /\ \/ /\ Leader \notin group
          /\ Advance(IF primary = "terminate" THEN "error" ELSE "ok")
       \/ Advance("error")
    /\ UNCHANGED <<processVars, startVars>>

-----------------------------------------------------------------------------

ChildNext ==
    \/ Spawn \/ Initialize \/ Authenticate \/ Verify \/ OpenSession \/ AbortStart
    \/ PromptFails \/ Close \/ CloseAsked \/ Joined \/ Probe \/ Terminate
    \/ Wait \/ Kill \/ Reap \/ Reaped
    \/ \E p \in Processes : Fork(p) \/ Exit(p)

ChildSpec == ChildInit /\ [][ChildNext]_childVars

\* Every wait of the client has a timeout.  Nothing makes the agent exit.
ChildFairness ==
    /\ WF_childVars(Spawn) /\ WF_childVars(Initialize) /\ WF_childVars(Authenticate)
    /\ WF_childVars(Verify) /\ WF_childVars(OpenSession) /\ WF_childVars(CloseAsked)
    /\ WF_childVars(Joined) /\ WF_childVars(Probe) /\ WF_childVars(Terminate) /\ WF_childVars(Wait)
    /\ WF_childVars(Kill) /\ WF_childVars(Reap) /\ WF_childVars(Reaped)

ChildLiveSpec == ChildSpec /\ ChildFairness

-----------------------------------------------------------------------------
(* Properties *)

\* A close that reported success, and a failed start that was cleaned up, leave
\* no process of the agent's group behind, helpers of a dead leader included.
ClosedLeavesNothing == close = "ok" => group = {}

\* A group that is left behind was not given up on easily: its SIGKILL is on
\* the way, or the signal command itself failed.
LeftBehindIsReported ==
    close = "error" /\ group # {} => killed \/ unreached

\* A usable session had its access route verified, and its turn had not been
\* cancelled when the session was opened.
ReadyIsVerified == at = "ready" => route /\ ~abort

\* The group is believed gone only when it is, for its id may be another's.
GoneIsGone == ~mayExist /\ at # "spawning" => group = {}

\* A close that reports success leaves no process of the agent's group, one
\* that does not reports what is left, an agent is used only once its route is
\* verified, and a group seen empty is never signalled again.
ChildReaped ==
    /\ ClosedLeavesNothing /\ LeftBehindIsReported
    /\ ReadyIsVerified /\ GoneIsGone

\* Whatever the agent does, a start settles and a close settles.
StartSettles == <>(at \in {"ready", "failed"})
CloseSettles == close # "none" ~> close \in {"ok", "error"}
=============================================================================
