------------------------------ MODULE MCClients ------------------------------
(* A client for TLC: the approval channel of its connection, the REPL's    *)
(* end of it, the session settings of the two REPLs, and the command line  *)
(* that chose one of them.  A behaviour is of one part, named by `part`;   *)
(* the others rest in an initial state.                                    *)
EXTENDS ApprovalChannel, TLC

VARIABLES
    part,
    up, lost, replClosed, gen, replWire, chan, waiter, drained, resp, rt, n,
    kind, cur, mode, sending, cancelling, abandoned, asks, stage, key, held,
    line, verdict, sig, session, consent, approved, shown, announced, rs, ts,
    cmd, recorded, catalog, lines, others, ended, chosen, attached, ranOn,
    settled, argv

replVars == <<up, lost, replClosed, gen, replWire, chan, waiter, drained,
              resp, rt, n, kind, cur, mode, sending, cancelling, abandoned,
              asks, stage, key, held, line, verdict, sig, session, consent,
              approved, shown, announced>>
settingVars == <<rs, ts, cmd, recorded, catalog, lines, others, ended, chosen,
                 attached, ranOn, settled>>

Repl == INSTANCE ReplLink WITH
    Kinds <- {"turn", "friction"}, MaxRequests <- 2, MaxConns <- 2,
    MaxFrames <- 1, Capacity <- 2, closed <- replClosed, wire <- replWire
Settings == INSTANCE ReplSession WITH
    Models <- {"m1", "m2", "m3"}, FastModels <- {"m1"}, Unpriced <- {"m3"},
    Default <- "m2", RuntimeDefault <- "m1",
    Recorded <- "a" :> "m1" @@ "new" :> "none",
    Ceiling <- 1, MaxLines <- 3, MaxOthers <- 1, verdict <- settled, ran <- ranOn,
    Words <- {"--socket", "-p", "--budget-turn", "--model", "--runner", "--fast",
              "--no-autostart", "-h", "start", "ask", "dev", "5", "--bogus",
              "--launcher-autostarted", ""},
    MaxWords <- 4

SuiteInit ==
    /\ part \in {"channel", "repl", "settings", "launcher"}
    /\ Init
    /\ Repl!Init
    /\ Settings!Init
    /\ Settings!LaunchInit
    /\ part # "settings" => rs.id = "none" /\ ~rs.pinned

SuiteNext ==
    /\ UNCHANGED part
    /\ \/ /\ part = "channel" /\ Next
          /\ UNCHANGED <<replVars, settingVars, argv>>
       \/ /\ part = "repl" /\ Repl!Next
          /\ UNCHANGED <<vars, settingVars, argv>>
       \/ /\ part = "settings" /\ Settings!Next
          /\ UNCHANGED <<vars, replVars, argv>>
       \/ /\ part = "launcher" /\ Settings!LaunchNext
          /\ UNCHANGED <<vars, replVars, settingVars>>

SuiteVars == <<part, vars, replVars, settingVars, argv>>
SuiteSpec == SuiteInit /\ [][SuiteNext]_SuiteVars

-----------------------------------------------------------------------------
(* Properties.                                                             *)

\* terminal.rs, approval.rs, main.rs, session.rs, cli.ts and
\* dyfj-launcher.sh: the runtime is told yes only for a question the operator
\* saw and answered yes, what is shown under a turn is that turn's, and the
\* session an ended turn announced is adopted; what a turn runs on is what the
\* REPL's commands left and the session's record says, a command refused
\* changes nothing of it, and what was consented to is what was shown; a
\* runtime is started for turns only, the launcher and its client mean one
\* socket, and the Rust REPL takes the words it is given.
ReplFaithful ==
    /\ Repl!ConsentSeen /\ Repl!ShownIsOurs /\ Repl!SessionKept
    /\ part = "settings" =>
         Settings!RunsAsRecorded /\ Settings!RefusedChangesNothing /\ Settings!ConsentAsShown
    /\ part = "launcher" => Settings!LauncherHolds
=============================================================================
