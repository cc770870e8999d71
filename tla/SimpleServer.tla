---------------------------- MODULE SimpleServer ----------------------------
(***************************************************************************)
(* src/examples/simple_server.cpp: the server program around one store.    *)
(* main starts the store, waits for it, stops and destroys it; the signal  *)
(* handler sets a flag of its own.                                         *)
(***************************************************************************)
EXTENDS StoreLifecycle

VARIABLE g_stop_server

Signal == g_stop_server' = TRUE /\ UNCHANGED vars

\* Has wait returned?
Waited(s) == pc[s]["waiter"] \in {"done", "woken"}

Program(s) ==
    /\ \/ Construct(s) \/ CallStart(s) \/ CallWait(s)
       \/ Waited(s) /\ ~stopped[s] /\ CallStop(s, "main")
       \/ started[s] = "false" /\ CallDestroy(s)
       \/ Waited(s) /\ stopped[s] /\ CallDestroy(s)
    /\ UNCHANGED g_stop_server

ServerInit == Init /\ g_stop_server = FALSE

ServerNext == \/ Signal
              \/ \E s \in Stores : \/ Program(s)
                                   \/ (Proceed(s) \/ Request(s)) /\ UNCHANGED g_stop_server

serverProgramVars == <<vars, g_stop_server>>

ServerSpec ==
    /\ ServerInit /\ [][ServerNext]_serverProgramVars
    /\ Fairness
    /\ \A s \in Stores : WF_serverProgramVars(Program(s))

(***************************************************************************)
(* "Signal handler for graceful shutdown": a signal makes the program stop *)
(* its store and end (simple_server.cpp:16-20).                            *)
(***************************************************************************)
SignalStops == g_stop_server ~> \A s \in Stores : At(s, "main", "freed")
=============================================================================
