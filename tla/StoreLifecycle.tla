--------------------------- MODULE StoreLifecycle ---------------------------
(***************************************************************************)
(* The life of the stores of a process: construction, start, wait, stop    *)
(* and destruction (src/src/common/sldmkvcachestore.cpp) through the gRPC  *)
(* service (grpc_service.cpp:347-441) and the Raft engine                  *)
(* (raft_engine.cpp), with the requests in the handlers and the detached   *)
(* event thread.                                                           *)
(*                                                                         *)
(* Three threads of the application use a store: "main" constructs, starts *)
(* and destroys it, "waiter" waits for it, "stopper" stops it.             *)
(***************************************************************************)
EXTENDS Naturals

CONSTANTS
    Stores,      \* the stores of the process
    RaftStores,  \* those with Config::use_raft
    Busy,        \* bound: the stores that are waited for, sent requests and
                 \* stopped other than by their destructor or a failed start
    MaxRequests, \* bound: requests at a time in the handlers of a store
    Liberties    \* what else may happen: "early_stop", a stop while start
                 \* runs; "early_wait", a wait before; "wedge", a request hangs

ASSUME LifecycleAssumption ==
    /\ RaftStores \subseteq Stores /\ Busy \subseteq Stores
    /\ MaxRequests \in Nat
    /\ Liberties \subseteq {"early_stop", "early_wait", "wedge"}

VARIABLES
    shutdown_requested,  \* the flag all GrpcServices of the process share
    server,    \* server_ of each GrpcService
    requests,  \* how many requests its handlers are working on
    hung,      \* how many of these never end
    raft,      \* the NuRaft server
    ready,     \* ready_ of the Raft engine
    events,    \* the event thread of the engine
    alive,     \* is the store constructed and not destroyed?
    started,   \* what start has returned
    stopped,   \* history: has a stop returned?
    pc,        \* where each thread is in the store
    then       \* where main goes after stop

serverVars  == <<server, requests, hung>>
engineVars  == <<raft, ready, events>>
historyVars == <<alive, started, stopped>>
vars == <<shutdown_requested, serverVars, engineVars, historyVars, pc, then>>

Users    == {"main", "waiter", "stopper"}
Stoppers == {"main", "stopper"}

Init ==
    /\ shutdown_requested = FALSE
    /\ server = [s \in Stores |-> "none"]
    /\ requests = [s \in Stores |-> 0]
    /\ hung = [s \in Stores |-> 0]
    /\ raft = [s \in Stores |-> "none"]
    /\ ready = [s \in Stores |-> FALSE]
    /\ events = [s \in Stores |-> "none"]
    /\ alive = [s \in Stores |-> FALSE]
    /\ started = [s \in Stores |-> "none"]
    /\ stopped = [s \in Stores |-> FALSE]
    /\ pc = [s \in Stores |-> [a \in Users |-> IF a = "main" THEN "new" ELSE "idle"]]
    /\ then = [s \in Stores |-> "none"]

At(s, a, label) == pc[s][a] = label
Go(s, a, label) == pc' = [pc EXCEPT ![s][a] = label]
Set(f, s, v)    == [f EXCEPT ![s] = v]
-----------------------------------------------------------------------------
\* The constructors: NuRaft runs from here on; the shared flag is cleared.
Construct(s) ==
    /\ At(s, "main", "new")
    /\ alive' = Set(alive, s, TRUE)
    /\ raft' = Set(raft, s, IF s \in RaftStores THEN "running" ELSE "none")
    /\ shutdown_requested' = FALSE
    /\ Go(s, "main", "idle")
    /\ UNCHANGED <<serverVars, ready, events, started, stopped, then>>

\* A store is started once, and before it is stopped.
CallStart(s) ==
    /\ At(s, "main", "idle") /\ At(s, "stopper", "idle") /\ alive[s]
    /\ started[s] = "none" /\ ~stopped[s]
    /\ started' = Set(started, s, "running")
    /\ Go(s, "main", IF s \in RaftStores THEN "engine" ELSE "service")
    /\ UNCHANGED <<shutdown_requested, serverVars, engineVars, alive, stopped, then>>

\* RaftEngine::start spawns the event thread, or fails: start returns false
\* and stops nothing.
EngineStart(s) ==
    /\ At(s, "main", "engine")
    /\ \/ /\ events' = Set(events, s, "check")
          /\ Go(s, "main", "ready")
          /\ UNCHANGED started
       \/ /\ started' = Set(started, s, "false")
          /\ Go(s, "main", "idle")
          /\ UNCHANGED events
    /\ UNCHANGED <<shutdown_requested, serverVars, raft, ready, alive,
                   stopped, then>>

\* Only now the engine is ready.  start() goes on whatever waitForReady says.
EngineReady(s) ==
    /\ At(s, "main", "ready")
    /\ ready' = Set(ready, s, TRUE)
    /\ Go(s, "main", "service")
    /\ UNCHANGED <<shutdown_requested, serverVars, raft, events, historyVars, then>>

\* GrpcService::start: a server that serves, or null and then stop().
ServiceStart(s) ==
    /\ At(s, "main", "service")
    /\ \/ /\ server' = Set(server, s, "serving")
          /\ Go(s, "main", "settle")
          /\ UNCHANGED then
       \/ /\ server' = Set(server, s, "none")
          /\ then' = Set(then, s, "fail")
          /\ Go(s, "main", "shutdown")
    /\ UNCHANGED <<shutdown_requested, requests, hung, engineVars, historyVars>>

\* Mutant of StartSettles: the catch clause returns false without stop().
StartSettlesUnstopped(s) ==
    /\ At(s, "main", "settle")
    /\ \/ started' = Set(started, s, "true")
       \/ s \in RaftStores /\ started' = Set(started, s, "false")
    /\ Go(s, "main", "idle")
    /\ UNCHANGED <<shutdown_requested, serverVars, engineVars, alive, stopped, then>>

\* The server is up; start asks Raft for the leader, may trigger an election
\* and sleep, and returns true; an exception of Raft's calls leads to stop().
StartSettles(s) ==
    /\ At(s, "main", "settle")
    /\ \/ /\ started' = Set(started, s, "true")
          /\ Go(s, "main", "idle")
          /\ UNCHANGED then
       \/ /\ s \in RaftStores
          /\ then' = Set(then, s, "fail")
          /\ Go(s, "main", "shutdown")
          /\ UNCHANGED started
    /\ UNCHANGED <<shutdown_requested, serverVars, engineVars, alive, stopped>>

\* ... after which start returns false.
StartFails(s) ==
    /\ At(s, "main", "fail")
    /\ started' = Set(started, s, "false")
    /\ Go(s, "main", "idle")
    /\ UNCHANGED <<shutdown_requested, serverVars, engineVars, alive, stopped, then>>
-----------------------------------------------------------------------------
\* SLDMKVCacheStore::stop, called by the stopper or by main, or by both.
CallStop(s, a) ==
    /\ alive[s] /\ then[s] # "free"
    /\ At(s, a, "idle") /\ s \in Busy
    /\ started[s] = "running" => "early_stop" \in Liberties
    /\ then' = IF a = "main" THEN Set(then, s, "idle") ELSE then
    /\ Go(s, a, "shutdown")
    /\ UNCHANGED <<shutdown_requested, serverVars, engineVars, historyVars>>

\* Mutant of ServerShutdown: the Raft engine is stopped first.
ServerShutdownLater(s, a) ==
    /\ At(s, a, "shutdown")
    /\ raft' = [raft EXCEPT ![s] = IF @ = "running" THEN "down" ELSE @]
    /\ server' = [server EXCEPT ![s] = IF @ = "serving" THEN "stopping" ELSE @]
    /\ Go(s, a, IF server[s] = "none" THEN "flag" ELSE "drain")
    /\ UNCHANGED <<shutdown_requested, requests, hung, ready, events, historyVars, then>>

\* server_->Shutdown(), if there is a server: no new requests from here on ...
ServerShutdown(s, a) ==
    /\ At(s, a, "shutdown")
    /\ server' = [server EXCEPT ![s] = IF @ = "serving" THEN "stopping" ELSE @]
    /\ Go(s, a, IF server[s] = "none" THEN "flag" ELSE "drain")
    /\ UNCHANGED <<shutdown_requested, requests, hung, engineVars, historyVars, then>>

\* Mutants of ServerDrained: Shutdown does not wait for the handlers; the
\* second of two threads is not told that the server has shut down.
ServerDrainedOnce(s, a) ==
    /\ At(s, a, "drain")
    /\ requests[s] = 0 /\ server[s] = "stopping"
    /\ server' = Set(server, s, "shutdown")
    /\ Go(s, a, "flag")
    /\ UNCHANGED <<shutdown_requested, requests, hung, engineVars, historyVars, then>>

ServerCutOff(s, a) ==
    /\ At(s, a, "drain")
    /\ server' = Set(server, s, "shutdown")
    /\ Go(s, a, "flag")
    /\ UNCHANGED <<shutdown_requested, requests, hung, engineVars, historyVars, then>>

\* ... and it returns when the handlers have finished the old ones.
ServerDrained(s, a) ==
    /\ At(s, a, "drain")
    /\ requests[s] = 0
    /\ server' = Set(server, s, "shutdown")
    /\ Go(s, a, "flag")
    /\ UNCHANGED <<shutdown_requested, requests, hung, engineVars, historyVars, then>>

\* Mutant of ReturnFromStop: the stopper takes main's way.
ReturnAsMain(s, a) ==
    /\ Go(s, a, then[s])
    /\ stopped' = Set(stopped, s, TRUE)

\* The end of stop, for the thread that called it.
ReturnFromStop(s, a) ==
    /\ Go(s, a, IF a = "stopper" THEN "idle" ELSE then[s])
    /\ stopped' = Set(stopped, s, TRUE)

\* Mutant of SetFlag: the waiters are not told.
SetFlagNot(s, a) ==
    /\ At(s, a, "flag")
    /\ IF s \in RaftStores
       THEN Go(s, a, "raft") /\ UNCHANGED stopped
       ELSE ReturnFromStop(s, a)
    /\ UNCHANGED <<shutdown_requested, serverVars, engineVars, alive, started, then>>

\* The flag for those who wait without a server.
SetFlag(s, a) ==
    /\ At(s, a, "flag")
    /\ shutdown_requested' = TRUE
    /\ IF s \in RaftStores
       THEN Go(s, a, "raft") /\ UNCHANGED stopped
       ELSE ReturnFromStop(s, a)
    /\ UNCHANGED <<serverVars, engineVars, alive, started, then>>

\* RaftEngine::stop.
EngineStop(s, a) ==
    /\ At(s, a, "raft")
    /\ raft' = Set(raft, s, "down")
    /\ Go(s, a, "unready")
    /\ UNCHANGED <<shutdown_requested, serverVars, ready, events, historyVars, then>>

\* Mutant of EngineUnready: ready_ is left as it is.
EngineStillReady(s, a) ==
    /\ At(s, a, "unready")
    /\ ReturnFromStop(s, a)
    /\ UNCHANGED <<shutdown_requested, serverVars, engineVars, alive,
                   started, then>>

EngineUnready(s, a) ==
    /\ At(s, a, "unready")
    /\ ready' = Set(ready, s, FALSE)
    /\ ReturnFromStop(s, a)
    /\ UNCHANGED <<shutdown_requested, serverVars, raft, events, alive,
                   started, then>>

\* Destroying a store nobody else uses stops it and frees its members.
CallDestroy(s) ==
    /\ At(s, "main", "idle") /\ alive[s]
    /\ At(s, "stopper", "idle") /\ pc[s]["waiter"] \in {"idle", "done", "woken"}
    /\ then' = Set(then, s, "free")
    /\ Go(s, "main", "shutdown")
    /\ UNCHANGED <<shutdown_requested, serverVars, engineVars, historyVars>>

Free(s) ==
    /\ At(s, "main", "free")
    /\ alive' = Set(alive, s, FALSE)
    /\ server' = Set(server, s, "none")
    /\ Go(s, "main", "freed")
    /\ UNCHANGED <<shutdown_requested, requests, hung, engineVars, started,
                   stopped, then>>
-----------------------------------------------------------------------------
\* GrpcService::wait: on the server, or on the flag when there is none.
CallWait(s) ==
    /\ alive[s] /\ then[s] # "free"
    /\ At(s, "waiter", "idle") /\ s \in Busy
    /\ started[s] = "true" \/ "early_wait" \in Liberties
    /\ Go(s, "waiter", IF server[s] = "none" THEN "flag" ELSE "server")
    /\ UNCHANGED <<shutdown_requested, serverVars, engineVars, historyVars, then>>

\* Mutant of WaitReturns: a wake-up is not checked against the flag.
WaitReturnsUnchecked(s) ==
    /\ \/ At(s, "waiter", "server") /\ server[s] = "shutdown" /\ Go(s, "waiter", "done")
       \/ At(s, "waiter", "flag") /\ Go(s, "waiter", "woken")
    /\ UNCHANGED <<shutdown_requested, serverVars, engineVars, historyVars, then>>

\* "done" is a return from Wait() of the own server, "woken" one because of
\* the flag, whichever store has set it.
WaitReturns(s) ==
    /\ \/ At(s, "waiter", "server") /\ server[s] = "shutdown" /\ Go(s, "waiter", "done")
       \/ At(s, "waiter", "flag") /\ shutdown_requested /\ Go(s, "waiter", "woken")
    /\ UNCHANGED <<shutdown_requested, serverVars, engineVars, historyVars, then>>
-----------------------------------------------------------------------------
\* Requests come while the server serves, and end unless they hang.
RequestBegins(s) ==
    /\ s \in Busy /\ server[s] = "serving" /\ requests[s] < MaxRequests
    /\ requests' = Set(requests, s, requests[s] + 1)
    /\ UNCHANGED <<shutdown_requested, server, hung, engineVars, historyVars, pc, then>>

RequestEnds(s) ==
    /\ requests[s] > hung[s]
    /\ requests' = Set(requests, s, requests[s] - 1)
    /\ UNCHANGED <<shutdown_requested, server, hung, engineVars, historyVars, pc, then>>

RequestHangs(s) ==
    /\ "wedge" \in Liberties /\ hung[s] < requests[s]
    /\ hung' = Set(hung, s, hung[s] + 1)
    /\ UNCHANGED <<shutdown_requested, server, requests, engineVars, historyVars, pc, then>>

\* RaftEngine::handleRaftEvents: the thread looks at ready_, or at whatever
\* is there after the engine is gone, and sleeps.
EventLoop(s) ==
    /\ \/ /\ events[s] = "check"
          /\ \E seen \in IF alive[s] THEN {ready[s]} ELSE BOOLEAN :
               events' = Set(events, s, IF seen THEN "sleep" ELSE "ended")
       \/ /\ events[s] = "sleep"
          /\ events' = Set(events, s, "check")
    /\ UNCHANGED <<shutdown_requested, serverVars, raft, ready, historyVars, pc, then>>

StartStep(s)   == \/ EngineStart(s) \/ EngineReady(s) \/ ServiceStart(s)
                  \/ StartSettles(s) \/ StartFails(s)
StopStep(s, a) == \/ ServerShutdown(s, a) \/ ServerDrained(s, a) \/ SetFlag(s, a)
                  \/ EngineStop(s, a) \/ EngineUnready(s, a)

\* What the application decides ...
Call(s) == \/ Construct(s) \/ CallStart(s) \/ CallWait(s)
           \/ CallDestroy(s) \/ \E a \in Stoppers : CallStop(s, a)

\* ... and what then goes on by itself.
Proceed(s) == \/ StartStep(s) \/ WaitReturns(s) \/ Free(s) \/ EventLoop(s)
              \/ \E a \in Stoppers : StopStep(s, a)

Request(s) == RequestBegins(s) \/ RequestEnds(s) \/ RequestHangs(s)

Next == \E s \in Stores : Call(s) \/ Proceed(s) \/ Request(s)

Spec == Init /\ [][Next]_vars

\* Every thread of the store runs, and a handler that does not hang returns.
Fairness ==
    \A s \in Stores :
       /\ WF_vars(StartStep(s)) /\ WF_vars(WaitReturns(s)) /\ WF_vars(Free(s))
       /\ WF_vars(EventLoop(s))
       /\ \A a \in Stoppers : WF_vars(StopStep(s, a))
       /\ WF_vars(RequestEnds(s))

LiveSpec == Spec /\ Fairness
-----------------------------------------------------------------------------
StopLabels == {"shutdown", "drain", "flag", "raft", "unready"}
Labels     == StopLabels \cup {"new", "idle", "engine", "ready", "service", "settle",
                               "fail", "free", "freed", "server", "done", "woken"}
Running(s) == events[s] \in {"check", "sleep"}

TypeOK ==
    /\ shutdown_requested \in BOOLEAN
    /\ server \in [Stores -> {"none", "serving", "stopping", "shutdown"}]
    /\ requests \in [Stores -> 0 .. MaxRequests]
    /\ hung \in [Stores -> 0 .. MaxRequests]
    /\ raft \in [Stores -> {"none", "running", "down"}]
    /\ ready \in [Stores -> BOOLEAN]
    /\ events \in [Stores -> {"none", "check", "sleep", "ended"}]
    /\ alive \in [Stores -> BOOLEAN]
    /\ started \in [Stores -> {"none", "running", "true", "false"}]
    /\ stopped \in [Stores -> BOOLEAN]
    /\ pc \in [Stores -> [Users -> Labels]]
    /\ then \in [Stores -> {"none", "idle", "fail", "free"}]

(***************************************************************************)
(* After a stop has returned no server serves, no handler is at work and   *)
(* Raft is down, whichever thread stopped first                            *)
(* (sldmkvcachestore.cpp:207-227).                                         *)
(***************************************************************************)
StopHolds ==
    \A s \in Stores : stopped[s] =>
       /\ server[s] \in {"none", "shutdown"} /\ requests[s] = 0
       /\ raft[s] # "running" /\ ~ready[s]

(***************************************************************************)
(* Raft is shut down under no handler: not before the server has finished  *)
(* its requests (sldmkvcachestore.cpp:210-224).                            *)
(***************************************************************************)
ReverseOrder ==
    [][\A s \in Stores : raft[s] = "running" /\ raft'[s] = "down" =>
          server[s] \in {"none", "shutdown"} /\ requests[s] = 0]_vars

(***************************************************************************)
(* A start that returns true has left everything running.  One that        *)
(* returns false has left nothing running if the engine had started; if it *)
(* had not, Raft itself, which runs since the constructor, is not stopped  *)
(* (sldmkvcachestore.cpp:122-196).                                         *)
(***************************************************************************)
StartTells ==
    [][\A s \in Stores :
         /\ started[s] = "running" /\ started'[s] = "true" =>
              /\ server'[s] = "serving"
              /\ s \in RaftStores => raft'[s] = "running" /\ ready'[s]
         /\ started[s] = "running" /\ started'[s] = "false" =>
              /\ server'[s] \in {"none", "shutdown"} /\ requests'[s] = 0 /\ ~ready'[s]
              /\ (raft'[s] = "running") <=> At(s, "main", "engine")]_vars

\* Has a stop of the store come past the flag?
PastFlag(s) == stopped[s] \/ \E a \in Stoppers : pc[s][a] \in {"raft", "unready"}

(***************************************************************************)
(* A wait for the server returns when the own server has gone.  One on the *)
(* flag, which the stores share, returns when the own server has gone or   *)
(* another store was stopped, and for no other reason                      *)
(* (grpc_service.cpp:421-441).                                             *)
(***************************************************************************)
WaitMeansStopped ==
    \A s \in Stores :
       /\ At(s, "waiter", "done") => server[s] \in {"none", "shutdown"}
       /\ At(s, "waiter", "woken") =>
            \/ server[s] \in {"none", "shutdown"}
            \/ \E r \in Stores \ {s} : PastFlag(r)

(***************************************************************************)
(* Every call of stop returns, also when two threads stop the store, and   *)
(* unless a handler hangs, for which Shutdown() waits without a deadline   *)
(* (sldmkvcachestore.cpp:207-227, grpc_service.cpp:395-419).               *)
(***************************************************************************)
StopReturns ==
    \A s \in Stores, a \in Stoppers :
       pc[s][a] \in StopLabels ~> pc[s][a] \notin StopLabels \/ hung[s] > 0

(***************************************************************************)
(* A stop ends the wait for the server; it ends a wait that began before   *)
(* there was a server if no store is constructed from then on, for a       *)
(* constructor clears the flag (grpc_service.cpp:355, 408-413, 425-435).   *)
(***************************************************************************)
StopEndsWait ==
    \A s \in Stores :
       /\ stopped[s] /\ At(s, "waiter", "server") ~> At(s, "waiter", "done")
       /\ /\ \E a \in Stoppers : At(s, a, "flag")
          /\ At(s, "waiter", "flag")
          /\ \A r \in Stores : ~At(r, "main", "new")
          ~> At(s, "waiter", "woken")

(***************************************************************************)
(* The event threads come to an end after a stop, unless the store is      *)
(* destroyed before (raft_engine.cpp:612-653).                             *)
(***************************************************************************)
EventsEnd == \A s \in Stores : stopped[s] ~> ~Running(s) \/ ~alive[s]

-----------------------------------------------------------------------------
(***************************************************************************)
(* How far start and stop have come and what is so by then: the inductive  *)
(* invariant of stores that are not stopped while start runs               *)
(* (sldmkvcachestore.cpp:122-227).                                         *)
(***************************************************************************)
Quiet(s) == server[s] \in {"none", "shutdown"} /\ requests[s] = 0
Down(s)  == Quiet(s) /\ raft[s] # "running" /\ ~ready[s]
Blank(s) == server[s] = "none" /\ ~ready[s] /\ events[s] = "none"

\* Is main in start, or in the stop that start has called?
InStart(s) == \/ pc[s]["main"] \in {"engine", "ready", "service", "settle", "fail"}
              \/ pc[s]["main"] \in StopLabels /\ then[s] = "fail"

\* Start and stop come one after the other.
Turns(s) ==
    /\ InStart(s) <=> started[s] = "running"
    /\ started[s] = "running" \/ then[s] = "free" => At(s, "stopper", "idle")
    /\ pc[s]["main"] \in StopLabels => then[s] # "none"
    /\ alive[s] <=> pc[s]["main"] \notin {"new", "freed"}
    /\ At(s, "main", "new") => started[s] = "none" /\ ~stopped[s] /\ At(s, "stopper", "idle")
    /\ pc[s]["main"] \in {"free", "freed"} => then[s] = "free"

\* Constructed and not used so far.
Waiting(s) == /\ At(s, "main", "idle") /\ At(s, "stopper", "idle")
              /\ started[s] = "none" /\ ~stopped[s]

\* Nothing is there before start, and start has made what it has passed.
StartHas(s) ==
    /\ pc[s]["main"] \in {"engine", "ready"} => s \in RaftStores
    /\ pc[s]["main"] \in {"engine", "ready", "service"} => server[s] = "none" /\ ~stopped[s]
    /\ At(s, "main", "settle") => server[s] = "serving" /\ ~stopped[s]
    /\ pc[s]["main"] \in {"new", "engine"} \/ Waiting(s) => Blank(s)
    /\ s \in RaftStores =>
         /\ pc[s]["main"] \in {"engine", "ready", "service", "settle"} \/ Waiting(s) =>
               raft[s] = "running"
         /\ pc[s]["main"] \in {"service", "settle"} => ready[s]

\* What stop has undone stays undone, for each of the threads in it.
StopHas(s) ==
    /\ \A a \in Stoppers :
         /\ At(s, a, "drain") => server[s] \in {"stopping", "shutdown"}
         /\ pc[s][a] \in {"flag", "raft", "unready"} => Quiet(s)
         /\ pc[s][a] \in {"raft", "unready"} => s \in RaftStores
         /\ At(s, a, "unready") => raft[s] # "running"
    /\ stopped[s] \/ pc[s]["main"] \in {"fail", "free", "freed"} => Down(s)
    /\ server[s] \in {"none", "shutdown"} => requests[s] = 0
    /\ s \notin RaftStores => raft[s] = "none" /\ ~ready[s]

StoreInv(s) == Turns(s) /\ StartHas(s) /\ StopHas(s)
LifeInv     == TypeOK /\ \A s \in Stores : StoreInv(s)
-----------------------------------------------------------------------------
(***************************************************************************)
(* "Ensures all components are properly stopped": no thread is left that   *)
(* uses a store after it is destroyed (sldmkvcachestore.h:128).            *)
(***************************************************************************)
EventsConfined == \A s \in Stores : Running(s) => alive[s]
=============================================================================
