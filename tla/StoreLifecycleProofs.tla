------------------------- MODULE StoreLifecycleProofs -------------------------
(***************************************************************************)
(* Proofs about the life of a store, for any number of stores and requests.*)
(***************************************************************************)
EXTENDS StoreLifecycle, TLAPS

\* No application stops a store whose start has not returned.
NoEarlyStop == "early_stop" \notin Liberties

Positions == [Stores -> [Users -> Labels]]

\* The value of a function that was changed for one store.
LEMMA SetStore ==
  ASSUME NEW R, NEW f \in [Stores -> R], NEW s \in Stores, NEW v \in R
  PROVE  /\ Set(f, s, v) \in [Stores -> R]
         /\ Set(f, s, v)[s] = v
         /\ \A t \in Stores \ {s} : Set(f, s, v)[t] = f[t]
  BY DEF Set

\* A thread that goes somewhere leaves the other threads where they are.
LEMMA GoOne ==
  ASSUME pc \in Positions, NEW s \in Stores, NEW a \in Users, NEW l \in Labels,
         Go(s, a, l)
  PROVE  /\ pc' \in Positions
         /\ pc'[s][a] = l
         /\ \A b \in Users \ {a} : pc'[s][b] = pc[s][b]
         /\ \A t \in Stores \ {s} : pc'[t] = pc[t]
<1>1. pc' = [pc EXCEPT ![s] = [pc[s] EXCEPT ![a] = l]]
  BY DEF Go
<1>2. [pc[s] EXCEPT ![a] = l] \in [Users -> Labels]
  BY DEF Positions
<1> QED
  BY <1>1, <1>2 DEF Positions

LEMMA InitType == Init => TypeOK
<1> SUFFICES ASSUME Init PROVE TypeOK
  OBVIOUS
<1>1. pc \in [Stores -> [Users -> Labels]]
  <2>1. [a \in Users |-> IF a = "main" THEN "new" ELSE "idle"] \in [Users -> Labels]
    BY DEF Labels
  <2> QED
    BY <2>1 DEF Init
<1>2. requests \in [Stores -> 0 .. MaxRequests] /\ hung \in [Stores -> 0 .. MaxRequests]
  BY LifecycleAssumption DEF Init
<1>3. /\ shutdown_requested \in BOOLEAN /\ ready \in [Stores -> BOOLEAN]
      /\ alive \in [Stores -> BOOLEAN] /\ stopped \in [Stores -> BOOLEAN]
  BY DEF Init
<1>4. /\ server \in [Stores -> {"none", "serving", "stopping", "shutdown"}]
      /\ raft \in [Stores -> {"none", "running", "down"}]
      /\ events \in [Stores -> {"none", "check", "sleep", "ended"}]
      /\ started \in [Stores -> {"none", "running", "true", "false"}]
      /\ then \in [Stores -> {"none", "idle", "fail", "free"}]
  BY DEF Init
<1> QED
  BY <1>1, <1>2, <1>3, <1>4 DEF TypeOK

\* What StoreInv says of a store depends on the store's own state.
Same(t) == /\ server'[t] = server[t] /\ requests'[t] = requests[t]
           /\ raft'[t] = raft[t] /\ ready'[t] = ready[t] /\ events'[t] = events[t]
           /\ alive'[t] = alive[t] /\ started'[t] = started[t]
           /\ stopped'[t] = stopped[t] /\ pc'[t] = pc[t] /\ then'[t] = then[t]

Local(s) == TypeOK' /\ \A t \in Stores \ {s} : Same(t)

LEMMA LocalCall == ASSUME TypeOK, NEW s \in Stores, Call(s) PROVE Local(s)
<1> USE DEF Local, Same, TypeOK, Users, Stoppers, Set, serverVars, engineVars, historyVars
<1> pc \in Positions /\ StopLabels \subseteq Labels
       /\ {"new", "idle", "engine", "ready", "service", "settle", "fail", "shutdown", "drain",
           "flag", "raft", "unready", "free", "freed", "server", "done", "woken"} \subseteq Labels
  BY DEF Positions, StopLabels, Labels
<1>1. CASE Construct(s)
  <2>1. pc' \in Positions /\ \A t \in Stores \ {s} : pc'[t] = pc[t]
    BY <1>1, GoOne DEF Construct
  <2>2. /\ raft' \in [Stores -> {"none", "running", "down"}]
        /\ \A t \in Stores \ {s} : raft'[t] = raft[t]
    BY <1>1 DEF Construct
  <2> QED
    BY <1>1, <2>1, <2>2 DEF Construct, Positions
<1>2. CASE CallStart(s)
  BY <1>2, GoOne DEF CallStart, Positions
<1>3. CASE CallWait(s)
  BY <1>3, GoOne DEF CallWait, Positions
<1>4. ASSUME NEW a \in Stoppers, CallStop(s, a) PROVE Local(s)
  BY <1>4, GoOne DEF CallStop, Positions
<1>5. CASE CallDestroy(s)
  BY <1>5, GoOne DEF CallDestroy, Positions
<1> QED
  BY <1>1, <1>2, <1>3, <1>4, <1>5 DEF Call

LEMMA LocalStart == ASSUME TypeOK, NEW s \in Stores, StartStep(s) PROVE Local(s)
<1> USE DEF Local, Same, TypeOK, Users, Set, serverVars, engineVars, historyVars
<1> pc \in Positions /\ {"idle", "ready", "service", "settle", "shutdown"} \subseteq Labels
  BY DEF Positions, StopLabels, Labels
<1>1. CASE EngineStart(s)
  <2>1. pc' \in Positions /\ \A t \in Stores \ {s} : pc'[t] = pc[t]
    BY <1>1, GoOne DEF EngineStart
  <2>2. CASE events' = Set(events, s, "check") /\ UNCHANGED started
    BY <1>1, <2>1, <2>2 DEF EngineStart, Positions
  <2>3. CASE started' = Set(started, s, "false") /\ UNCHANGED events
    BY <1>1, <2>1, <2>3 DEF EngineStart, Positions
  <2> QED
    BY <1>1, <2>2, <2>3 DEF EngineStart
<1>2. CASE EngineReady(s)
  BY <1>2, GoOne DEF EngineReady, Positions
<1>3. CASE ServiceStart(s)
  <2>1. pc' \in Positions /\ \A t \in Stores \ {s} : pc'[t] = pc[t]
    BY <1>3, GoOne DEF ServiceStart
  <2>2. CASE server' = Set(server, s, "serving") /\ UNCHANGED then
    BY <1>3, <2>1, <2>2 DEF ServiceStart, Positions
  <2>3. CASE server' = Set(server, s, "none") /\ then' = Set(then, s, "fail")
    BY <1>3, <2>1, <2>3 DEF ServiceStart, Positions
  <2> QED
    BY <1>3, <2>2, <2>3 DEF ServiceStart
<1>4. CASE StartSettles(s)
  <2>1. pc' \in Positions /\ \A t \in Stores \ {s} : pc'[t] = pc[t]
    BY <1>4, GoOne DEF StartSettles
  <2>2. CASE started' = Set(started, s, "true") /\ UNCHANGED then
    BY <1>4, <2>1, <2>2 DEF StartSettles, Positions
  <2>3. CASE then' = Set(then, s, "fail") /\ UNCHANGED started
    BY <1>4, <2>1, <2>3 DEF StartSettles, Positions
  <2> QED
    BY <1>4, <2>2, <2>3 DEF StartSettles
<1>5. CASE StartFails(s)
  BY <1>5, GoOne DEF StartFails, Positions
<1> QED
  BY <1>1, <1>2, <1>3, <1>4, <1>5 DEF StartStep

LEMMA LocalStop ==
  ASSUME TypeOK, NEW s \in Stores, NEW a \in Stoppers, StopStep(s, a),
         then[s] \in {"idle", "fail", "free"} \/ a = "stopper"
  PROVE  Local(s)
<1> USE DEF Local, Same, TypeOK, Users, Stoppers, Set, serverVars, engineVars, historyVars
<1> pc \in Positions
      /\ {"idle", "fail", "free", "drain", "flag", "raft", "unready"} \subseteq Labels
  BY DEF Positions, StopLabels, Labels
<1>1. CASE ServerShutdown(s, a)
  <2>1. pc' \in Positions /\ \A t \in Stores \ {s} : pc'[t] = pc[t]
    BY <1>1, GoOne DEF ServerShutdown
  <2>2. /\ server' \in [Stores -> {"none", "serving", "stopping", "shutdown"}]
        /\ \A t \in Stores \ {s} : server'[t] = server[t]
    BY <1>1 DEF ServerShutdown
  <2> QED
    BY <1>1, <2>1, <2>2 DEF ServerShutdown, Positions
<1>2. CASE ServerDrained(s, a)
  BY <1>2, GoOne DEF ServerDrained, Positions
<1>3. CASE SetFlag(s, a)
  <2>1. CASE Go(s, a, "raft") /\ UNCHANGED stopped
    BY <1>3, <2>1, GoOne DEF SetFlag, Positions
  <2>2. CASE ReturnFromStop(s, a)
    BY <1>3, <2>2, GoOne DEF SetFlag, ReturnFromStop, Positions
  <2> QED
    BY <1>3, <2>1, <2>2 DEF SetFlag
<1>4. CASE EngineStop(s, a)
  BY <1>4, GoOne DEF EngineStop, Positions
<1>5. CASE EngineUnready(s, a)
  BY <1>5, GoOne DEF EngineUnready, ReturnFromStop, Positions
<1> QED
  BY <1>1, <1>2, <1>3, <1>4, <1>5 DEF StopStep

LEMMA LocalOther ==
  ASSUME TypeOK, NEW s \in Stores,
         WaitReturns(s) \/ Free(s) \/ EventLoop(s) \/ Request(s)
  PROVE  Local(s)
<1> USE DEF Local, Same, TypeOK, Users, Set, serverVars, engineVars, historyVars
<1> pc \in Positions /\ {"done", "woken", "freed"} \subseteq Labels
  BY DEF Positions, StopLabels, Labels
<1>1. CASE WaitReturns(s)
  BY <1>1, GoOne DEF WaitReturns, Positions
<1>2. CASE Free(s)
  BY <1>2, GoOne DEF Free, Positions
<1>3. CASE EventLoop(s)
  BY <1>3 DEF EventLoop
<1>4. CASE Request(s)
  <2> MaxRequests \in Nat
    BY LifecycleAssumption
  <2>1. CASE RequestBegins(s)
    BY <2>1 DEF RequestBegins
  <2>2. CASE RequestEnds(s)
    BY <2>2 DEF RequestEnds
  <2>3. CASE RequestHangs(s)
    BY <2>3 DEF RequestHangs
  <2> QED
    BY <1>4, <2>1, <2>2, <2>3 DEF Request
<1> QED
  BY <1>1, <1>2, <1>3, <1>4

-----------------------------------------------------------------------------
LEMMA SameInv ==
  ASSUME NEW t \in Stores, StoreInv(t), Same(t) PROVE StoreInv(t)'
  BY DEF Same, StoreInv, Turns, StartHas, StopHas, InStart, Waiting, Blank, Down, Quiet,
         StopLabels, At

LEMMA InitStore == ASSUME Init, NEW s \in Stores PROVE StoreInv(s)
<1>1. /\ pc[s]["main"] = "new" /\ pc[s]["stopper"] = "idle"
      /\ server[s] = "none" /\ requests[s] = 0 /\ raft[s] = "none" /\ ready[s] = FALSE
      /\ events[s] = "none" /\ alive[s] = FALSE /\ started[s] = "none"
      /\ stopped[s] = FALSE /\ then[s] = "none"
  BY DEF Init, Users
<1> QED
  BY <1>1 DEF StoreInv, Turns, StartHas, StopHas, InStart, Waiting, Blank, Down, Quiet,
              StopLabels, Stoppers, At

LEMMA CallInv ==
  ASSUME NoEarlyStop, TypeOK, NEW s \in Stores, StoreInv(s), Call(s)
  PROVE  StoreInv(s)'
<1> USE DEF TypeOK, StoreInv, Set, At, serverVars, engineVars, historyVars
<1> pc \in Positions /\ StopLabels \subseteq Labels
       /\ {"new", "idle", "engine", "ready", "service", "settle", "fail", "shutdown", "drain",
           "flag", "raft", "unready", "free", "freed", "server", "done", "woken"} \subseteq Labels
  BY DEF Positions, StopLabels, Labels
<1> USE DEF Turns, StartHas, StopHas, InStart, Waiting, Blank, Down, Quiet, StopLabels, Stoppers
<1>1. CASE Construct(s)
  <2>1. pc'[s]["main"] = "idle" /\ pc'[s]["stopper"] = pc[s]["stopper"]
    BY <1>1, GoOne DEF Construct, Users
  <2> QED
    BY <1>1, <2>1 DEF Construct
<1>2. CASE CallStart(s)
  <2>1. /\ pc'[s]["main"] = IF s \in RaftStores THEN "engine" ELSE "service"
        /\ pc'[s]["stopper"] = pc[s]["stopper"]
    BY <1>2, GoOne DEF CallStart, Users
  <2> QED
    BY <1>2, <2>1 DEF CallStart
<1>3. CASE CallWait(s)
  <2>1. pc'[s]["main"] = pc[s]["main"] /\ pc'[s]["stopper"] = pc[s]["stopper"]
    BY <1>3, GoOne DEF CallWait, Users
  <2> QED
    BY <1>3, <2>1 DEF CallWait
<1>4. ASSUME CallStop(s, "main") PROVE StoreInv(s)'
  <2>1. pc'[s]["main"] = "shutdown" /\ pc'[s]["stopper"] = pc[s]["stopper"]
    BY <1>4, GoOne DEF CallStop, Users
  <2> QED
    BY <1>4, <2>1 DEF CallStop
<1>5. ASSUME CallStop(s, "stopper") PROVE StoreInv(s)'
  <2>1. pc'[s]["main"] = pc[s]["main"] /\ pc'[s]["stopper"] = "shutdown"
    BY <1>5, GoOne DEF CallStop, Users
  <2> QED
    BY <1>5, <2>1 DEF CallStop, NoEarlyStop
<1>6. CASE CallDestroy(s)
  <2>1. pc'[s]["main"] = "shutdown" /\ pc'[s]["stopper"] = pc[s]["stopper"]
    BY <1>6, GoOne DEF CallDestroy, Users
  <2> QED
    BY <1>6, <2>1 DEF CallDestroy
<1> QED
  BY <1>1, <1>2, <1>3, <1>4, <1>5, <1>6 DEF Call

LEMMA StartInv ==
  ASSUME TypeOK, NEW s \in Stores, StoreInv(s), StartStep(s) PROVE StoreInv(s)'
<1> USE DEF TypeOK, StoreInv, Set, At, serverVars, engineVars, historyVars
<1> pc \in Positions /\ StopLabels \subseteq Labels
       /\ {"idle", "ready", "service", "settle", "fail", "shutdown", "drain", "flag", "raft",
           "unready", "free", "freed", "done", "woken"} \subseteq Labels
  BY DEF Positions, StopLabels, Labels
<1> USE DEF Turns, StartHas, StopHas, InStart, Waiting, Blank, Down, Quiet, StopLabels, Stoppers
<1>1. CASE EngineStart(s)
  <2>1. CASE events' = Set(events, s, "check") /\ Go(s, "main", "ready") /\ UNCHANGED started
    <3>1. pc'[s]["main"] = "ready" /\ pc'[s]["stopper"] = pc[s]["stopper"]
      BY <2>1, GoOne DEF Users
    <3> QED
      BY <1>1, <2>1, <3>1 DEF EngineStart
  <2>2. CASE started' = Set(started, s, "false") /\ Go(s, "main", "idle") /\ UNCHANGED events
    <3>1. pc'[s]["main"] = "idle" /\ pc'[s]["stopper"] = pc[s]["stopper"]
      BY <2>2, GoOne DEF Users
    <3> QED
      BY <1>1, <2>2, <3>1 DEF EngineStart
  <2> QED
    BY <1>1, <2>1, <2>2 DEF EngineStart
<1>2. CASE EngineReady(s)
  <2>1. pc'[s]["main"] = "service" /\ pc'[s]["stopper"] = pc[s]["stopper"]
    BY <1>2, GoOne DEF EngineReady, Users
  <2> QED
    BY <1>2, <2>1 DEF EngineReady
<1>3. CASE ServiceStart(s)
  <2>1. CASE server' = Set(server, s, "serving") /\ Go(s, "main", "settle") /\ UNCHANGED then
    <3>1. pc'[s]["main"] = "settle" /\ pc'[s]["stopper"] = pc[s]["stopper"]
      BY <2>1, GoOne DEF Users
    <3> QED
      BY <1>3, <2>1, <3>1 DEF ServiceStart
  <2>2. CASE /\ server' = Set(server, s, "none") /\ then' = Set(then, s, "fail")
             /\ Go(s, "main", "shutdown")
    <3>1. pc'[s]["main"] = "shutdown" /\ pc'[s]["stopper"] = pc[s]["stopper"]
      BY <2>2, GoOne DEF Users
    <3> QED
      BY <1>3, <2>2, <3>1 DEF ServiceStart
  <2> QED
    BY <1>3, <2>1, <2>2 DEF ServiceStart
<1>4. CASE StartSettles(s)
  <2>1. CASE started' = Set(started, s, "true") /\ Go(s, "main", "idle") /\ UNCHANGED then
    <3>1. pc'[s]["main"] = "idle" /\ pc'[s]["stopper"] = pc[s]["stopper"]
      BY <2>1, GoOne DEF Users
    <3> QED
      BY <1>4, <2>1, <3>1 DEF StartSettles
  <2>2. CASE then' = Set(then, s, "fail") /\ Go(s, "main", "shutdown") /\ UNCHANGED started
    <3>1. pc'[s]["main"] = "shutdown" /\ pc'[s]["stopper"] = pc[s]["stopper"]
      BY <2>2, GoOne DEF Users
    <3> QED
      BY <1>4, <2>2, <3>1 DEF StartSettles
  <2> QED
    BY <1>4, <2>1, <2>2 DEF StartSettles
<1>5. CASE StartFails(s)
  <2>1. pc'[s]["main"] = "idle" /\ pc'[s]["stopper"] = pc[s]["stopper"]
    BY <1>5, GoOne DEF StartFails, Users
  <2> QED
    BY <1>5, <2>1 DEF StartFails
<1> QED
  BY <1>1, <1>2, <1>3, <1>4, <1>5 DEF StartStep

LEMMA StopInv ==
  ASSUME TypeOK, NEW s \in Stores, StoreInv(s), NEW a \in Stoppers, StopStep(s, a)
  PROVE  StoreInv(s)'
<1> USE DEF TypeOK, StoreInv, Set, At, serverVars, engineVars, historyVars
<1> pc \in Positions /\ StopLabels \subseteq Labels
       /\ {"idle", "ready", "service", "settle", "fail", "shutdown", "drain", "flag", "raft",
           "unready", "free", "freed", "done", "woken"} \subseteq Labels
  BY DEF Positions, StopLabels, Labels
<1> USE DEF Turns, StartHas, StopHas, InStart, Waiting, Blank, Down, Quiet, StopLabels, Stoppers
<1>1. CASE ServerShutdown(s, a)
  <2>1. /\ pc'[s][a] = IF server[s] = "none" THEN "flag" ELSE "drain"
        /\ \A b \in Stoppers \ {a} : pc'[s][b] = pc[s][b]
    BY <1>1, GoOne DEF ServerShutdown, Users
  <2>2. pc[s]["main"] # "settle"
    BY <1>1 DEF ServerShutdown
  <2>3. CASE a = "main"
    BY <1>1, <2>1, <2>2, <2>3 DEF ServerShutdown
  <2>4. CASE a = "stopper"
    BY <1>1, <2>1, <2>2, <2>4 DEF ServerShutdown
  <2> QED
    BY <2>3, <2>4
<1>2. CASE ServerDrained(s, a)
  <2>1. /\ pc'[s][a] = "flag"
        /\ \A b \in Stoppers \ {a} : pc'[s][b] = pc[s][b]
    BY <1>2, GoOne DEF ServerDrained, Users
  <2> QED
    BY <1>2, <2>1 DEF ServerDrained
<1>3. CASE SetFlag(s, a)
  <2>1. CASE s \in RaftStores
    <3>1. /\ pc'[s][a] = "raft"
          /\ \A b \in Stoppers \ {a} : pc'[s][b] = pc[s][b]
      BY <1>3, <2>1, GoOne DEF SetFlag, Users
    <3> QED
      BY <1>3, <2>1, <3>1 DEF SetFlag
  <2>2. CASE s \notin RaftStores
    <3>1. /\ pc'[s][a] = IF a = "stopper" THEN "idle" ELSE then[s]
          /\ \A b \in Stoppers \ {a} : pc'[s][b] = pc[s][b]
      BY <1>3, <2>2, GoOne DEF SetFlag, ReturnFromStop, Users
    <3> QED
      BY <1>3, <2>2, <3>1 DEF SetFlag, ReturnFromStop
  <2> QED
    BY <2>1, <2>2
<1>4. CASE EngineStop(s, a)
  <2>1. /\ pc'[s][a] = "unready"
        /\ \A b \in Stoppers \ {a} : pc'[s][b] = pc[s][b]
    BY <1>4, GoOne DEF EngineStop, Users
  <2> QED
    BY <1>4, <2>1 DEF EngineStop
<1>5. CASE EngineUnready(s, a)
  <2>1. /\ pc'[s][a] = IF a = "stopper" THEN "idle" ELSE then[s]
        /\ \A b \in Stoppers \ {a} : pc'[s][b] = pc[s][b]
    BY <1>5, GoOne DEF EngineUnready, Users, ReturnFromStop
  <2> QED
    BY <1>5, <2>1 DEF EngineUnready, ReturnFromStop
<1> QED
  BY <1>1, <1>2, <1>3, <1>4, <1>5 DEF StopStep

LEMMA OtherInv ==
  ASSUME TypeOK, NEW s \in Stores, StoreInv(s),
         WaitReturns(s) \/ Free(s) \/ EventLoop(s) \/ Request(s)
  PROVE  StoreInv(s)'
<1> USE DEF TypeOK, StoreInv, Set, At, serverVars, engineVars, historyVars
<1> pc \in Positions /\ StopLabels \subseteq Labels
       /\ {"idle", "ready", "service", "settle", "fail", "shutdown", "drain", "flag", "raft",
           "unready", "free", "freed", "done", "woken"} \subseteq Labels
  BY DEF Positions, StopLabels, Labels
<1> USE DEF Turns, StartHas, StopHas, InStart, Waiting, Blank, Down, Quiet, StopLabels, Stoppers
<1>1. CASE WaitReturns(s)
  <2>1. pc'[s]["main"] = pc[s]["main"] /\ pc'[s]["stopper"] = pc[s]["stopper"]
    BY <1>1, GoOne DEF WaitReturns, Users
  <2> QED
    BY <1>1, <2>1 DEF WaitReturns
<1>2. CASE Free(s)
  <2>1. pc'[s]["main"] = "freed" /\ pc'[s]["stopper"] = pc[s]["stopper"]
    BY <1>2, GoOne DEF Free, Users
  <2> QED
    BY <1>2, <2>1 DEF Free
<1>3. CASE EventLoop(s)
  BY <1>3 DEF EventLoop
<1>4. CASE Request(s)
  BY <1>4, LifecycleAssumption DEF Request, RequestBegins, RequestEnds, RequestHangs
<1> QED
  BY <1>1, <1>2, <1>3, <1>4
-----------------------------------------------------------------------------
\* Main knows where it goes after a stop.
MainReturns == \A s \in Stores : pc[s]["main"] \in StopLabels => then[s] # "none"

\* A step of one of the store's threads or handlers.
Step(s) == \/ Call(s) \/ StartStep(s) \/ \E a \in Stoppers : StopStep(s, a)
           \/ WaitReturns(s) \/ Free(s) \/ EventLoop(s) \/ Request(s)

LEMMA LocalStep ==
  ASSUME TypeOK, MainReturns, Next
  PROVE  \E s \in Stores : Step(s) /\ Local(s)
<1> PICK s \in Stores : Step(s)
  BY DEF Next, Proceed, Step
<1>1. ASSUME NEW a \in Stoppers, StopStep(s, a) PROVE Local(s)
  <2>1. pc[s][a] \in StopLabels
    BY <1>1 DEF StopStep, ServerShutdown, ServerDrained, SetFlag, EngineStop, EngineUnready,
                StopLabels, At
  <2>2. then[s] \in {"idle", "fail", "free"} \/ a = "stopper"
    BY <2>1 DEF MainReturns, TypeOK, Stoppers
  <2> QED
    BY <1>1, <2>2, LocalStop
<1> QED
  BY <1>1, LocalCall, LocalStart, LocalOther DEF Step

LEMMA MainStep ==
  ASSUME TypeOK, MainReturns, NEW s \in Stores,
         Step(s)
  PROVE  pc'[s]["main"] \in StopLabels => then'[s] # "none"
<1> USE DEF TypeOK, Set, At
<1> pc \in Positions /\ StopLabels \subseteq Labels /\ Stoppers \subseteq Users
       /\ {"idle", "engine", "service", "ready", "free", "freed", "server", "done"}
             \subseteq Labels \ {"shutdown", "drain", "raft", "unready"}
       /\ {"settle", "woken"} \subseteq Labels \ {"shutdown", "drain", "raft", "unready"}
       /\ {"shutdown", "drain", "flag", "raft", "unready", "fail"} \subseteq Labels
  BY DEF Positions, StopLabels, Labels, Users, Stoppers
<1> USE DEF StopLabels, Users
<1>1. CASE Construct(s) \/ CallStart(s) \/ CallWait(s) \/ CallDestroy(s)
  BY <1>1, GoOne DEF Construct, CallStart, CallWait, CallDestroy, MainReturns
<1>2. ASSUME NEW a \in Stoppers, CallStop(s, a) PROVE pc'[s]["main"] \in StopLabels => then'[s] # "none"
  BY <1>2, GoOne DEF CallStop, MainReturns, Stoppers
<1>3. CASE StartStep(s)
  BY <1>3, GoOne DEF StartStep, EngineStart, EngineReady, ServiceStart, StartSettles, StartFails, MainReturns
<1>4. ASSUME NEW a \in Stoppers, StopStep(s, a) PROVE pc'[s]["main"] \in StopLabels => then'[s] # "none"
  <2>1. CASE a = "stopper"
    BY <1>4, <2>1, GoOne DEF StopStep, ServerShutdown, ServerDrained, SetFlag, EngineStop, EngineUnready, ReturnFromStop, MainReturns
  <2>2. CASE a = "main"
    BY <1>4, <2>2, GoOne DEF StopStep, ServerShutdown, ServerDrained, SetFlag, EngineStop, EngineUnready, ReturnFromStop, MainReturns
  <2> QED
    BY <2>1, <2>2 DEF Stoppers
<1>5. CASE WaitReturns(s) \/ Free(s)
  BY <1>5, GoOne DEF WaitReturns, Free, MainReturns
<1>6. CASE EventLoop(s) \/ Request(s)
  BY <1>6 DEF EventLoop, Request, RequestBegins, RequestEnds, RequestHangs, MainReturns
<1> QED
  BY <1>1, <1>2, <1>3, <1>4, <1>5, <1>6 DEF Call, Step

(***************************************************************************)
(* The variables have their types: whatever the application is free to do, *)
(* a thread that returns from stop knows where to.                         *)
(***************************************************************************)
THEOREM TypeCorrect == Spec => []TypeOK
<1> DEFINE Inv == TypeOK /\ MainReturns
<1>1. Init => Inv
  <2> SUFFICES ASSUME Init PROVE MainReturns
    BY InitType
  <2> QED
    BY DEF Init, MainReturns, Users, StopLabels
<1>2. Inv /\ [Next]_vars => Inv'
  <2> SUFFICES ASSUME Inv, [Next]_vars PROVE Inv'
    OBVIOUS
  <2>1. CASE UNCHANGED vars
    BY <2>1 DEF vars, serverVars, engineVars, historyVars, TypeOK, MainReturns
  <2>2. CASE Next
    <3> PICK s \in Stores : Step(s) /\ Local(s)
      BY <2>2, LocalStep
    <3>1. pc'[s]["main"] \in StopLabels => then'[s] # "none"
      BY MainStep
    <3> QED
      BY <3>1 DEF Local, Same, MainReturns
  <2> QED
    BY <2>1, <2>2
<1>3. Inv => TypeOK
  OBVIOUS
<1> QED
  BY <1>1, <1>2, <1>3, PTL DEF Spec

(***************************************************************************)
(* LifeInv is an invariant of stores that nobody stops while they start    *)
(* (sldmkvcachestore.cpp:122-227).                                         *)
(***************************************************************************)
THEOREM LifeCorrect == ASSUME NoEarlyStop PROVE Spec => []LifeInv
<1>1. Init => LifeInv
  BY InitType, InitStore DEF LifeInv
<1>2. LifeInv /\ [Next]_vars => LifeInv'
  <2> SUFFICES ASSUME LifeInv, [Next]_vars PROVE LifeInv'
    OBVIOUS
  <2>1. CASE UNCHANGED vars
    <3>1. TypeOK'
      BY <2>1 DEF vars, serverVars, engineVars, historyVars, TypeOK, LifeInv
    <3>2. \A t \in Stores : Same(t)
      BY <2>1 DEF vars, serverVars, engineVars, historyVars, Same
    <3> QED
      BY <3>1, <3>2, SameInv DEF LifeInv
  <2>2. CASE Next
    <3>1. TypeOK /\ MainReturns
      BY DEF LifeInv, StoreInv, Turns, MainReturns
    <3> PICK s \in Stores : Step(s) /\ Local(s)
      BY <2>2, <3>1, LocalStep
    <3>2. StoreInv(s)
      BY DEF LifeInv
    <3>3. StoreInv(s)'
      BY <3>1, <3>2, CallInv, StartInv, StopInv, OtherInv DEF Step
    <3>4. ASSUME NEW t \in Stores \ {s} PROVE StoreInv(t)'
      BY SameInv DEF LifeInv, Local
    <3> QED
      BY <3>3, <3>4 DEF LifeInv, Local
  <2> QED
    BY <2>1, <2>2
<1> QED
  BY <1>1, <1>2, PTL DEF Spec

(***************************************************************************)
(* After a stop has returned no server serves, no handler is at work and   *)
(* Raft is down, unless somebody stopped the store while it was starting   *)
(* (sldmkvcachestore.cpp:207-227).                                         *)
(***************************************************************************)
THEOREM StopSafety == ASSUME NoEarlyStop PROVE Spec => []StopHolds
<1>1. LifeInv => StopHolds
  BY DEF LifeInv, StoreInv, StopHas, StopHolds, Down, Quiet
<1> QED
  BY <1>1, LifeCorrect, PTL

\* The Raft server goes down in EngineStop and nowhere else.
LEMMA DownStep ==
  ASSUME TypeOK, NEW s \in Stores, StoreInv(s), raft[s] = "running", raft'[s] = "down",
         Step(s)
  PROVE  Quiet(s)
<1> USE DEF TypeOK, Set, serverVars, engineVars, historyVars
<1>1. CASE Call(s)
  BY <1>1 DEF Call, Construct, CallStart, CallWait, CallStop, CallDestroy
<1>2. CASE StartStep(s)
  BY <1>2 DEF StartStep, EngineStart, EngineReady, ServiceStart, StartSettles, StartFails
<1>3. ASSUME NEW a \in Stoppers, StopStep(s, a) PROVE Quiet(s)
  <2>1. EngineStop(s, a)
    BY <1>3 DEF StopStep, ServerShutdown, ServerDrained, SetFlag, EngineUnready
  <2> QED
    BY <2>1 DEF EngineStop, StoreInv, StopHas, At
<1>4. CASE WaitReturns(s) \/ Free(s) \/ EventLoop(s) \/ Request(s)
  BY <1>4 DEF WaitReturns, Free, EventLoop, Request, RequestBegins, RequestEnds, RequestHangs
<1> QED
  BY <1>1, <1>2, <1>3, <1>4 DEF Step

(***************************************************************************)
(* Raft is never shut down under a handler                                 *)
(* (sldmkvcachestore.cpp:210-224).                                         *)
(***************************************************************************)
THEOREM ShutdownOrder == ASSUME NoEarlyStop PROVE Spec => ReverseOrder
<1> DEFINE Order == \A s \in Stores : raft[s] = "running" /\ raft'[s] = "down" =>
                       server[s] \in {"none", "shutdown"} /\ requests[s] = 0
<1>1. LifeInv /\ [Next]_vars => [Order]_vars
  <2> SUFFICES ASSUME LifeInv, Next, NEW t \in Stores, raft[t] = "running", raft'[t] = "down"
               PROVE  Quiet(t)
    BY DEF Quiet
  <2>1. TypeOK /\ MainReturns
    BY DEF LifeInv, StoreInv, Turns, MainReturns
  <2> PICK s \in Stores : Step(s) /\ Local(s)
    BY <2>1, LocalStep
  <2>2. s = t
    BY DEF Local, Same
  <2> QED
    BY <2>1, <2>2, DownStep DEF LifeInv
<1> QED
  BY <1>1, LifeCorrect, PTL DEF Spec, ReverseOrder

\* Start ends in one of three steps.
LEMMA StartEnds ==
  ASSUME TypeOK, NEW s \in Stores, StoreInv(s), started[s] = "running",
         started'[s] \in {"true", "false"},
         Step(s)
  PROVE  /\ started'[s] = "true" =>
              /\ server'[s] = "serving"
              /\ s \in RaftStores => raft'[s] = "running" /\ ready'[s]
         /\ started'[s] = "false" =>
              /\ server'[s] \in {"none", "shutdown"} /\ requests'[s] = 0 /\ ~ready'[s]
              /\ (raft'[s] = "running") <=> At(s, "main", "engine")
<1> USE DEF TypeOK, Set, serverVars, engineVars, historyVars
<1>1. CASE Call(s)
  BY <1>1 DEF Call, Construct, CallStart, CallWait, CallStop, CallDestroy
<1>2. CASE StartStep(s)
  <2> USE DEF StoreInv, StartHas, StopHas, Blank, Down, Quiet, At
  <2>1. CASE EngineStart(s)
    BY <2>1 DEF EngineStart
  <2>2. CASE EngineReady(s)
    BY <2>2 DEF EngineReady
  <2>3. CASE ServiceStart(s)
    BY <2>3 DEF ServiceStart
  <2>4. CASE StartSettles(s)
    BY <2>4 DEF StartSettles
  <2>5. CASE StartFails(s)
    BY <2>5 DEF StartFails
  <2> QED
    BY <1>2, <2>1, <2>2, <2>3, <2>4, <2>5 DEF StartStep
<1>3. ASSUME NEW a \in Stoppers, StopStep(s, a) PROVE started'[s] = started[s]
  BY <1>3 DEF StopStep, ServerShutdown, ServerDrained, SetFlag, EngineStop, EngineUnready
<1>4. CASE WaitReturns(s) \/ Free(s) \/ EventLoop(s) \/ Request(s)
  BY <1>4 DEF WaitReturns, Free, EventLoop, Request, RequestBegins, RequestEnds, RequestHangs
<1> QED
  BY <1>1, <1>2, <1>3, <1>4 DEF Step

(***************************************************************************)
(* A start that returns true has left everything running, one that returns *)
(* false nothing but, when the engine did not start, the Raft server that  *)
(* runs since the constructor (sldmkvcachestore.cpp:122-196).              *)
(***************************************************************************)
THEOREM StartOutcome == ASSUME NoEarlyStop PROVE Spec => StartTells
<1> DEFINE Tells ==
      \A s \in Stores :
         /\ started[s] = "running" /\ started'[s] = "true" =>
              /\ server'[s] = "serving"
              /\ s \in RaftStores => raft'[s] = "running" /\ ready'[s]
         /\ started[s] = "running" /\ started'[s] = "false" =>
              /\ server'[s] \in {"none", "shutdown"} /\ requests'[s] = 0 /\ ~ready'[s]
              /\ (raft'[s] = "running") <=> At(s, "main", "engine")
<1>1. LifeInv /\ [Next]_vars => [Tells]_vars
  <2> SUFFICES ASSUME LifeInv, Next, NEW t \in Stores, started[t] = "running",
                      started'[t] \in {"true", "false"}
               PROVE  /\ started'[t] = "true" =>
                           /\ server'[t] = "serving"
                           /\ t \in RaftStores => raft'[t] = "running" /\ ready'[t]
                      /\ started'[t] = "false" =>
                           /\ server'[t] \in {"none", "shutdown"} /\ requests'[t] = 0
                           /\ ~ready'[t]
                           /\ (raft'[t] = "running") <=> At(t, "main", "engine")
    OBVIOUS
  <2>1. TypeOK /\ MainReturns
    BY DEF LifeInv, StoreInv, Turns, MainReturns
  <2> PICK s \in Stores : Step(s) /\ Local(s)
    BY <2>1, LocalStep
  <2>2. s = t
    BY DEF Local, Same
  <2> QED
    BY <2>1, <2>2, StartEnds DEF LifeInv
<1> QED
  BY <1>1, LifeCorrect, PTL DEF Spec, StartTells
-----------------------------------------------------------------------------
\* There is no server before start makes one, and the one that ended a wait
\* has shut down, whoever stops the store meanwhile.
ServerInv(s) ==
  /\ started[s] = "none" \/ pc[s]["main"] \in {"new", "engine", "ready", "service"} =>
        server[s] = "none"
  /\ pc[s]["main"] \in {"engine", "ready", "service"} => started[s] # "none"
  /\ pc[s]["main"] \in {"free", "freed"} => then[s] = "free"
  /\ then[s] = "free" =>
        /\ pc[s]["main"] \in StopLabels \cup {"free", "freed"}
        /\ pc[s]["stopper"] = "idle" /\ pc[s]["waiter"] # "server"
  /\ pc[s]["main"] = "freed" => server[s] = "none"
  /\ pc[s]["waiter"] = "server" => server[s] # "none"
  /\ pc[s]["waiter"] = "done" => server[s] = "shutdown" \/ pc[s]["main"] = "freed"
  /\ \A a \in Stoppers : pc[s][a] = "drain" => server[s] # "none"
  /\ pc[s]["main"] \in StopLabels => then[s] # "none"

\* The steps of stop, without the way back: who goes where, and what of the
\* server.
LEMMA StopMoves ==
  ASSUME TypeOK, NEW s \in Stores, NEW a \in Stoppers, StopStep(s, a),
         then[s] \in {"idle", "fail", "free"} \/ a = "stopper"
  PROVE  /\ pc[s][a] \in StopLabels
         /\ started' = started /\ then' = then
         /\ \A b \in Users \ {a} : pc'[s][b] = pc[s][b]
         /\ \/ pc'[s][a] \in StopLabels
            \/ pc'[s][a] = IF a = "stopper" THEN "idle" ELSE then[s]
         /\ pc'[s][a] = "drain" => server[s] # "none" /\ server'[s] # "none"
         /\ \/ server'[s] = server[s]
            \/ server[s] = "serving" /\ server'[s] = "stopping"
            \/ pc[s][a] = "drain" /\ server'[s] = "shutdown"
<1> USE DEF TypeOK, Set, At, serverVars, engineVars, historyVars
<1> pc \in Positions /\ StopLabels \subseteq Labels /\ Stoppers \subseteq Users
       /\ {"idle", "fail", "free"} \subseteq Labels
  BY DEF Positions, StopLabels, Labels, Users, Stoppers
<1>1. CASE ServerShutdown(s, a)
  BY <1>1, GoOne DEF ServerShutdown, StopLabels
<1>2. CASE ServerDrained(s, a)
  BY <1>2, GoOne DEF ServerDrained, StopLabels
<1>3. CASE SetFlag(s, a)
  BY <1>3, GoOne DEF SetFlag, ReturnFromStop, StopLabels
<1>4. CASE EngineStop(s, a)
  BY <1>4, GoOne DEF EngineStop, StopLabels
<1>5. CASE EngineUnready(s, a)
  BY <1>5, GoOne DEF EngineUnready, ReturnFromStop, StopLabels
<1> QED
  BY <1>1, <1>2, <1>3, <1>4, <1>5 DEF StopStep

LEMMA ServerStep ==
  ASSUME TypeOK, NEW s \in Stores, ServerInv(s), Step(s) PROVE ServerInv(s)'
<1> USE DEF TypeOK, Set, At, ServerInv, Users, Stoppers, serverVars, engineVars, historyVars
<1> pc \in Positions
       /\ {"new", "idle", "engine", "ready", "service", "settle", "fail", "shutdown", "drain",
           "flag", "raft", "unready", "free", "freed", "server", "done", "woken"} \subseteq Labels
  BY DEF Positions, StopLabels, Labels
<1>1. CASE Construct(s)
  BY <1>1, GoOne DEF Construct, StopLabels
<1>2. CASE CallStart(s)
  BY <1>2, GoOne DEF CallStart, StopLabels
<1>3. CASE CallWait(s)
  BY <1>3, GoOne DEF CallWait, StopLabels
<1>4. ASSUME CallStop(s, "main") PROVE ServerInv(s)'
  BY <1>4, GoOne DEF CallStop, StopLabels
<1>5. ASSUME CallStop(s, "stopper") PROVE ServerInv(s)'
  BY <1>5, GoOne DEF CallStop, StopLabels
<1>6. CASE CallDestroy(s)
  BY <1>6, GoOne DEF CallDestroy, StopLabels
<1>7. CASE EngineStart(s)
  BY <1>7, GoOne DEF EngineStart, StopLabels
<1>8. CASE EngineReady(s)
  BY <1>8, GoOne DEF EngineReady, StopLabels
<1>9. CASE ServiceStart(s)
  <2>1. pc'[s]["stopper"] = pc[s]["stopper"] /\ pc'[s]["waiter"] = pc[s]["waiter"]
    BY <1>9, GoOne DEF ServiceStart
  <2>2. pc[s]["main"] = "service" /\ server[s] = "none" /\ started' = started
    BY <1>9 DEF ServiceStart
  <2>3. started[s] # "none"
    BY <1>9, <2>2 DEF ServiceStart
  <2>4. CASE server' = Set(server, s, "serving") /\ Go(s, "main", "settle") /\ UNCHANGED then
    <3>1. pc'[s]["main"] = "settle"
      BY <2>4, GoOne
    <3> QED
      BY <2>1, <2>2, <2>3, <2>4, <3>1 DEF StopLabels
  <2>5. CASE /\ server' = Set(server, s, "none") /\ then' = Set(then, s, "fail")
             /\ Go(s, "main", "shutdown")
    <3>1. pc'[s]["main"] = "shutdown"
      BY <2>5, GoOne
    <3> QED
      BY <2>1, <2>2, <2>3, <2>5, <3>1 DEF StopLabels
  <2> QED
    BY <1>9, <2>4, <2>5 DEF ServiceStart
<1>10. CASE StartSettles(s)
  BY <1>10, GoOne DEF StartSettles, StopLabels
<1>11. CASE StartFails(s)
  BY <1>11, GoOne DEF StartFails, StopLabels
<1>12. ASSUME NEW a \in Stoppers, StopStep(s, a) PROVE ServerInv(s)'
  <2>1. then[s] \in {"idle", "fail", "free"} \/ a = "stopper"
    <3>1. pc[s][a] \in StopLabels
      BY <1>12 DEF StopStep, ServerShutdown, ServerDrained, SetFlag, EngineStop, EngineUnready,
                   StopLabels
    <3> QED
      BY <3>1
  <2>2. CASE a = "main"
    BY <1>12, <2>1, <2>2, StopMoves DEF StopLabels
  <2>3. CASE a = "stopper"
    BY <1>12, <2>1, <2>3, StopMoves DEF StopLabels
  <2> QED
    BY <2>2, <2>3
<1>13. CASE WaitReturns(s)
  BY <1>13, GoOne DEF WaitReturns, StopLabels
<1>14. CASE Free(s)
  BY <1>14, GoOne DEF Free, StopLabels
<1>15. CASE EventLoop(s) \/ Request(s)
  BY <1>15 DEF EventLoop, Request, RequestBegins, RequestEnds, RequestHangs
<1> QED
  BY <1>1, <1>2, <1>3, <1>4, <1>5, <1>6, <1>7, <1>8, <1>9, <1>10, <1>11, <1>12, <1>13,
     <1>14, <1>15 DEF Step, Call, StartStep

(***************************************************************************)
(* A wait for the server ends only when the server of its own store has    *)
(* gone, whatever the application does to this store, stops while it       *)
(* starts included, or to the others (grpc_service.cpp:421-429).           *)
(***************************************************************************)
THEOREM ServerWaits ==
  Spec => [](\A s \in Stores : At(s, "waiter", "done") => server[s] \in {"none", "shutdown"})
<1> DEFINE Inv == TypeOK /\ \A s \in Stores : ServerInv(s)
<1>1. Init => Inv
  <2> SUFFICES ASSUME Init, NEW s \in Stores PROVE ServerInv(s)
    BY InitType
  <2> QED
    BY DEF Init, Users, Stoppers, ServerInv, StopLabels
<1>2. Inv /\ [Next]_vars => Inv'
  <2> SUFFICES ASSUME Inv, [Next]_vars PROVE Inv'
    OBVIOUS
  <2>1. CASE UNCHANGED vars
    BY <2>1 DEF vars, serverVars, engineVars, historyVars, TypeOK, ServerInv
  <2>2. CASE Next
    <3>1. TypeOK /\ MainReturns
      BY DEF ServerInv, MainReturns
    <3> PICK s \in Stores : Step(s) /\ Local(s)
      BY <2>2, <3>1, LocalStep
    <3>2. ServerInv(s)'
      BY <3>1, ServerStep
    <3>3. ASSUME NEW t \in Stores \ {s} PROVE ServerInv(t)'
      BY DEF Local, Same, ServerInv
    <3> QED
      BY <3>2, <3>3 DEF Local
  <2> QED
    BY <2>1, <2>2
<1>3. Inv => \A s \in Stores : At(s, "waiter", "done") => server[s] \in {"none", "shutdown"}
  BY DEF ServerInv, At
<1> QED
  BY <1>1, <1>2, <1>3, PTL DEF Spec
-----------------------------------------------------------------------------
\* The flag is set, and a wait ended by it, only after a stop has set it.
FlagInv ==
  shutdown_requested \/ (\E s \in Stores : At(s, "waiter", "woken")) =>
     \E r \in Stores : PastFlag(r)

\* A stop that has come past the flag stays there, and only stop sets it.
LEMMA FlagStep ==
  ASSUME TypeOK, MainReturns, NEW s \in Stores, Step(s)
  PROVE  /\ PastFlag(s) => PastFlag(s)'
         /\ shutdown_requested' => shutdown_requested \/ PastFlag(s)'
         /\ At(s, "waiter", "woken")' => At(s, "waiter", "woken") \/ shutdown_requested
<1> USE DEF TypeOK, Set, At, PastFlag, Users, Stoppers, serverVars, engineVars, historyVars
<1> pc \in Positions
       /\ {"new", "idle", "engine", "ready", "service", "settle", "fail", "shutdown", "drain",
           "flag", "raft", "unready", "free", "freed", "server", "done", "woken"} \subseteq Labels
  BY DEF Positions, StopLabels, Labels
<1>1. CASE Call(s)
  <2>1. CASE Construct(s) \/ CallStart(s) \/ CallWait(s) \/ CallDestroy(s)
    BY <2>1, GoOne DEF Construct, CallStart, CallWait, CallDestroy
  <2>2. CASE CallStop(s, "main")
    BY <2>2, GoOne DEF CallStop
  <2>3. CASE CallStop(s, "stopper")
    BY <2>3, GoOne DEF CallStop
  <2> QED
    BY <1>1, <2>1, <2>2, <2>3 DEF Call
<1>2. CASE StartStep(s)
  BY <1>2, GoOne DEF StartStep, EngineStart, EngineReady, ServiceStart, StartSettles, StartFails
<1>3. ASSUME NEW a \in Stoppers, StopStep(s, a)
      PROVE  /\ PastFlag(s) => PastFlag(s)'
             /\ shutdown_requested' => shutdown_requested \/ PastFlag(s)'
             /\ At(s, "waiter", "woken")' => At(s, "waiter", "woken")
  <2>1. then[s] \in {"idle", "fail", "free"} \/ a = "stopper"
    <3>1. pc[s][a] \in StopLabels
      BY <1>3 DEF StopStep, ServerShutdown, ServerDrained, SetFlag, EngineStop, EngineUnready,
                  StopLabels
    <3> QED
      BY <3>1 DEF MainReturns
  <2>2. pc'[s]["waiter"] = pc[s]["waiter"]
    BY <1>3, <2>1, StopMoves
  <2>3. CASE ServerShutdown(s, a) \/ ServerDrained(s, a) \/ EngineStop(s, a)
    <3>1. \A b \in Stoppers \ {a} : pc'[s][b] = pc[s][b]
      BY <1>3, <2>1, StopMoves
    <3>2. pc[s][a] \in {"raft", "unready"} => pc'[s][a] = "unready"
      BY <2>3, GoOne DEF ServerShutdown, ServerDrained, EngineStop
    <3>3. shutdown_requested' = shutdown_requested /\ stopped' = stopped
      BY <2>3 DEF ServerShutdown, ServerDrained, EngineStop
    <3> QED
      BY <2>2, <3>1, <3>2, <3>3
  <2>4. CASE SetFlag(s, a) \/ EngineUnready(s, a)
    <3>1. PastFlag(s)'
      <4>1. CASE SetFlag(s, a) /\ s \in RaftStores
        BY <4>1, GoOne DEF SetFlag
      <4>2. CASE ReturnFromStop(s, a)
        BY <4>2 DEF ReturnFromStop
      <4> QED
        BY <2>4, <4>1, <4>2 DEF SetFlag, EngineUnready
    <3> QED
      BY <2>2, <3>1
  <2> QED
    BY <1>3, <2>3, <2>4 DEF StopStep
<1>4. CASE WaitReturns(s) \/ Free(s)
  BY <1>4, GoOne DEF WaitReturns, Free
<1>5. CASE EventLoop(s) \/ Request(s)
  BY <1>5 DEF EventLoop, Request, RequestBegins, RequestEnds, RequestHangs
<1> QED
  BY <1>1, <1>2, <1>3, <1>4, <1>5 DEF Step

\* Whoever is past the flag has no server left that works.
LEMMA PastIsQuiet ==
  ASSUME LifeInv, NEW s \in Stores, PastFlag(s) PROVE server[s] \in {"none", "shutdown"}
BY DEF LifeInv, StoreInv, StopHas, PastFlag, Down, Quiet, At

LEMMA FlagCorrect == ASSUME NoEarlyStop PROVE Spec => [](LifeInv /\ FlagInv)
<1>1. Init => FlagInv
  BY DEF Init, FlagInv, At, Users
<1>2. LifeInv /\ FlagInv /\ [Next]_vars => FlagInv'
  <2> SUFFICES ASSUME LifeInv, FlagInv, [Next]_vars PROVE FlagInv'
    OBVIOUS
  <2>1. CASE UNCHANGED vars
    BY <2>1 DEF vars, serverVars, engineVars, historyVars, FlagInv, PastFlag, At
  <2>2. CASE Next
    <3>1. TypeOK /\ MainReturns
      BY DEF LifeInv, StoreInv, Turns, MainReturns
    <3> PICK s \in Stores : Step(s) /\ Local(s)
      BY <2>2, <3>1, LocalStep
    <3>2. \A r \in Stores : PastFlag(r) => PastFlag(r)'
      <4>1. ASSUME NEW r \in Stores \ {s} PROVE PastFlag(r) => PastFlag(r)'
        BY DEF Local, Same, PastFlag
      <4> QED
        BY <3>1, <4>1, FlagStep
    <3>3. \A r \in Stores \ {s} : At(r, "waiter", "woken")' => At(r, "waiter", "woken")
      BY DEF Local, Same, At
    <3>4. /\ shutdown_requested' => shutdown_requested \/ PastFlag(s)'
          /\ At(s, "waiter", "woken")' => At(s, "waiter", "woken") \/ shutdown_requested
      BY <3>1, FlagStep
    <3> QED
      BY <3>2, <3>3, <3>4 DEF FlagInv
  <2> QED
    BY <2>1, <2>2
<1> QED
  BY <1>1, <1>2, LifeCorrect, PTL DEF Spec

(***************************************************************************)
(* A wait may begin at any time, before start too, and for any number of   *)
(* stores: it ends when the own server has gone or, on the shared flag,    *)
(* because another store was stopped (grpc_service.cpp:408-413, 421-441).  *)
(***************************************************************************)
THEOREM WaitSafety == ASSUME NoEarlyStop PROVE Spec => []WaitMeansStopped
<1> DEFINE Own == \A s \in Stores :
                     At(s, "waiter", "done") => server[s] \in {"none", "shutdown"}
<1>1. LifeInv /\ FlagInv /\ Own => WaitMeansStopped
  <2> SUFFICES ASSUME LifeInv, FlagInv, NEW s \in Stores, At(s, "waiter", "woken"),
                      server[s] \notin {"none", "shutdown"}
               PROVE  \E r \in Stores \ {s} : PastFlag(r)
    BY DEF WaitMeansStopped
  <2> QED
    BY PastIsQuiet DEF FlagInv
<1> QED
  BY <1>1, FlagCorrect, ServerWaits, PTL

(***************************************************************************)
(* With one store in the process, as in the example server, every wait     *)
(* ends only when its own server has gone (grpc_service.cpp:408-413,       *)
(* 421-441).                                                               *)
(***************************************************************************)
THEOREM OneStoreWaits ==
  ASSUME NoEarlyStop, NEW s, Stores = {s}
  PROVE  Spec => [](pc[s]["waiter"] \in {"done", "woken"} => server[s] \in {"none", "shutdown"})
<1>1. WaitMeansStopped =>
        (pc[s]["waiter"] \in {"done", "woken"} => server[s] \in {"none", "shutdown"})
  BY DEF WaitMeansStopped, At
<1> QED
  BY <1>1, WaitSafety, PTL
=============================================================================
