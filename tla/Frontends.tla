------------------------------ MODULE Frontends ------------------------------
(***************************************************************************)
(* The two ways into a store's cache, which SLDMKVCacheStore sets up side  *)
(* by side (src/src/common/sldmkvcachestore.cpp): the handlers of          *)
(* GrpcService, run by its workers, and the VLLMConnector, called by the   *)
(* threads of the program that holds the store.                            *)
(***************************************************************************)
EXTENDS GrpcService

CONSTANTS Callers, Asks, Throws   \* the connector's

VARIABLES asked, given, called   \* the connector

connectorVars == <<asked, given, called>>

Connector == INSTANCE VLLMConnector

ASSUME FrontendsAssumption == Workers \cap Callers = {} /\ Connector!ConnectorAssumption

FrontendsInit == Init /\ Connector!ConnectorInit

FrontendsNext ==
    \/ Next /\ UNCHANGED connectorVars
    \/ /\ \E t \in Callers : Connector!Step(t)
       /\ UNCHANGED handlerVars
       /\ Observe

FrontendsSpec == FrontendsInit /\ [][FrontendsNext]_<<vars, connectorVars>>

\* VLLMConnector's property, while handlers use the same cache.
Transparent == Connector!Transparent

-----------------------------------------------------------------------------
\* A caller of the connector waits for the cache until it is given an answer,
\* and then the cache has nothing of it.
CallersInv ==
    /\ asked \in [Callers -> Calls \cup {NoCall}]
    /\ given \in [Callers -> Replies]
    /\ called \in [Callers -> Nat]
    /\ \A t \in Callers :
         IF asked[t] # NoCall /\ given[t] = NoReply
         THEN pending[t] = asked[t] /\ since[t] = called[t]
         ELSE pending[t] = NoCall /\ answer[t] = NoReply /\ since[t] = 0
    /\ \A t \in Callers : asked[t] = NoCall => given[t] = NoReply /\ called[t] = 0

(***************************************************************************)
(* Handlers and callers of the connector take steps in any order, but none *)
(* makes untrue what another is about to answer (grpc_service.cpp:35-253,  *)
(* vllm_connector.cpp:30-113): the inductive invariant of both.            *)
(***************************************************************************)
FrontendsInv == HandlersInv /\ CallersInv
=============================================================================
