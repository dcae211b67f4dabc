-------------------------------- MODULE Mec --------------------------------
(***************************************************************************)
(* The life cycle of MEC applications: a UE application asks its device    *)
(* application to start and later to stop a MEC application; the device    *)
(* application talks HTTP to the user application life cycle management    *)
(* proxy (UALCMP), the proxy sends messages to the MEC orchestrator, and   *)
(* the orchestrator calls the virtualisation infrastructure manager (VIM)  *)
(* of a MEC host.                                                          *)
(*                                                                         *)
(* A device application has one request out at a time, so requests,        *)
(* responses and the delayed messages of the orchestrator are indexed by   *)
(* it; the proxy may take the requests in any order.  The times of the     *)
(* orchestrator (50 ms to instantiate, 50 ms to onboard, ...) are steps    *)
(* that happen eventually.  Requests are not shared (no UE application     *)
(* sets the flag) and connections are up.                                  *)
(***************************************************************************)
EXTENDS Integers, Sequences, FiniteSets, FiniteSetsExt

CONSTANTS
  DeviceApps,   \* device applications, one per UE application
  Hosts,        \* MEC hosts of the orchestrator's list
  AppDIds,      \* application descriptors
  Wants,        \* Wants[d]: the descriptor the UE application of d asks for
  Cost,         \* Cost[a]: resources (CPU, RAM, disk alike) a needs
  Emulated,     \* descriptors of applications that run outside the simulator
  MaxMecApps,   \* slots and gates of a host
  Capacity,     \* resources of a host
  MecHostBased, \* {h} for the policy that always takes host h, else {}
  Logging,      \* whether EV statements are evaluated
  MaxStarts     \* bound on the attempts of one device application

ASSUME MecAssumption ==
  /\ Wants \in [DeviceApps -> AppDIds] /\ Cost \in [AppDIds -> Nat]
  /\ Emulated \subseteq AppDIds /\ MecHostBased \subseteq Hosts
  /\ MaxMecApps \in Nat /\ Capacity \in Nat /\ MaxStarts \in Nat
  /\ Logging \in BOOLEAN

VARIABLES
  ueApp,            \* which timer of the UE application is running
  appState,         \* DeviceApp::appState
  deviceAppIdCounter, \* DeviceApp::deviceAppIdCounter, counted from 2000
  appContextUri,    \* DeviceApp::appContextUri: the number of the context
  request,          \* the HTTP request on its way to or queued at the UALCMP
  response,         \* the HTTP response on its way back
  meoMsg,           \* the MecOrchestratorMessage scheduled for a request
  onboarded,        \* keys of mecApplicationDescriptors_
  meAppMap,         \* contexts of the orchestrator
  contextIdCounter,
  vim,              \* per host: what its VIM keeps
  failed            \* an exception ended the simulation

vars == <<ueApp, appState, deviceAppIdCounter, appContextUri, request,
          response, meoMsg, onboarded, meAppMap, contextIdCounter, vim, failed>>

Nothing == [kind |-> "none"]
NoEntry == [app |-> "none"]     \* what std::map::operator[] makes up

Init ==
  /\ ueApp = [d \in DeviceApps |-> "selfStart"]
  /\ appState = [d \in DeviceApps |-> "IDLE"]
  /\ deviceAppIdCounter = [d \in DeviceApps |-> 0]
  /\ appContextUri = [d \in DeviceApps |-> 0]
  /\ request = [d \in DeviceApps |-> Nothing]
  /\ response = [d \in DeviceApps |-> Nothing]
  /\ meoMsg = [d \in DeviceApps |-> Nothing]
  /\ onboarded = {}
  /\ meAppMap = <<>>
  /\ contextIdCounter = 0
  /\ vim = [h \in Hosts |-> [mecAppMap |-> <<>>, currentMEApps |-> 0,
                             allocated |-> 0,
                             freeGates |-> [i \in 1..MaxMecApps |-> i]]]
  /\ failed = FALSE

With(f, k, e) == [x \in DOMAIN f \union {k} |-> IF x = k THEN e ELSE f[x]]
Without(f, k) == [x \in DOMAIN f \ {k} |-> f[x]]

-----------------------------------------------------------------------------
(* The VIM of a host, as functions of its state v.                         *)

IsAllocable(v, a) == v.currentMEApps < MaxMecApps
                     /\ Cost[a] < Capacity - v.allocated

\* front() of an empty vector is undefined: here it is no gate.
FirstGate(v) == IF v.freeGates = <<>> THEN 0 ELSE Head(v.freeGates)

(* The gate is taken before the resources are checked.  An emulated        *)
(* application needs a slot and resources and no gate.                     *)
InstantiateMEApp(v, id, a) ==
  IF v.currentMEApps >= MaxMecApps \/ id \in DOMAIN v.mecAppMap
  THEN [vim |-> v, status |-> FALSE]
  ELSE LET gate == IF a \in Emulated THEN 0 ELSE FirstGate(v)
           w == IF a \in Emulated \/ v.freeGates = <<>> THEN v
                ELSE [v EXCEPT !.freeGates = Tail(@)]
       IN IF ~IsAllocable(v, a)
          THEN [vim |-> w, status |-> FALSE]
          ELSE [vim |-> [w EXCEPT
                  !.mecAppMap = With(@, id, [app |-> a, gate |-> gate]),
                  !.currentMEApps = @ + 1, !.allocated = @ + Cost[a]],
                status |-> TRUE]

\* Mutant: the gate of the application is not given back.
TerminateKeepsGate(v, id) ==
  IF id \notin DOMAIN v.mecAppMap
  THEN [vim |-> v, status |-> FALSE]
  ELSE [vim |-> [v EXCEPT !.mecAppMap = Without(@, id),
                          !.currentMEApps = @ - 1,
                          !.allocated = @ - Cost[v.mecAppMap[id].app]],
        status |-> TRUE]

\* Mutant: the entry of the map is left behind.
TerminateKeepsEntry(v, id) == [vim |-> v, status |-> TRUE]

TerminateMEApp(v, id) ==
  IF id \notin DOMAIN v.mecAppMap
  THEN [vim |-> v, status |-> FALSE]
  ELSE LET entry == v.mecAppMap[id]
       IN [vim |-> [v EXCEPT
              !.mecAppMap = Without(@, id),
              !.currentMEApps = @ - 1,
              !.allocated = @ - Cost[entry.app],
              !.freeGates = IF entry.app \in Emulated THEN @
                            ELSE Append(@, entry.gate)],
           status |-> TRUE]

-----------------------------------------------------------------------------
(* The MEC orchestrator.                                                   *)

(* Hosts a selection policy may return.  MecServiceBased and               *)
(* AvailableResourcesBased return a host that is allocable, which one      *)
(* depends on services and loads; MecHostBased does not look.              *)
BestMecHosts(a) == IF MecHostBased # {} THEN MecHostBased
                   ELSE {h \in Hosts : IsAllocable(vim[h], a)}

\* A request for a package has no appDId, which matches no context.
AlreadyStarted(post) ==
  {c \in DOMAIN meAppMap : /\ post.hasAppDId
                           /\ meAppMap[c].app = post.app
                           /\ meAppMap[c].ueAppID = post.ueAppID}

\* Mutant: the context is stored although the instantiation failed.
StoreAnyway(d, post) ==
  /\ AlreadyStarted(post) = {}
  /\ onboarded' = onboarded \union {post.app}
  /\ \E h \in BestMecHosts(post.app) :
       \E result \in {InstantiateMEApp(vim[h], post.ueAppID, post.app)} :
         /\ vim' = [vim EXCEPT ![h] = result.vim]
         /\ meAppMap' = With(meAppMap, contextIdCounter,
              [app |-> post.app, ueAppID |-> post.ueAppID, host |-> h])
         /\ meoMsg' = [meoMsg EXCEPT ![d] =
              [kind |-> "CREATE", success |-> result.status,
               contextId |-> contextIdCounter]]
         /\ contextIdCounter' = contextIdCounter + 1
  /\ UNCHANGED response

StartOnHost(d, post) ==
  /\ AlreadyStarted(post) = {}
  /\ onboarded' = onboarded \union {post.app}
  /\ \E h \in BestMecHosts(post.app) :
       \E result \in {InstantiateMEApp(vim[h], post.ueAppID, post.app)} :
         /\ vim' = [vim EXCEPT ![h] = result.vim]
         /\ IF result.status
            THEN /\ meAppMap' = With(meAppMap, contextIdCounter,
                   [app |-> post.app, ueAppID |-> post.ueAppID, host |-> h])
                 /\ contextIdCounter' = contextIdCounter + 1
            ELSE UNCHANGED <<meAppMap, contextIdCounter>>
         /\ meoMsg' = [meoMsg EXCEPT ![d] =
              [kind |-> "CREATE", success |-> result.status,
               contextId |-> contextIdCounter]]
  /\ UNCHANGED response

NoSuitableHost(d, post) ==
  /\ AlreadyStarted(post) = {} /\ BestMecHosts(post.app) = {}
  /\ onboarded' = onboarded \union {post.app}
  /\ meoMsg' = [meoMsg EXCEPT ![d] =
                  [kind |-> "CREATE", success |-> FALSE, contextId |-> 0]]
  /\ UNCHANGED <<response, meAppMap, contextIdCounter, vim>>

\* The first context found is acknowledged at once.
AckExisting(d, post) ==
  /\ AlreadyStarted(post) # {}
  /\ response' = [response EXCEPT ![d] =
        [kind |-> "201", contextId |-> Min(AlreadyStarted(post))]]
  /\ UNCHANGED <<meoMsg, onboarded, meAppMap, contextIdCounter, vim>>

StartMecApp(d, post) == /\ \/ AckExisting(d, post)
                           \/ NoSuitableHost(d, post)
                           \/ StartOnHost(d, post)
                        /\ UNCHANGED failed

(* An unknown context is refused at once; the log statement that reports   *)
(* it adds an entry to the map.                                            *)
StopUnknown(d, c) ==
  /\ c \notin DOMAIN meAppMap
  /\ meAppMap' = IF Logging THEN With(meAppMap, c, NoEntry) ELSE meAppMap
  /\ response' = [response EXCEPT ![d] = [kind |-> "500"]]
  /\ UNCHANGED <<meoMsg, vim, failed>>

(* Casting the platform manager of a made-up entry ends the simulation, and *)
(* so does logging the name of an emulated application, which has no module. *)
StopKnown(d, c) ==
  /\ c \in DOMAIN meAppMap
  /\ \E entry \in {meAppMap[c]} :
       IF entry = NoEntry \/ (Logging /\ entry.app \in Emulated)
       THEN failed' = TRUE /\ UNCHANGED <<meAppMap, vim, meoMsg>>
       ELSE \E result \in {TerminateMEApp(vim[entry.host], entry.ueAppID)} :
              /\ vim' = [vim EXCEPT ![entry.host] = result.vim]
              /\ meAppMap' = IF result.status THEN Without(meAppMap, c)
                                              ELSE meAppMap
              /\ meoMsg' = [meoMsg EXCEPT ![d] =
                              [kind |-> "DELETE", success |-> result.status]]
              /\ UNCHANGED failed
  /\ UNCHANGED response

StopMecApp(d, c) == /\ StopUnknown(d, c) \/ StopKnown(d, c)
                    /\ UNCHANGED <<onboarded, contextIdCounter>>

(* The delayed answer of the orchestrator and the response of the UALCMP.  *)
(* Nothing is sent for a context that was deleted in the meantime.         *)
SendAck(d) ==
  /\ meoMsg[d] # Nothing
  /\ \E msg \in {meoMsg[d]} :
       response' = [response EXCEPT ![d] =
         IF ~msg.success THEN [kind |-> "500"]
         ELSE IF msg.kind = "DELETE" THEN [kind |-> "204"]
         ELSE IF msg.contextId \notin DOMAIN meAppMap THEN Nothing
         ELSE [kind |-> "201", contextId |-> msg.contextId]]
  /\ meoMsg' = [meoMsg EXCEPT ![d] = Nothing]
  /\ UNCHANGED <<ueApp, appState, deviceAppIdCounter, appContextUri, request,
                 onboarded, meAppMap, contextIdCounter, vim, failed>>

-----------------------------------------------------------------------------
(* The UALCMP serves a request.                                            *)

HandleGETRequest(d) ==
  /\ request[d].kind = "GET"
  /\ response' = [response EXCEPT ![d] =
                    [kind |-> "200", listed |-> request[d].app \in onboarded]]
  /\ UNCHANGED <<meoMsg, onboarded, meAppMap, contextIdCounter, vim, failed>>

HandlePOSTRequest(d) == request[d].kind = "POST" /\ StartMecApp(d, request[d])

HandleDELETERequest(d) ==
  request[d].kind = "DELETE" /\ StopMecApp(d, request[d].contextId)

ManageRequest(d) ==
  /\ HandleGETRequest(d) \/ HandlePOSTRequest(d) \/ HandleDELETERequest(d)
  /\ request' = [request EXCEPT ![d] = Nothing]
  /\ UNCHANGED <<ueApp, appState, deviceAppIdCounter, appContextUri>>

-----------------------------------------------------------------------------
(* The UE application and its device application, which share a loopback   *)
(* interface.  Both timers of the UE application fire again and again      *)
(* until the acknowledgement comes; a message the device application       *)
(* ignores changes nothing.                                                *)

\* Mutant: a start request is also accepted while an application is created.
StartTwice(d) ==
  /\ ueApp[d] = "selfStart" /\ deviceAppIdCounter[d] < MaxStarts
  /\ appState[d] \in {"IDLE", "CREATING"}
  /\ request[d] = Nothing /\ response[d] = Nothing
  /\ request' = [request EXCEPT ![d] = [kind |-> "GET", app |-> Wants[d]]]
  /\ appState' = [appState EXCEPT ![d] = "START"]
  /\ UNCHANGED <<ueApp, deviceAppIdCounter, appContextUri, response, meoMsg,
                 onboarded, meAppMap, contextIdCounter, vim, failed>>

SendStartAppContext(d) ==
  /\ ueApp[d] = "selfStart" /\ deviceAppIdCounter[d] < MaxStarts
  /\ appState[d] = "IDLE"
  /\ request' = [request EXCEPT ![d] = [kind |-> "GET", app |-> Wants[d]]]
  /\ appState' = [appState EXCEPT ![d] = "START"]
  /\ UNCHANGED <<ueApp, deviceAppIdCounter, appContextUri, response, meoMsg,
                 onboarded, meAppMap, contextIdCounter, vim, failed>>

SendStopAppContext(d) ==
  /\ ueApp[d] = "selfStop" /\ appState[d] = "APPCREATED"
  /\ request' = [request EXCEPT ![d] =
                   [kind |-> "DELETE", contextId |-> appContextUri[d]]]
  /\ appState' = [appState EXCEPT ![d] = "DELETING"]
  /\ UNCHANGED <<ueApp, deviceAppIdCounter, appContextUri, response, meoMsg,
                 onboarded, meAppMap, contextIdCounter, vim, failed>>

(* START: the list of applications is answered with a request that has the *)
(* appDId when the name was listed, and the package otherwise.             *)
SendPost(d) ==
  /\ appState[d] = "START" /\ response[d].kind = "200"
  /\ deviceAppIdCounter' = [deviceAppIdCounter EXCEPT ![d] = @ + 1]
  /\ request' = [request EXCEPT ![d] =
       [kind |-> "POST", app |-> Wants[d], hasAppDId |-> response[d].listed,
        ueAppID |-> deviceAppIdCounter[d] + 1]]
  /\ appState' = [appState EXCEPT ![d] = "CREATING"]
  /\ UNCHANGED <<ueApp, appContextUri>>

\* CREATING: the UE application stops asking and will ask to stop.
AppCreated(d) ==
  /\ appState[d] = "CREATING" /\ response[d].kind = "201"
  /\ appContextUri' = [appContextUri EXCEPT ![d] = response[d].contextId]
  /\ appState' = [appState EXCEPT ![d] = "APPCREATED"]
  /\ ueApp' = [ueApp EXCEPT ![d] = "selfStop"]
  /\ UNCHANGED <<deviceAppIdCounter, request>>

NotCreated(d) ==
  /\ appState[d] = "CREATING" /\ response[d].kind = "500"
  /\ appState' = [appState EXCEPT ![d] = "IDLE"]
  /\ UNCHANGED <<ueApp, deviceAppIdCounter, appContextUri, request>>

AppDeleted(d) ==
  /\ appState[d] = "DELETING" /\ response[d].kind = "204"
  /\ appState' = [appState EXCEPT ![d] = "IDLE"]
  /\ ueApp' = [ueApp EXCEPT ![d] = "stopped"]
  /\ UNCHANGED <<deviceAppIdCounter, appContextUri, request>>

\* DELETING: the negative acknowledgement is built and never sent.
NotDeleted(d) ==
  /\ appState[d] = "DELETING" /\ response[d].kind = "500"
  /\ appState' = [appState EXCEPT ![d] = "APPCREATED"]
  /\ UNCHANGED <<ueApp, deviceAppIdCounter, appContextUri, request>>

HandleUalcmpMessage(d) ==
  /\ \/ SendPost(d) \/ AppCreated(d) \/ NotCreated(d)
     \/ AppDeleted(d) \/ NotDeleted(d)
  /\ response' = [response EXCEPT ![d] = Nothing]
  /\ UNCHANGED <<meoMsg, onboarded, meAppMap, contextIdCounter, vim, failed>>

-----------------------------------------------------------------------------

Next == /\ ~failed
        /\ \E d \in DeviceApps :
             \/ SendStartAppContext(d) \/ SendStopAppContext(d)
             \/ ManageRequest(d) \/ SendAck(d) \/ HandleUalcmpMessage(d)

Spec == Init /\ [][Next]_vars

(* Every timer fires, every request is served and every message arrives.   *)
Fairness == \A d \in DeviceApps :
  /\ WF_vars(~failed /\ SendStartAppContext(d))
  /\ WF_vars(~failed /\ SendStopAppContext(d))
  /\ WF_vars(~failed /\ ManageRequest(d))
  /\ WF_vars(~failed /\ SendAck(d))
  /\ WF_vars(~failed /\ HandleUalcmpMessage(d))

FairSpec == Spec /\ Fairness

-----------------------------------------------------------------------------
(* The orchestrator and the VIMs agree: the contexts are, one for one, the *)
(* applications that run on the hosts.  They are two maps with different   *)
(* keys (a counter, and the number a device application chose for itself), *)
(* changed by calls that may fail.                                         *)
ContextsAreApps ==
  /\ \A c \in DOMAIN meAppMap : \E e \in {meAppMap[c]} :
       /\ e.ueAppID \in DOMAIN vim[e.host].mecAppMap
       /\ vim[e.host].mecAppMap[e.ueAppID].app = e.app
  /\ \A h \in Hosts : \A id \in DOMAIN vim[h].mecAppMap :
       Cardinality({c \in DOMAIN meAppMap : meAppMap[c].host = h
                                            /\ meAppMap[c].ueAppID = id}) = 1

(* Nothing leaks in a VIM, whatever requests succeed, fail or collide:     *)
(* slots, resources and gates are those of the applications in its map.    *)
ResourcesAccounted ==
  \A h \in Hosts : \E v \in {vim[h]} :
    \E ids \in {DOMAIN v.mecAppMap} :
      /\ v.currentMEApps = Cardinality(ids)
      /\ v.allocated = MapThenSumSet(LAMBDA id : Cost[v.mecAppMap[id].app], ids)
      /\ \E real \in {{id \in ids : v.mecAppMap[id].app \notin Emulated}} :
           /\ Len(v.freeGates) + Cardinality(real) = MaxMecApps
           /\ {v.freeGates[i] : i \in DOMAIN v.freeGates}
                \union {v.mecAppMap[id].gate : id \in real} = 1..MaxMecApps

(* Every context is known to a device application that has it or that will *)
(* be told of it: no application runs that nobody can stop.                *)
NoOrphans ==
  \A c \in DOMAIN meAppMap : \E d \in DeviceApps :
    \/ appState[d] \in {"APPCREATED", "DELETING"} /\ appContextUri[d] = c
    \/ /\ appState[d] = "CREATING"
       /\ \/ meoMsg[d].kind = "CREATE" /\ meoMsg[d].success
             /\ meoMsg[d].contextId = c
          \/ response[d].kind = "201" /\ response[d].contextId = c

(* UE applications stop what they started: in the end no application runs, *)
(* although devices may have been given the same context, requests fail    *)
(* and answers get lost.                                                   *)
AllStopped == <>[](\A h \in Hosts : vim[h].mecAppMap = <<>>)

(* A device application that did not ask for a shared application has one  *)
(* of its own: ueAppID is "for identifying the UEApp".                     *)
OwnInstance ==
  \A d, e \in DeviceApps :
    (d # e /\ appState[d] = "APPCREATED" /\ appState[e] = "APPCREATED")
      => appContextUri[d] # appContextUri[e]
=============================================================================
