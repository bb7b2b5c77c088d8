----------------------------- MODULE FlowCallbacks -----------------------------
(***************************************************************************)
(* The flow callback registry of src/internal/ccsmp/ccsmp_flow.go.  Each   *)
(* flow created by SolClientSessionCreateFlow takes a fresh flowID from an *)
(* atomic counter and stores its message and event callbacks under that ID *)
(* in two package-level sync.Maps.  The core library then calls            *)
(* goFlowMessageReceiveCallback and goFlowEventCallback with the ID as its *)
(* user pointer, and those look the callback up and call it.  The caller   *)
(* of the flow API (a persistent receiver, not in this repository) removes *)
(* the callbacks and destroys the flow in an order the file does not fix,  *)
(* so both orders are modelled.  The core library delivers on one context  *)
(* thread: message callbacks only to a started flow, events to any flow it *)
(* holds, none after solClient_flow_destroy.  The C calls that keep no Go  *)
(* state (subscribe, ack, settle, get destination) are not actions.        *)
(***************************************************************************)
EXTENDS Naturals, FiniteSets

CONSTANTS
  Creators,  \* goroutines that each create one flow with their own callbacks
  None

VARIABLES
  flowID,    \* the package variable flowID
  fid,       \* per creator: the ID its flow got, 0 before it has one
  cpc,       \* per creator: where it is in the flow's life
  removed,   \* per creator: it has called SolClientFlowRemoveCallbacks
  rxMap,     \* flowToRXCallbackMap: ID -> the creator whose callback it is
  evMap,     \* flowToEventCallbackMap
  coreFlows, \* flows (by creator) the core library holds: created, not destroyed
  started,   \* flows started and not stopped
  core,      \* the context thread: None or the callback it loaded
  invoked    \* history: pairs <<flow, creator of the callback run for it>>

creatorVars == <<fid, cpc, removed>>
mapVars == <<rxMap, evMap>>
coreVars == <<coreFlows, started, core, invoked>>
vars == <<flowID, creatorVars, mapVars, coreVars>>

IDs == 1..Cardinality(Creators)

\* sync.Map Store and Delete on a map modelled as a function.
Store(m, k, v) == [x \in DOMAIN m \cup {k} |-> IF x = k THEN v ELSE m[x]]
Delete(m, k) == [x \in DOMAIN m \ {k} |-> m[x]]
\* sync.Map Load: the value, or None when absent.
Load(m, k) == IF k \in DOMAIN m THEN m[k] ELSE None

Init ==
  /\ flowID = 0
  /\ fid = [c \in Creators |-> 0] /\ cpc = [c \in Creators |-> "Idle"]
  /\ removed = [c \in Creators |-> FALSE]
  /\ rxMap = <<>> /\ evMap = <<>>
  /\ coreFlows = {} /\ started = {} /\ core = None /\ invoked = {}

-----------------------------------------------------------------------------
(* SolClientSessionCreateFlow (lines 105-127).                             *)

\* Mutant: the ID is read back from the package variable after the add,
\* so it may already include other goroutines' increments.
CreateFlowIDReRead(c) ==
  /\ cpc[c] = "Idle"
  /\ flowID' = flowID + 1
  /\ \E v \in flowID + 1 .. Cardinality(Creators) : fid' = [fid EXCEPT ![c] = v]
  /\ cpc' = [cpc EXCEPT ![c] = "Store"]
  /\ UNCHANGED <<removed, mapVars, coreVars>>

\* Line 109: flowID := atomic.AddUintptr(&flowID, 1).
CreateFlowID(c) ==
  /\ cpc[c] = "Idle"
  /\ flowID' = flowID + 1
  /\ fid' = [fid EXCEPT ![c] = flowID + 1]
  /\ cpc' = [cpc EXCEPT ![c] = "Store"]
  /\ UNCHANGED <<removed, mapVars, coreVars>>

\* Lines 111-112: store both callbacks under the ID.
StoreCallbacks(c) ==
  /\ cpc[c] = "Store"
  /\ rxMap' = Store(rxMap, fid[c], c) /\ evMap' = Store(evMap, fid[c], c)
  /\ cpc' = [cpc EXCEPT ![c] = "Create"]
  /\ UNCHANGED <<flowID, fid, removed, coreVars>>

\* Lines 116-126: SessionFlowCreate registers the flow with the core
\* library under the ID; on an error the function returns nil and leaves
\* both map entries in place.
SessionFlowCreate(c) ==
  /\ cpc[c] = "Create"
  /\ \/ coreFlows' = coreFlows \cup {c} /\ cpc' = [cpc EXCEPT ![c] = "Created"]
     \/ cpc' = [cpc EXCEPT ![c] = "Failed"] /\ UNCHANGED coreFlows
  /\ UNCHANGED <<flowID, fid, removed, mapVars, started, core, invoked>>

(* Operations on a created flow.                                           *)

\* SolClientFlowStart (lines 144-148) and SolClientFlowStop (151-155).
SolClientFlowStart(c) ==
  /\ cpc[c] = "Created" /\ c \notin started
  /\ started' = started \cup {c}
  /\ UNCHANGED <<flowID, creatorVars, mapVars, coreFlows, core, invoked>>

SolClientFlowStop(c) ==
  /\ cpc[c] = "Created" /\ c \in started
  /\ started' = started \ {c}
  /\ UNCHANGED <<flowID, creatorVars, mapVars, coreFlows, core, invoked>>

\* Mutant: only the message callback is deleted.
SolClientFlowRemoveCallbacksRxOnly(c) ==
  /\ cpc[c] \in {"Created", "Destroyed"} /\ ~removed[c]
  /\ rxMap' = Delete(rxMap, fid[c])
  /\ removed' = [removed EXCEPT ![c] = TRUE]
  /\ UNCHANGED <<flowID, fid, cpc, evMap, coreVars>>

\* SolClientFlowRemoveCallbacks (lines 130-133).
SolClientFlowRemoveCallbacks(c) ==
  /\ cpc[c] \in {"Created", "Destroyed"} /\ ~removed[c]
  /\ rxMap' = Delete(rxMap, fid[c]) /\ evMap' = Delete(evMap, fid[c])
  /\ removed' = [removed EXCEPT ![c] = TRUE]
  /\ UNCHANGED <<flowID, fid, cpc, coreVars>>

\* SolClientFlowDestroy (lines 136-141): once solClient_flow_destroy
\* returns, the core library makes no further callback for the flow.
SolClientFlowDestroy(c) ==
  /\ cpc[c] = "Created" /\ core = None
  /\ coreFlows' = coreFlows \ {c} /\ started' = started \ {c}
  /\ cpc' = [cpc EXCEPT ![c] = "Destroyed"]
  /\ UNCHANGED <<flowID, fid, removed, mapVars, core, invoked>>

-----------------------------------------------------------------------------
(* The core library's context thread calling back into Go.                 *)

\* Both callbacks begin with a Load keyed by the user pointer the flow was
\* created with; a message comes only to a started flow.
CoreLoad(f, map) ==
  /\ core = None
  /\ core' = [flow |-> f, cb |-> Load(map, fid[f])]
  /\ UNCHANGED <<flowID, creatorVars, mapVars, coreFlows, started, invoked>>

\* goFlowMessageReceiveCallback (lines 74-75).
goFlowMessageReceiveCallback(f) == f \in started /\ CoreLoad(f, rxMap)

\* goFlowEventCallback (lines 86-87).
goFlowEventCallback(f) == f \in coreFlows /\ CoreLoad(f, evMap)

\* Then the loaded callback runs, or nothing runs and only a log line is
\* written (lines 76-82, 88-91); the message callback's answer picks
\* SOLCLIENT_CALLBACK_TAKE_MSG or _OK, which keeps no Go state.
CoreInvoke ==
  /\ core # None
  /\ invoked' = IF core.cb = None THEN invoked ELSE invoked \cup {<<core.flow, core.cb>>}
  /\ core' = None
  /\ UNCHANGED <<flowID, creatorVars, mapVars, coreFlows, started>>

Next ==
  \/ \E c \in Creators :
       \/ CreateFlowID(c) \/ StoreCallbacks(c) \/ SessionFlowCreate(c)
       \/ SolClientFlowStart(c) \/ SolClientFlowStop(c)
       \/ SolClientFlowRemoveCallbacks(c) \/ SolClientFlowDestroy(c)
  \/ \E f \in Creators : goFlowMessageReceiveCallback(f) \/ goFlowEventCallback(f)
  \/ CoreInvoke

Spec == Init /\ [][Next]_vars

-----------------------------------------------------------------------------
\* Every variable has its type, and the two callback maps are always keyed
\* by the same flow IDs: create stores into both, remove deletes from both.
TypeOK ==
  /\ flowID \in 0..Cardinality(Creators)
  /\ fid \in [Creators -> 0..Cardinality(Creators)]
  /\ cpc \in [Creators -> {"Idle", "Store", "Create", "Created", "Failed", "Destroyed"}]
  /\ removed \in [Creators -> BOOLEAN]
  /\ DOMAIN rxMap \subseteq IDs /\ DOMAIN evMap = DOMAIN rxMap
  /\ \A f \in DOMAIN rxMap : rxMap[f] \in Creators /\ evMap[f] = rxMap[f]
  /\ coreFlows \subseteq Creators /\ started \subseteq coreFlows
  /\ invoked \subseteq Creators \X Creators

\* Every callback the core library triggers for a flow runs the callback
\* that was registered with that flow: flow IDs never collide, so no Store in
\* SolClientSessionCreateFlow replaces another live flow's entry.
CallbackReachesOwner == \A pair \in invoked : pair[1] = pair[2]
=============================================================================
