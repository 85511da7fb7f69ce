------------------------- MODULE RedundancyManager -------------------------
(***************************************************************************)
(* The servers that hold a client's subscription queues: the first of      *)
(* m_redundantEndpoints is the primary, which pushes events, the others    *)
(* are secondaries (ThinClientRedundancyManager, ThinClientPoolHADM,       *)
(* TcrPoolEndPoint, TcrEndpoint::receiveNotification).                     *)
(*                                                                         *)
(* maintainRedundancyLevel runs under m_redundantEndpointsLock, one        *)
(* endpoint at a time, in the thread of redundancy() or in a thread that   *)
(* met an error.  Meanwhile servers stop and start, requests and pings     *)
(* find endpoints connected or not, and the notification thread of an      *)
(* endpoint finds its channel broken: it marks the endpoint first and asks *)
(* for m_notifyReceiverLock afterwards.                                    *)
(*                                                                         *)
(* The pool has a list of servers, no locators, and the client is not      *)
(* durable.                                                                *)
(***************************************************************************)
EXTENDS Integers, Sequences, Functions

(* As in SequencesExt, of which nothing else is needed: every obligation   *)
(* of a proof carries all the definitions of the modules extended here.    *)
Last(s) == s[Len(s)]
Front(s) == SubSeq(s, 1, Len(s) - 1)

CONSTANTS m_servers,        \* the pool's servers, from m_server on
          m_redundancyLevel,
          MaxFaults,        \* bound: crashes, lost channels, timeouts;
                            \* servers down at the start count as one
          MaxRefused        \* bound: errors a server that is up replies with

Endpoints == Range(m_servers)

(* The orders of a set of endpoints.                                       *)
SetToSeqs(S) ==
  {s \in UNION {[1..n -> S] : n \in 0..Len(m_servers)} :
     IsInjective(s) /\ Range(s) = S}

ASSUME RedundancyAssumption ==
  /\ m_servers \in Seq(Range(m_servers)) /\ m_servers # <<>>
  /\ IsInjective(m_servers)
  /\ m_redundancyLevel \in Nat \cup {-1}
  /\ MaxFaults \in Nat /\ MaxRefused \in Nat

VARIABLES m_redundantEndpoints, m_nonredundantEndpoints,
          m_allEndpointsDisconnected,  \* the regions have been told so
          up,         \* the server runs
          channel,    \* m_notifyConnection, as its server knows it
          connected,  \* connected_
          listeners,  \* m_numRegionListener
          receiver,   \* m_notifyReceiver: the notification thread
          released,   \* redundancy_semaphore_
          mrl,        \* the holder of m_redundantEndpointsLock
          overtaken,  \* history: endpoints marked connected again, by a
                      \* request or by registerDM, before anyone looked
                      \* after the loss of their channel
          faults, refused

lists == <<m_redundantEndpoints, m_nonredundantEndpoints,
           m_allEndpointsDisconnected>>
status == <<connected, released>>
vars == <<lists, up, channel, status, listeners, receiver, mrl, overtaken,
          faults, refused>>

-----------------------------------------------------------------------------

Channels == {"none", "secondary", "primary", "broken"}

Receivers == [pc : {"none", "receive", "lock", "ended"}, isRunning : BOOLEAN]

(* todo: what is left of the list the holder goes through.                 *)
Holders ==
  [pc : {"idle", "scan", "offer", "join", "start", "recover", "promote",
         "leave", "stop", "flag", "clean", "wait", "closed"},
   init : BOOLEAN, todo : Seq(Endpoints), secondaryCount : Nat,
   isPrimaryConnected : BOOLEAN, isRedundancySatisfied : BOOLEAN,
   isPrimaryAtBack : BOOLEAN, tempRedundant : Seq(Endpoints),
   tempNonredundant : Seq(Endpoints), err : BOOLEAN, fatal : BOOLEAN]

Idle ==
  [pc |-> "idle", init |-> FALSE, todo |-> <<>>, secondaryCount |-> 0,
   isPrimaryConnected |-> FALSE, isRedundancySatisfied |-> FALSE,
   isPrimaryAtBack |-> FALSE, tempRedundant |-> <<>>,
   tempNonredundant |-> <<>>, err |-> TRUE, fatal |-> FALSE]

Begun(init) ==
  [Idle EXCEPT !.pc = "scan", !.init = init, !.todo = m_redundantEndpoints]

(* The endpoint in turn.                                                   *)
ep == Head(mrl.todo)

Following == [mrl EXCEPT !.todo = Tail(@)]

(* A loop over a list that ends early once redundancy is satisfied.        *)
Goes(pc) ==
  mrl.pc = pc /\ mrl.todo # <<>> /\ ~mrl.isRedundancySatisfied
Ends(pc) ==
  mrl.pc = pc /\ (mrl.todo = <<>> \/ mrl.isRedundancySatisfied)

-----------------------------------------------------------------------------
(* Endpoints.                                                              *)

(* Mutant: the thread of redundancy() is not released.                     *)
DisconnectQuietly(e) ==
  connected' = [connected EXCEPT ![e] = FALSE] /\ UNCHANGED released

(* setConnectionStatus(false)                                              *)
Disconnect(e) ==
  /\ connected' = [connected EXCEPT ![e] = FALSE]
  /\ released' = (released \/ connected[e])

Refuses(e) == up[e] /\ refused < MaxRefused /\ refused' = refused + 1

(* A request to e fails: the server is gone, or does not reply in time, or *)
(* replies with an error, which may be one that isFatalError names.        *)
RequestError(e, fatal) ==
  \/ ~fatal /\ ~up[e] /\ Disconnect(e) /\ UNCHANGED refused
  \/ ~fatal /\ Refuses(e) /\ Disconnect(e)
  \/ Refuses(e) /\ UNCHANGED status

(* Mutant: closeNotification leaves the thread running.                    *)
unregisterDMRunning(e) ==
  /\ listeners' = [listeners EXCEPT ![e] = IF @ > 0 THEN @ - 1 ELSE 0]
  /\ UNCHANGED receiver

(* closeNotification stops the thread.  The channel stays open.            *)
unregisterDM(e) ==
  /\ listeners' = [listeners EXCEPT ![e] = IF @ > 0 THEN @ - 1 ELSE 0]
  /\ receiver' = [receiver EXCEPT ![e].isRunning = @ /\ listeners[e] # 1]

MadePrimary(e) ==
  [channel EXCEPT ![e] = IF @ = "secondary" THEN "primary" ELSE @]

(* The server may have done what it does not confirm.                      *)
sendMakePrimaryMesg(e, ok) ==
  \/ ~ok /\ ~connected[e] /\ UNCHANGED <<channel, status, refused>>
  \/ /\ ok /\ connected[e] /\ up[e]
     /\ channel' = MadePrimary(e)
     /\ UNCHANGED <<status, refused>>
  \/ /\ ~ok /\ connected[e] /\ RequestError(e, FALSE)
     /\ channel' \in {channel, MadePrimary(e)}

-----------------------------------------------------------------------------
(* maintainRedundancyLevel, in the thread of redundancy() or another.      *)

others == <<up, overtaken, faults>>
endpointVars == <<channel, status, listeners, receiver, refused>>

redundancy ==
  /\ mrl.pc = "idle" /\ released
  /\ released' = FALSE
  /\ mrl' = Begun(FALSE)
  /\ UNCHANGED <<lists, channel, connected, listeners, receiver, refused,
                 others>>

(* sendSyncRequestCq, sendSyncRequestRegisterInterest, readyForEvents and  *)
(* sendRequestToPrimary call it when a request failed.                     *)
maintainAfterError ==
  /\ mrl.pc = "idle"
  /\ mrl' = Begun(FALSE)
  /\ UNCHANGED <<lists, endpointVars, others>>

(* The redundant endpoints: which are still there?                         *)
Gone == [Following EXCEPT !.tempNonredundant = Append(@, ep)]

(* Mutant: the primary is taken to be connected.                           *)
ScanFirstUnchecked ==
  /\ Goes("scan") /\ mrl.todo = m_redundantEndpoints
  /\ mrl' = [Following EXCEPT !.isPrimaryConnected = TRUE,
                !.isRedundancySatisfied = m_redundancyLevel = 0]
  /\ UNCHANGED <<lists, endpointVars, others>>

ScanFirst ==
  /\ Goes("scan") /\ mrl.todo = m_redundantEndpoints
  /\ mrl' = IF connected[ep]
            THEN [Following EXCEPT !.isPrimaryConnected = TRUE,
                    !.isRedundancySatisfied = m_redundancyLevel = 0]
            ELSE Gone
  /\ UNCHANGED <<lists, endpointVars, others>>

ScanPromote ==
  /\ Goes("scan") /\ mrl.todo # m_redundantEndpoints
  /\ ~mrl.isPrimaryConnected
  /\ \E ok \in BOOLEAN :
       /\ sendMakePrimaryMesg(ep, ok)
       /\ mrl' = IF ok THEN [Following EXCEPT !.isPrimaryConnected = TRUE]
                 ELSE Gone
  /\ UNCHANGED <<lists, listeners, receiver, others>>

Secondary(m) ==
  [m EXCEPT !.secondaryCount = @ + 1,
            !.isRedundancySatisfied =
               m.isPrimaryConnected /\ m.secondaryCount + 1 = m_redundancyLevel]

ScanSecondary ==
  /\ Goes("scan") /\ mrl.todo # m_redundantEndpoints
  /\ mrl.isPrimaryConnected
  /\ mrl' = IF connected[ep] THEN Secondary(Following) ELSE Gone
  /\ UNCHANGED <<lists, endpointVars, others>>

(* Mutant: the redundant endpoints are not excluded.                       *)
SelectedAll == m_servers

(* selectServers: with a list of servers, all that are not excluded.       *)
Selected ==
  LET outEndpoints[n \in 0..Len(m_servers)] ==
        IF n = 0 THEN <<>>
        ELSE IF m_servers[n] \in Range(m_redundantEndpoints)
             THEN outEndpoints[n - 1]
             ELSE Append(outEndpoints[n - 1], m_servers[n])
  IN  outEndpoints[Len(m_servers)]

Select ==
  /\ Ends("scan")
  /\ m_nonredundantEndpoints' =
       IF mrl.isRedundancySatisfied \/ mrl.init THEN m_nonredundantEndpoints
       ELSE Selected
  /\ mrl' = [mrl EXCEPT !.pc = "offer", !.todo = m_nonredundantEndpoints']
  /\ UNCHANGED <<m_redundantEndpoints, m_allEndpointsDisconnected,
                 endpointVars, others>>

(* The other endpoints: makePrimary for the last one that is needed,       *)
(* makeSecondary before, or when there is a primary.                       *)
AsPrimary ==
  ~mrl.isPrimaryConnected /\ mrl.secondaryCount = m_redundancyLevel

Skips == AsPrimary /\ mrl.init /\ Len(mrl.todo) > 1

Skip ==
  /\ Goes("offer") /\ Skips
  /\ mrl' = Following
  /\ UNCHANGED <<lists, endpointVars, others>>

Failed(fatal) ==
  [Following EXCEPT !.pc = "offer", !.err = TRUE, !.fatal = @ \/ fatal]

(* registerDM makes a connection for an endpoint that has none, and a      *)
(* channel when there are no listeners.                                    *)
NeedsServer == ~connected[ep] \/ listeners[ep] = 0

RegisterFails ==
  /\ Goes("offer") /\ ~Skips /\ NeedsServer
  /\ \/ ~up[ep] /\ mrl' = Failed(FALSE) /\ UNCHANGED refused
     \/ Refuses(ep) /\ \E fatal \in BOOLEAN : mrl' = Failed(fatal)
  /\ connected' = [connected EXCEPT ![ep] = FALSE]
  /\ UNCHANGED <<lists, channel, released, listeners, receiver, others>>

Register ==
  /\ Goes("offer") /\ ~Skips /\ (NeedsServer => up[ep])
  /\ connected' = [connected EXCEPT ![ep] = TRUE]
  /\ overtaken' = IF receiver[ep].pc = "lock" THEN overtaken \cup {ep}
                  ELSE overtaken
  /\ IF listeners[ep] = 0
     THEN /\ channel' = [channel EXCEPT ![ep] = IF AsPrimary THEN "primary"
                                                ELSE "secondary"]
          /\ mrl' = [mrl EXCEPT !.pc = "join"]
          /\ UNCHANGED listeners
     ELSE /\ listeners' = [listeners EXCEPT ![ep] = @ + 1]
          /\ mrl' = [mrl EXCEPT !.pc = "recover"]
          /\ UNCHANGED channel
  /\ UNCHANGED <<lists, up, released, receiver, faults, refused>>

(* The new notification thread replaces the old one, whose destructor      *)
(* waits for it to end.                                                    *)
Join ==
  /\ mrl.pc = "join"
  /\ receiver[ep].pc \in {"none", "ended"}
  /\ receiver' = [receiver EXCEPT ![ep] = [pc |-> "receive",
                                           isRunning |-> TRUE]]
  /\ overtaken' = overtaken \ {ep}
  /\ mrl' = [mrl EXCEPT !.pc = "start"]
  /\ UNCHANGED <<lists, up, channel, status, listeners, faults, refused>>

(* Whatever the new thread found meanwhile, the endpoint is connected.     *)
Started ==
  /\ mrl.pc = "start"
  /\ listeners' = [listeners EXCEPT ![ep] = @ + 1]
  /\ connected' = [connected EXCEPT ![ep] = TRUE]
  /\ mrl' = [mrl EXCEPT !.pc = "recover"]
  /\ UNCHANGED <<lists, channel, released, receiver, refused, others>>

(* registerInterestAllRegions, readyForEvents, executeAllCqs: there may be *)
(* nothing to send.                                                        *)
Recover ==
  /\ mrl.pc = "recover"
  /\ LET m == [Following EXCEPT !.pc = "offer",
                            !.tempRedundant = Append(@, ep),
                            !.err = FALSE]
     IN  mrl' = IF AsPrimary
                THEN [m EXCEPT !.isPrimaryConnected = TRUE,
                               !.isRedundancySatisfied = TRUE,
                               !.isPrimaryAtBack = TRUE]
                ELSE Secondary(m)
  /\ UNCHANGED <<lists, endpointVars, others>>

RecoverFails ==
  /\ mrl.pc = "recover"
  /\ \E fatal \in BOOLEAN : RequestError(ep, fatal) /\ mrl' = Failed(fatal)
  /\ unregisterDM(ep)
  /\ UNCHANGED <<lists, channel, others>>

(* An error code of executeAllCqs, unlike an exception, leaves the         *)
(* endpoint registered.                                                    *)
RecoverCqsFails ==
  /\ mrl.pc = "recover"
  /\ \E fatal \in BOOLEAN : RequestError(ep, fatal) /\ mrl' = Failed(fatal)
  /\ UNCHANGED <<lists, channel, listeners, receiver, others>>

Promotes == mrl.pc = "promote" /\ ~mrl.isPrimaryConnected
                               /\ mrl.tempRedundant # <<>>

OfferEnds ==
  /\ Ends("offer")
  /\ mrl' = [mrl EXCEPT !.pc = "promote", !.todo = <<>>]
  /\ UNCHANGED <<lists, endpointVars, others>>

(* No primary: the last new secondary that agrees becomes it.              *)
Promote ==
  /\ Promotes
  /\ \E ok \in BOOLEAN :
       /\ sendMakePrimaryMesg(Last(mrl.tempRedundant), ok)
       /\ mrl' = IF ok THEN [mrl EXCEPT !.isPrimaryConnected = TRUE,
                                        !.isPrimaryAtBack = TRUE]
                 ELSE [mrl EXCEPT !.tempRedundant = Front(@)]
  /\ UNCHANGED <<lists, listeners, receiver, others>>

(* Takes the endpoints of src out of dest as they come by, in order.       *)
removeEndpointsInOrder(dest, src) ==
  LET after[n \in 0..Len(dest)] ==
        IF n = 0 THEN [temp |-> <<>>, itSrc |-> 1]
        ELSE LET acc == after[n - 1]
             IN  IF acc.itSrc <= Len(src) /\ src[acc.itSrc] = dest[n]
                 THEN [acc EXCEPT !.itSrc = @ + 1]
                 ELSE [acc EXCEPT !.temp = Append(@, dest[n])]
  IN  after[Len(dest)].temp

(* Mutant: the new primary stays where it was added.                       *)
StaysAtBack(s) == s

BackToFront(s) == <<Last(s)>> \o Front(s)

(* Mutant: a new primary does not clear the flag.                          *)
AllDisconnectedForEver ==
  m_allEndpointsDisconnected \/ ~mrl.isPrimaryConnected

(* m_allEndpointsDisconnected becomes TRUE together with the message to    *)
(* the regions that all endpoints are gone; a fatal error returns early.   *)
AllDisconnected ==
  /\ ~mrl.isRedundancySatisfied
  /\ mrl.isPrimaryConnected =>
       m_allEndpointsDisconnected /\ mrl.fatal /\ mrl.err

Rearrange ==
  /\ mrl.pc = "promote" /\ ~Promotes
  /\ LET redundant == removeEndpointsInOrder(m_redundantEndpoints,
                                             mrl.tempNonredundant)
                        \o mrl.tempRedundant
     IN  m_redundantEndpoints' =
           IF mrl.isPrimaryConnected /\ mrl.isPrimaryAtBack
           THEN BackToFront(redundant) ELSE redundant
  /\ m_nonredundantEndpoints' =
       removeEndpointsInOrder(m_nonredundantEndpoints, mrl.tempRedundant)
         \o mrl.tempNonredundant
  /\ m_allEndpointsDisconnected' = AllDisconnected
  /\ mrl' = [Idle EXCEPT !.pc = "leave", !.todo = mrl.tempNonredundant]
  /\ UNCHANGED <<endpointVars, others>>

Leave ==
  /\ mrl.pc = "leave"
  /\ IF mrl.todo = <<>>
     THEN mrl' = Idle /\ UNCHANGED <<listeners, receiver>>
     ELSE mrl' = Following /\ unregisterDM(ep)
  /\ UNCHANGED <<lists, channel, status, refused, others>>

-----------------------------------------------------------------------------
(* Notification threads.                                                   *)

Untouched == <<lists, up, mrl, faults, refused>>

(* Mutant: the endpoint is not marked.                                     *)
ReceiveFailsUnseen(e) ==
  /\ receiver[e].pc = "receive" /\ receiver[e].isRunning
  /\ channel[e] = "broken"
  /\ receiver' = [receiver EXCEPT ![e].pc = "lock"]
  /\ UNCHANGED <<Untouched, channel, status, listeners, overtaken>>

ReceiveFails(e) ==
  /\ receiver[e].pc = "receive" /\ receiver[e].isRunning
  /\ channel[e] = "broken"
  /\ receiver' = [receiver EXCEPT ![e].pc = "lock"]
  /\ Disconnect(e)
  /\ overtaken' = IF mrl.pc = "start" /\ ep = e THEN overtaken \cup {e}
                  ELSE overtaken
  /\ UNCHANGED <<Untouched, channel, listeners>>

(* m_notifyReceiverLock is held by registerDM and by                       *)
(* stopNotifyReceiverAndCleanup while they wait for the thread.            *)
LockFree(e) == ~(mrl.pc \in {"join", "start", "wait"} /\ ep = e)

CloseChannel(e) ==
  /\ receiver[e].pc = "lock" /\ LockFree(e)
  /\ receiver' = [receiver EXCEPT ![e] =
                    [pc |-> "ended", isRunning |-> @.isRunning
                                                   /\ listeners[e] = 0]]
  /\ listeners' = [listeners EXCEPT ![e] = 0]
  /\ UNCHANGED <<Untouched, channel, status, overtaken>>

Quit(e) ==
  /\ receiver[e].pc = "receive" /\ ~receiver[e].isRunning
  /\ receiver' = [receiver EXCEPT ![e].pc = "ended"]
  /\ UNCHANGED <<Untouched, channel, status, listeners, overtaken>>

-----------------------------------------------------------------------------
(* Servers, and the requests and pings of other threads.                   *)

Open == mrl.pc # "closed"

Fault == faults < MaxFaults /\ faults' = faults + 1

Broken(e) == [channel EXCEPT ![e] = IF @ = "none" THEN @ ELSE "broken"]

Crash(e) ==
  /\ Open /\ up[e] /\ Fault
  /\ up' = [up EXCEPT ![e] = FALSE]
  /\ channel' = Broken(e)
  /\ UNCHANGED <<lists, status, listeners, receiver, mrl, overtaken, refused>>

Restart(e) ==
  /\ Open /\ ~up[e]
  /\ up' = [up EXCEPT ![e] = TRUE]
  /\ UNCHANGED <<lists, channel, status, listeners, receiver, mrl, overtaken,
                 faults, refused>>

Break(e) ==
  /\ Open /\ channel[e] \in {"primary", "secondary"} /\ Fault
  /\ channel' = Broken(e)
  /\ UNCHANGED <<lists, up, status, listeners, receiver, mrl, overtaken,
                 refused>>

RequestFails(e) ==
  /\ Open /\ connected[e]
  /\ IF up[e] THEN Fault ELSE UNCHANGED faults
  /\ Disconnect(e)
  /\ UNCHANGED <<lists, up, channel, listeners, receiver, mrl, overtaken,
                 refused>>

(* pingServerLocal, which holds the lock: e is unregistered by             *)
(* removeCallbackConnection before the lock is released.                   *)
PingFails(e) ==
  /\ mrl.pc = "idle" /\ connected[e]
  /\ IF up[e] THEN Fault ELSE UNCHANGED faults
  /\ Disconnect(e)
  /\ mrl' = [Idle EXCEPT !.pc = "leave", !.todo = <<e>>]
  /\ UNCHANGED <<lists, up, channel, listeners, receiver, overtaken, refused>>

(* A request makes a new connection to e.                                  *)
Reconnect(e) ==
  /\ Open /\ ~connected[e] /\ up[e]
  /\ connected' = [connected EXCEPT ![e] = TRUE]
  /\ overtaken' =
       IF \/ e \in Range(m_redundantEndpoints) \cup Range(mrl.tempRedundant)
          \/ mrl.pc \in {"join", "start", "recover"} /\ e = ep
       THEN overtaken \cup {e} ELSE overtaken
  /\ UNCHANGED <<Untouched, channel, released, listeners, receiver>>

(* The timer of redundancyMonitorInterval.                                 *)
Monitor ==
  /\ Open /\ ~released
  /\ released' = TRUE
  /\ UNCHANGED <<Untouched, channel, connected, listeners, receiver,
                 overtaken>>

-----------------------------------------------------------------------------
(* ThinClientPoolHADM::destroy: the thread of redundancy() has ended, no   *)
(* pings or queries are left and no regions use the pool.                  *)

destroy ==
  /\ mrl.pc = "idle"
  /\ mrl' = [Idle EXCEPT !.pc = "stop", !.todo = m_redundantEndpoints]
  /\ UNCHANGED <<lists, endpointVars, others>>

(* stopNoBlock tells the server to close the channel, and the thread that  *)
(* it is to end.                                                           *)
StopChannel ==
  /\ Goes("stop")
  /\ channel' = Broken(ep)
  /\ mrl' = [mrl EXCEPT !.pc = "flag"]
  /\ UNCHANGED <<lists, status, listeners, receiver, refused, others>>

StopReceiver ==
  /\ mrl.pc = "flag"
  /\ receiver' = [receiver EXCEPT ![ep].isRunning = FALSE]
  /\ mrl' = [Following EXCEPT !.pc = "stop"]
  /\ UNCHANGED <<lists, channel, status, listeners, refused, others>>

StopEnds ==
  /\ Ends("stop")
  /\ mrl' = [mrl EXCEPT !.pc = "clean", !.todo = m_redundantEndpoints]
  /\ UNCHANGED <<lists, endpointVars, others>>

(* stopNotifyReceiverAndCleanup                                            *)
LockToClean ==
  /\ Goes("clean")
  /\ mrl' = [mrl EXCEPT !.pc = "wait"]
  /\ UNCHANGED <<lists, endpointVars, others>>

Cleaned ==
  /\ mrl.pc = "wait"
  /\ receiver[ep].pc \in {"none", "ended"}
  /\ listeners' = [listeners EXCEPT ![ep] = 0]
  /\ mrl' = [Following EXCEPT !.pc = "clean"]
  /\ UNCHANGED <<lists, channel, status, receiver, refused, others>>

close ==
  /\ Ends("clean")
  /\ m_redundantEndpoints' = <<>> /\ m_nonredundantEndpoints' = <<>>
  /\ UNCHANGED m_allEndpointsDisconnected
  /\ mrl' = [Idle EXCEPT !.pc = "closed"]
  /\ UNCHANGED <<endpointVars, others>>

-----------------------------------------------------------------------------

(* initialize shuffles the endpoints; the thread that makes the pool goes  *)
(* through them first.                                                     *)
Init ==
  /\ m_redundantEndpoints = <<>>
  /\ m_nonredundantEndpoints \in SetToSeqs(Endpoints)
  /\ m_allEndpointsDisconnected = FALSE
  /\ up \in [Endpoints -> BOOLEAN]
  /\ channel = [e \in Endpoints |-> "none"]
  /\ connected = [e \in Endpoints |-> FALSE]
  /\ listeners = [e \in Endpoints |-> 0]
  /\ receiver = [e \in Endpoints |-> [pc |-> "none", isRunning |-> FALSE]]
  /\ released = FALSE
  /\ mrl = Begun(TRUE) /\ overtaken = {}
  /\ faults = (IF \A e \in Endpoints : up[e] THEN 0 ELSE 1)
  /\ faults <= MaxFaults
  /\ refused = 0

Scan == ScanFirst \/ ScanPromote \/ ScanSecondary \/ Select

Offer == Skip \/ RegisterFails \/ Register \/ Join \/ Started
         \/ Recover \/ RecoverFails \/ RecoverCqsFails \/ OfferEnds

maintainRedundancyLevel ==
  Scan \/ Offer \/ Promote \/ Rearrange \/ Leave

DestroyStep == StopChannel \/ StopReceiver \/ StopEnds \/ LockToClean
               \/ Cleaned \/ close

ReceiverStep(e) == ReceiveFails(e) \/ CloseChannel(e) \/ Quit(e)

ServerStep(e) == Crash(e) \/ Restart(e) \/ Break(e)
                 \/ RequestFails(e) \/ Reconnect(e)

Next ==
  \/ redundancy \/ maintainAfterError \/ maintainRedundancyLevel
  \/ destroy \/ DestroyStep \/ Monitor
  \/ \E e \in Endpoints : PingFails(e) \/ ReceiverStep(e) \/ ServerStep(e)

Spec == Init /\ [][Next]_vars

(* The threads run, and the timer does.                                    *)
Fairness ==
  /\ WF_vars(redundancy) /\ WF_vars(maintainRedundancyLevel)
  /\ WF_vars(DestroyStep) /\ WF_vars(Monitor)
  /\ \A e \in Endpoints : WF_vars(ReceiverStep(e))

FairSpec == Spec /\ Fairness

-----------------------------------------------------------------------------

Free == mrl.pc = "idle"

TypeOK ==
  /\ m_redundantEndpoints \in Seq(Endpoints)
  /\ m_nonredundantEndpoints \in Seq(Endpoints)
  /\ m_allEndpointsDisconnected \in BOOLEAN
  /\ up \in [Endpoints -> BOOLEAN]
  /\ channel \in [Endpoints -> Channels]
  /\ connected \in [Endpoints -> BOOLEAN]
  /\ listeners \in [Endpoints -> Nat]
  /\ receiver \in [Endpoints -> Receivers]
  /\ released \in BOOLEAN
  /\ mrl \in Holders /\ overtaken \subseteq Endpoints
  /\ faults \in 0..MaxFaults /\ refused \in 0..MaxRefused

(* The invariants maintainRedundancyLevel states: between its runs every   *)
(* endpoint is in exactly one of the lists, once, and no more than a       *)
(* primary and the secondaries asked for are redundant.  With the types,   *)
(* by which no endpoint counts less than no listeners.                     *)
ListsPartition ==
  /\ TypeOK
  /\ Free => LET all == m_redundantEndpoints \o m_nonredundantEndpoints
             IN  /\ IsInjective(all) /\ Range(all) = Endpoints
                 /\ m_redundancyLevel >= 0
                      => Len(m_redundantEndpoints) <= m_redundancyLevel + 1

(* Among the redundant endpoints that are connected the first, and only    *)
(* the first, is the primary to its server.  An endpoint registered twice  *)
(* is left out: maintainRedundancyLevel drops one that did not become the  *)
(* primary, or whose queries failed, without unregisterDM, and when it     *)
(* comes back registerDM makes no channel and tells the server no role.    *)
(* So is one whose loss was overtaken: nobody looks at its channel.        *)
PrimaryLeads ==
  Free => \A i \in DOMAIN m_redundantEndpoints :
            LET e == m_redundantEndpoints[i]
            IN  connected[e] /\ channel[e] # "broken" /\ listeners[e] = 1
                  => e \in overtaken \/ (channel[e] = "primary" <=> i = 1)

(* An endpoint that counts as a redundant one and as connected has a       *)
(* notification thread that reads its channel: events are not awaited from *)
(* a server nobody listens to.  The code keeps this only in one way, so    *)
(* the only endpoints left out are those whose loss was overtaken: a       *)
(* request made a connection before the redundant endpoints were looked    *)
(* at, or registerDM marked the endpoint although its thread had failed.   *)
(* registerDM with a new thread makes up for it.                           *)
NoSilentEndpoint ==
  Free => \A e \in Range(m_redundantEndpoints) \ overtaken :
            connected[e] => /\ receiver[e] = [pc |-> "receive",
                                              isRunning |-> TRUE]
                            /\ listeners[e] > 0

(* A redundant endpoint that was lost is looked after: the thread of       *)
(* redundancy() has been released since.                                   *)
LossIsSeen ==
  Free => \A e \in Range(m_redundantEndpoints) : connected[e] \/ released

(* The regions have been told that all endpoints are gone iff none is      *)
(* redundant, as long as no server refused what it was asked.              *)
RegionsKnow ==
  Free /\ refused = 0 =>
    (m_allEndpointsDisconnected <=> m_redundantEndpoints = <<>>)

(* The holder of m_notifyReceiverLock waits for the notification thread,   *)
(* which waits for the lock.                                               *)
Deadlocked ==
  mrl.pc \in {"join", "wait"} /\ receiver[ep].pc = "lock"

(* Events come from a primary that is read, again and again, once the      *)
(* servers stay up, unless the pool is destroyed, an endpoint is           *)
(* registered twice or overtaken, or registerDM waits for a thread that    *)
(* waits for it.                                                           *)
Leading ==
  /\ m_redundantEndpoints # <<>>
  /\ LET e == Head(m_redundantEndpoints)
     IN  channel[e] = "primary" /\ receiver[e].pc = "receive"
                               /\ receiver[e].isRunning

EventsComeBack ==
  <>[](\A e \in Endpoints : up[e] /\ listeners[e] <= 1 /\ e \notin overtaken)
    => []<>(Leading \/ mrl.pc \in {"stop", "closed"} \/ Deadlocked)

(* m_redundantEndpointsLock is always released again: neither the runs of  *)
(* maintainRedundancyLevel nor destroy wait for ever for a thread, but for *)
(* one that waits for m_notifyReceiverLock.                                *)
LockIsReleased == []<>(mrl.pc \in {"idle", "closed"} \/ Deadlocked)
=============================================================================
