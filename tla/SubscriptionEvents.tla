------------------------- MODULE SubscriptionEvents -------------------------
(***************************************************************************)
(* Events that servers push to a client: the notification threads that     *)
(* receive them, the map that recognises duplicates, and the thread that   *)
(* acknowledges events and forgets old sources (TcrEndpoint,               *)
(* TcrPoolEndPoint, EventIdMap, ThinClientRedundancyManager::doPeriodicAck,*)
(* ThinClientRegion::clientNotificationHandler).                           *)
(*                                                                         *)
(* An event is known by its source, a thread of a member, and by a         *)
(* sequence number that grows with each event of the source.  Servers keep *)
(* an event for the client until an acknowledgement of it, or of a later   *)
(* event of its source, reaches them.  They are not part of the            *)
(* repository: they are modelled by what the client relies on.             *)
(*                                                                         *)
(* A channel is one subscription connection with its notification thread.  *)
(* Whenever the client makes an endpoint its primary, events come through  *)
(* a new channel, from the first one that is not acknowledged; the channel *)
(* used before may still hold events, and its thread may be anywhere in    *)
(* the handling of one.                                                    *)
(***************************************************************************)
EXTENDS Integers, FiniteSets

CONSTANTS Sources,      \* EventSource: member and thread of the events
          MaxEvents,    \* bound: events of a source
          MaxChannels,  \* bound: subscription connections
          MaxFails,     \* bound: acknowledgements lost on a live connection
          HAChoices,    \* values m_HAenabled may have
          ShortOutages  \* see Disconnect and TimePasses

ASSUME EventsAssumption ==
  /\ Sources # {}
  /\ MaxEvents \in Nat
  /\ MaxChannels \in Nat \ {0}
  /\ MaxFails \in Nat
  /\ HAChoices \subseteq BOOLEAN
  /\ ShortOutages \in BOOLEAN

VARIABLES made,         \* servers: events made so far, per source
          confirmed,    \* servers: the last event acknowledged, per source
          primary,      \* the channel events come through
          alive,        \* it is connected
          sent, got,    \* last event of a source sent to, read from a channel
          open,         \* isRunning of the notification thread of a channel
          hand,         \* the event the notification thread works on
          m_eventidmap, \* EventIdMap::m_map
          late,         \* sources whose deadline has passed
          ack,          \* the thread of periodicAck
          fails,        \* acknowledgements lost so far
          handled,      \* how often a region was given an event
          m_HAenabled

servers == <<made, confirmed>>
channels == <<primary, alive, sent, got, open>>
vars == <<servers, channels, hand, m_eventidmap, late, ack, fails, handled,
          m_HAenabled>>

-----------------------------------------------------------------------------

Seqs == 0..MaxEvents

Channels == 1..MaxChannels

(* What a notification thread has: nothing, a message it has received, or  *)
(* one that passed the duplicate check and is given to its region.         *)
Hands == [stage : {"none", "received", "taken"}, src : Sources, seq : Seqs]

NoHand == [stage |-> "none", src |-> CHOOSE s \in Sources : TRUE, seq |-> 0]

(* EventSequence, and whether the source has one.                          *)
Tracks == [tracked : BOOLEAN, seq : Seqs, acked : BOOLEAN]

Untracked == [tracked |-> FALSE, seq |-> 0, acked |-> FALSE]

(* The acknowledgement of doPeriodicAck: the sequence number it has for a  *)
(* source, 0 for none.                                                     *)
AckStates == [pc : {"idle", "sending", "applied", "expire"},
              entries : [Sources -> Seqs]]

NoEntries == [s \in Sources |-> 0]

-----------------------------------------------------------------------------
(* EventIdMap.  Its methods hold m_lock, each is one step.                 *)

(* Mutant: a sequence number just below the next one is refused.           *)
isDuplicateOffByOne(s, n) == m_eventidmap[s].tracked /\ n <= m_eventidmap[s].seq + 1

isDuplicate(s, n) == m_eventidmap[s].tracked /\ n <= m_eventidmap[s].seq

(* A new EventSequence replaces the one of the source: it is not           *)
(* acknowledged and has a new deadline.                                    *)
PutSequence(s, n) ==
  /\ m_eventidmap' = [m_eventidmap EXCEPT ![s] =
       [tracked |-> TRUE, seq |-> n, acked |-> FALSE]]
  /\ late' = late \ {s}

(* Mutant: put without onlynew, so that an old event sets the sequence     *)
(* back.                                                                   *)
checkDupAndAddAny(s, n) == PutSequence(s, n)

(* put with onlynew; a duplicate leaves the stored sequence and its        *)
(* deadline as they are.                                                   *)
checkDupAndAdd(s, n) ==
  IF isDuplicate(s, n) THEN UNCHANGED <<m_eventidmap, late>>
  ELSE PutSequence(s, n)

(* The entries getUnAcked returns; it sets their flags.                    *)
UnAcked == {s \in Sources : m_eventidmap[s].tracked /\ ~m_eventidmap[s].acked}

getUnAcked == [s \in Sources |->
                IF s \in UnAcked THEN m_eventidmap[s].seq ELSE 0]

SetAcked == m_eventidmap' = [s \in Sources |->
              IF s \in UnAcked THEN [m_eventidmap[s] EXCEPT !.acked = TRUE]
              ELSE m_eventidmap[s]]

(* Mutant: the flags stay.                                                 *)
keepAckedFlags(entries) == UNCHANGED m_eventidmap

(* By source, whatever sequence it has by now.                             *)
clearAckedFlags(entries) ==
  m_eventidmap' = [s \in Sources |->
    IF entries[s] # 0 /\ m_eventidmap[s].tracked
    THEN [m_eventidmap[s] EXCEPT !.acked = FALSE] ELSE m_eventidmap[s]]

(* Mutant: the condition on the flag is turned round.                      *)
ExpiredUnAcked(onlyacked) == {s \in late : onlyacked => ~m_eventidmap[s].acked}

Expired(onlyacked) == {s \in late : onlyacked => m_eventidmap[s].acked}

expire(onlyacked) ==
  /\ m_eventidmap' = [s \in Sources |-> IF s \in Expired(onlyacked)
                                        THEN Untracked ELSE m_eventidmap[s]]
  /\ late' = late \ Expired(onlyacked)

-----------------------------------------------------------------------------
(* Servers.                                                                *)

Produce(s) ==
  /\ made[s] < MaxEvents
  /\ made' = [made EXCEPT ![s] = @ + 1]
  /\ UNCHANGED <<confirmed, channels, hand, m_eventidmap, late, ack, fails,
                 handled, m_HAenabled>>

Send(s) ==
  /\ alive
  /\ sent[primary][s] < made[s]
  /\ sent' = [sent EXCEPT ![primary][s] = @ + 1]
  /\ UNCHANGED <<servers, primary, alive, got, open, hand, m_eventidmap, late,
                 ack, fails, handled, m_HAenabled>>

(* An event that is read late would still be recognised, and a source that *)
(* outlives its deadline has been acknowledged: see README, Events.        *)
Confirmed(s) == m_eventidmap[s].tracked => m_eventidmap[s].seq <= confirmed[s]

(* setConnectionStatus(false): the primary is lost.                        *)
Disconnect ==
  /\ alive
  /\ primary < MaxChannels
  /\ (ShortOutages /\ m_HAenabled) => \A s \in late : Confirmed(s)
  /\ alive' = FALSE
  /\ UNCHANGED <<servers, primary, sent, got, open, hand, m_eventidmap, late,
                 ack, fails, handled, m_HAenabled>>

(* maintainRedundancyLevel has a new primary.  Its queue has what is not   *)
(* acknowledged; without redundancy the queue was lost with its server.    *)
FirstOf(s) == IF m_HAenabled THEN confirmed[s] ELSE made[s]

NewPrimary ==
  /\ ~alive
  /\ primary < MaxChannels
  /\ alive' = TRUE
  /\ primary' = primary + 1
  /\ open' = [open EXCEPT ![primary + 1] = TRUE]
  /\ sent' = [sent EXCEPT ![primary + 1] = [s \in Sources |-> FirstOf(s)]]
  /\ got' = [got EXCEPT ![primary + 1] = [s \in Sources |-> FirstOf(s)]]
  /\ UNCHANGED <<servers, hand, m_eventidmap, late, ack, fails, handled,
                 m_HAenabled>>

-----------------------------------------------------------------------------
(* The notification thread of a channel (TcrEndpoint::receiveNotification).*)

Idle(c) == hand[c].stage = "none"

(* unregisterDM, or the thread itself after an error: what was sent and    *)
(* not read is lost.                                                       *)
Close(c) ==
  /\ open[c]
  /\ c = primary => ~alive
  /\ open' = [open EXCEPT ![c] = FALSE]
  /\ UNCHANGED <<servers, primary, alive, sent, got, hand, m_eventidmap, late,
                 ack, fails, handled, m_HAenabled>>

Receive(c, s) ==
  /\ open[c] /\ Idle(c)
  /\ got[c][s] < sent[c][s]
  /\ got' = [got EXCEPT ![c][s] = @ + 1]
  /\ hand' = [hand EXCEPT ![c] =
       [stage |-> "received", src |-> s, seq |-> got[c][s] + 1]]
  /\ UNCHANGED <<servers, primary, alive, sent, open, m_eventidmap, late, ack,
                 fails, handled, m_HAenabled>>

(* isRunning is false after the message was read: the thread ends.         *)
Discard(c) ==
  /\ hand[c].stage = "received"
  /\ ~open[c]
  /\ hand' = [hand EXCEPT ![c] = NoHand]
  /\ UNCHANGED <<servers, channels, m_eventidmap, late, ack, fails, handled,
                 m_HAenabled>>

(* checkDupAndAdd, and the event is dropped or goes to its region.         *)
(* isRunning may have become false since the thread looked at it.          *)
Take(c) ==
  /\ hand[c].stage = "received"
  /\ checkDupAndAdd(hand[c].src, hand[c].seq)
  /\ hand' = [hand EXCEPT ![c] = IF isDuplicate(hand[c].src, hand[c].seq)
                                 THEN NoHand ELSE [@ EXCEPT !.stage = "taken"]]
  /\ UNCHANGED <<servers, channels, ack, fails, handled, m_HAenabled>>

(* The region has applied the event; for a durable client or a delta       *)
(* clientNotificationHandler adds it to the map once more.                 *)
Handle(c, mark) ==
  /\ hand[c].stage = "taken"
  /\ handled' = [handled EXCEPT ![hand[c].src][hand[c].seq] = @ + 1]
  /\ hand' = [hand EXCEPT ![c] = NoHand]
  /\ IF mark THEN checkDupAndAdd(hand[c].src, hand[c].seq)
     ELSE UNCHANGED <<m_eventidmap, late>>
  /\ UNCHANGED <<servers, channels, ack, fails, m_HAenabled>>

-----------------------------------------------------------------------------
(* The thread of periodicAck.                                              *)

(* The timer has released the semaphore.  due: m_nextAck has passed.       *)
AckBegin(due) ==
  /\ ack.pc = "idle"
  /\ IF m_HAenabled /\ due /\ UnAcked # {}
     THEN /\ ack' = [pc |-> "sending", entries |-> getUnAcked]
          /\ SetAcked
     ELSE /\ ack' = [ack EXCEPT !.pc = "expire"]
          /\ UNCHANGED m_eventidmap
  /\ UNCHANGED <<servers, channels, hand, late, fails, handled, m_HAenabled>>

(* The server removes what is acknowledged from every queue.               *)
AckApplied ==
  /\ ack.pc = "sending"
  /\ alive
  /\ confirmed' = [s \in Sources |-> IF ack.entries[s] > confirmed[s]
                                     THEN ack.entries[s] ELSE confirmed[s]]
  /\ ack' = [ack EXCEPT !.pc = "applied"]
  /\ UNCHANGED <<made, channels, hand, m_eventidmap, late, fails, handled,
                 m_HAenabled>>

AckReplied ==
  /\ ack.pc = "applied"
  /\ ack' = [pc |-> "expire", entries |-> NoEntries]
  /\ UNCHANGED <<servers, channels, hand, m_eventidmap, late, fails, handled,
                 m_HAenabled>>

(* The message or its reply is lost, or there is no server to send it to.  *)
AckFailed ==
  /\ ack.pc \in {"sending", "applied"}
  /\ IF alive THEN fails < MaxFails /\ fails' = fails + 1
     ELSE UNCHANGED fails
  /\ clearAckedFlags(ack.entries)
  /\ ack' = [pc |-> "expire", entries |-> NoEntries]
  /\ UNCHANGED <<servers, channels, hand, late, handled, m_HAenabled>>

Expire ==
  /\ ack.pc = "expire"
  /\ expire(m_HAenabled)
  /\ ack' = [ack EXCEPT !.pc = "idle"]
  /\ UNCHANGED <<servers, channels, hand, fails, handled, m_HAenabled>>

(* Nothing of the source up to n is still on its way.                      *)
Settled(s, n) ==
  \A c \in Channels :
    /\ (hand[c].stage = "received" /\ hand[c].src = s) => hand[c].seq > n
    /\ open[c] => \/ got[c][s] >= n
                  \/ c # primary /\ got[c][s] = sent[c][s]

(* The deadline of a source passes.  The life of a source is some minutes, *)
(* longer than a message is on its way.                                    *)
TimePasses(s) ==
  /\ m_eventidmap[s].tracked
  /\ s \notin late
  /\ Settled(s, m_eventidmap[s].seq)
  /\ (ShortOutages /\ m_HAenabled) => (alive \/ Confirmed(s))
  /\ late' = late \cup {s}
  /\ UNCHANGED <<servers, channels, hand, m_eventidmap, ack, fails, handled,
                 m_HAenabled>>

-----------------------------------------------------------------------------

Init ==
  /\ made = [s \in Sources |-> 0]
  /\ confirmed = [s \in Sources |-> 0]
  /\ primary = 1
  /\ alive = TRUE
  /\ sent = [c \in Channels |-> [s \in Sources |-> 0]]
  /\ got = [c \in Channels |-> [s \in Sources |-> 0]]
  /\ open = [c \in Channels |-> c = 1]
  /\ hand = [c \in Channels |-> NoHand]
  /\ m_eventidmap = [s \in Sources |-> Untracked]
  /\ late = {}
  /\ ack = [pc |-> "idle", entries |-> NoEntries]
  /\ fails = 0
  /\ handled = [s \in Sources |-> [n \in Seqs |-> 0]]
  /\ m_HAenabled \in HAChoices

AckStep == \/ \E due \in BOOLEAN : AckBegin(due)
           \/ AckApplied
           \/ AckReplied
           \/ AckFailed
           \/ Expire

ChannelStep(c) ==
  \/ \E s \in Sources : Receive(c, s)
  \/ Discard(c)
  \/ Take(c)
  \/ \E mark \in BOOLEAN : Handle(c, mark)

Next ==
  \/ \E s \in Sources : Produce(s) \/ Send(s) \/ TimePasses(s)
  \/ Disconnect
  \/ NewPrimary
  \/ \E c \in Channels : Close(c) \/ ChannelStep(c)
  \/ AckStep

Spec == Init /\ [][Next]_vars

(* The servers send, the client keeps looking for a primary, and its       *)
(* threads run.  The timer of the acknowledgements goes on with the        *)
(* interval m_nextAck grows by, so m_nextAck is passed again and again.    *)
Fairness ==
  /\ \A s \in Sources : WF_vars(Send(s)) /\ WF_vars(TimePasses(s))
  /\ WF_vars(NewPrimary)
  /\ \A c \in Channels : WF_vars(ChannelStep(c))
  /\ SF_vars(AckBegin(TRUE))
  /\ WF_vars(AckApplied) /\ WF_vars(AckReplied \/ AckFailed) /\ WF_vars(Expire)

FairSpec == Spec /\ Fairness

-----------------------------------------------------------------------------
(* Properties.                                                             *)

(* Every variable has its type.                                            *)
TypeOK ==
  /\ made \in [Sources -> Seqs]
  /\ confirmed \in [Sources -> Seqs]
  /\ primary \in Channels
  /\ alive \in BOOLEAN
  /\ sent \in [Channels -> [Sources -> Seqs]]
  /\ got \in [Channels -> [Sources -> Seqs]]
  /\ open \in [Channels -> BOOLEAN]
  /\ hand \in [Channels -> Hands]
  /\ m_eventidmap \in [Sources -> Tracks]
  /\ late \in SUBSET Sources
  /\ ack \in AckStates
  /\ fails \in 0..MaxFails
  /\ handled \in [Sources -> [Seqs -> Nat]]
  /\ m_HAenabled \in BOOLEAN

InHand(c, s, n) ==
  hand[c].stage = "taken" /\ hand[c].src = s /\ hand[c].seq = n

(* The event is given to its region, or was.                               *)
Taken(s, n) == handled[s][n] > 0 \/ \E c \in Channels : InHand(c, s, n)

(* No event is applied twice, though the new primary sends again what the  *)
(* old one sent, the threads of both work at the same time, and the map    *)
(* forgets sources (checkDupAndAdd, doPeriodicAck).                        *)
HandledOnce ==
  \A s \in Sources, n \in Seqs :
    /\ handled[s][n] <= 1
    /\ handled[s][n] = 1 => \A c \in Channels : ~InHand(c, s, n)

(* The servers are never told to forget an event the client did not take:  *)
(* an acknowledgement covers all earlier events of its source.             *)
ConfirmedWasTaken ==
  \A s \in Sources, n \in Seqs \ {0} : n <= confirmed[s] => Taken(s, n)

(* With acknowledgements enabled, a source is forgotten only after the     *)
(* servers have its last event acknowledged (expire with onlyacked).       *)
ForgottenWasConfirmed ==
  [][\A s \in Sources :
       (m_HAenabled /\ m_eventidmap[s].tracked /\ ~m_eventidmap'[s].tracked)
         => m_eventidmap[s].seq <= confirmed[s]]_vars

(* Every event reaches its region in the end, whatever connections fail,   *)
(* if the queues survive (m_HAenabled).                                    *)
AllHandled ==
  \A s \in Sources, n \in Seqs \ {0} :
    (m_HAenabled /\ made[s] >= n) ~> (handled[s][n] > 0)

(* The map does not grow for ever: a source that sends nothing more is     *)
(* forgotten in the end (doPeriodicAck).                                   *)
SourcesForgotten ==
  \A s \in Sources : m_eventidmap[s].tracked ~> ~m_eventidmap[s].tracked

Begun == {e \in Sources \X (1..MaxEvents) : Taken(e[1], e[2])}

Delivery == INSTANCE EventDelivery WITH
  begun <- Begun, delivered <- handled, released <- confirmed,
  lossless <- m_HAenabled

(* The threads, channels, map and acknowledgements together do what        *)
(* EventDelivery promises: each event goes to its region once and in       *)
(* order, and only what was begun is released.                             *)
DeliversOnce == Delivery!Spec
=============================================================================
