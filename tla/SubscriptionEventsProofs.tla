---------------------- MODULE SubscriptionEventsProofs ----------------------
(***************************************************************************)
(* Theorems about SubscriptionEvents, for any number of sources, events    *)
(* and connections.                                                        *)
(***************************************************************************)
EXTENDS SubscriptionEvents, TLAPS

(* The flag of a sequence means what it says, except while the             *)
(* acknowledgement that covers the sequence is being sent.                 *)
AckInv ==
  /\ ack.pc \in {"idle", "expire"} => \A s \in Sources : ack.entries[s] = 0
  /\ ~m_HAenabled => /\ ack.pc \in {"idle", "expire"}
                     /\ \A s \in Sources : confirmed[s] = 0
  /\ \A s \in Sources :
       /\ m_eventidmap[s].tracked => m_eventidmap[s].seq > 0
       /\ ack.pc = "applied" => ack.entries[s] <= confirmed[s]
       /\ (m_eventidmap[s].tracked /\ m_eventidmap[s].acked) =>
            \/ m_eventidmap[s].seq <= confirmed[s]
            \/ ack.pc = "sending" /\ ack.entries[s] = m_eventidmap[s].seq

(* Numbers and channels.                                                   *)
WireInv ==
  /\ \A c \in Channels, s \in Sources :
       /\ got[c][s] <= sent[c][s]
       /\ sent[c][s] <= made[s]
  /\ \A c \in Channels :
       /\ hand[c].stage # "none" => hand[c].seq > 0
       /\ hand[c].stage # "none" => hand[c].seq <= made[hand[c].src]
       /\ c > primary => ~open[c] /\ hand[c].stage = "none"

(* Only events that were made are recorded and acknowledged.               *)
BoundInv ==
  \A s \in Sources : /\ m_eventidmap[s].seq <= made[s]
                     /\ confirmed[s] <= made[s]
                     /\ ack.entries[s] <= made[s]

(* Everything up to n of source s is over: it is not on its way and no     *)
(* queue has it.                                                           *)
Over(s, n) ==
  /\ Settled(s, n)
  /\ m_HAenabled => n <= confirmed[s]
  /\ n <= made[s]

(* All events of source s from the first to the n-th were taken.           *)
AllTaken(s, n) == \A m \in 1..n : Taken(s, m)

-----------------------------------------------------------------------------
(* Type correctness.                                                       *)

(* A track stays one when setAckedFlag marks it.                           *)
LEMMA AckedTrack ==
  ASSUME NEW m \in Tracks PROVE [m EXCEPT !.acked = TRUE] \in Tracks
BY Zenon DEF Tracks

LEMMA NoHandType == NoHand \in Hands /\ NoHand.stage = "none"
  BY EventsAssumption DEF NoHand, Hands, Seqs

LEMMA SeqsType == MaxEvents \in Seqs /\ 0 \in Seqs /\ Seqs \subseteq Nat
  BY EventsAssumption DEF Seqs

LEMMA ChannelsType == Channels \subseteq Nat /\ 1 \in Channels
  BY EventsAssumption DEF Channels

LEMMA ChannelNext ==
  ASSUME NEW c \in Channels, c < MaxChannels PROVE c + 1 \in Channels
  BY EventsAssumption DEF Channels

LEMMA SeqNext ==
  ASSUME NEW n \in Seqs, NEW m \in Seqs, n < m PROVE n + 1 \in Seqs
  BY EventsAssumption DEF Seqs

(* What checkDupAndAdd does to the map, and to the deadlines.              *)
LEMMA CheckDupType ==
  ASSUME m_eventidmap \in [Sources -> Tracks], late \in SUBSET Sources,
         NEW s \in Sources, NEW n \in Seqs, checkDupAndAdd(s, n)
  PROVE  m_eventidmap' \in [Sources -> Tracks] /\ late' \in SUBSET Sources
<1>1. CASE isDuplicate(s, n)
  BY <1>1, Zenon DEF checkDupAndAdd
<1>2. CASE ~isDuplicate(s, n)
  <2>1. [tracked |-> TRUE, seq |-> n, acked |-> FALSE] \in Tracks
    BY Zenon DEF Tracks
  <2> QED
    BY <1>2, <2>1, Zenon DEF checkDupAndAdd, PutSequence
<1> QED
  BY <1>1, <1>2, Zenon

(* The disjuncts of the next-state relation.                               *)
Steps ==
  \/ \E s \in Sources : Produce(s)
  \/ \E s \in Sources : Send(s)
  \/ \E s \in Sources : TimePasses(s)
  \/ Disconnect
  \/ NewPrimary
  \/ \E c \in Channels : Close(c)
  \/ \E c \in Channels, s \in Sources : Receive(c, s)
  \/ \E c \in Channels : Discard(c)
  \/ \E c \in Channels : Take(c)
  \/ \E c \in Channels, mark \in BOOLEAN : Handle(c, mark)
  \/ \E due \in BOOLEAN : AckBegin(due)
  \/ AckApplied
  \/ AckReplied
  \/ AckFailed
  \/ Expire

LEMMA NextIsSteps == Next => Steps
  BY Zenon DEF Next, Steps, ChannelStep, AckStep

LEMMA TypeStep == TypeOK /\ [Next]_vars => TypeOK'
<1> SUFFICES ASSUME TypeOK, [Next]_vars PROVE TypeOK'
  BY Zenon
<1> USE EventsAssumption DEF TypeOK, servers, channels, vars
<1>1. CASE \E s \in Sources : Produce(s)
  <2> PICK s \in Sources : Produce(s)
    BY <1>1, Zenon
  <2>1. made[s] + 1 \in Seqs
    <3>1. made[s] \in Seqs /\ made[s] < MaxEvents
      BY Zenon DEF Produce
    <3> QED
      BY <3>1, SeqsType, SeqNext, Zenon
  <2> QED
    BY <2>1, Zenon DEF Produce
<1>2. CASE \E s \in Sources : Send(s)
  <2> PICK s \in Sources : Send(s)
    BY <1>2, Zenon
  <2>1. sent[primary][s] + 1 \in Seqs
    <3>1. /\ sent[primary][s] \in Seqs /\ made[s] \in Seqs
          /\ sent[primary][s] < made[s]
      BY DEF Send
    <3> QED
      BY <3>1, SeqNext, Zenon
  <2>2. sent' \in [Channels -> [Sources -> Seqs]]
    BY <2>1, Zenon DEF Send
  <2> QED
    BY <2>2, Zenon DEF Send
<1>3. CASE \E s \in Sources : TimePasses(s)
  BY <1>3, Zenon DEF TimePasses
<1>4. CASE Disconnect
  BY <1>4, Zenon DEF Disconnect
<1>5. CASE NewPrimary
  <2>1. primary + 1 \in Channels
    BY <1>5 DEF NewPrimary, Channels
  <2>2. [s \in Sources |-> FirstOf(s)] \in [Sources -> Seqs]
    BY Zenon DEF FirstOf
  <2> QED
    BY <1>5, <2>1, <2>2, Zenon DEF NewPrimary
<1>6. CASE \E c \in Channels : Close(c)
  BY <1>6, Zenon DEF Close
<1>7. CASE \E c \in Channels, s \in Sources : Receive(c, s)
  <2> PICK c \in Channels, s \in Sources : Receive(c, s)
    BY <1>7, Zenon
  <2>1. got[c][s] + 1 \in Seqs
    <3>1. got[c][s] \in Seqs /\ sent[c][s] \in Seqs /\ got[c][s] < sent[c][s]
      BY DEF Receive
    <3> QED
      BY <3>1, SeqNext, Zenon
  <2>2. got' \in [Channels -> [Sources -> Seqs]]
    BY <2>1, Zenon DEF Receive
  <2>3. hand' \in [Channels -> Hands]
    BY <2>1, Zenon DEF Receive, Hands
  <2> QED
    BY <2>2, <2>3, Zenon DEF Receive
<1>8. CASE \E c \in Channels : Discard(c)
  BY <1>8, NoHandType DEF Discard
<1>9. CASE \E c \in Channels : Take(c)
  <2> PICK c \in Channels : Take(c)
    BY <1>9, Zenon
  <2>1. hand[c].src \in Sources /\ hand[c].seq \in Seqs
    BY Zenon DEF Hands
  <2>2. m_eventidmap' \in [Sources -> Tracks] /\ late' \in SUBSET Sources
    BY <2>1, CheckDupType, Zenon DEF Take
  <2>3. [hand[c] EXCEPT !.stage = "taken"] \in Hands
    BY Zenon DEF Hands
  <2>4. hand' \in [Channels -> Hands]
    BY <2>3, NoHandType, Zenon DEF Take
  <2> QED
    BY <2>2, <2>4, Zenon DEF Take
<1>10. CASE \E c \in Channels, mark \in BOOLEAN : Handle(c, mark)
  <2> PICK c \in Channels, mark \in BOOLEAN : Handle(c, mark)
    BY <1>10, Zenon
  <2>1. hand[c].src \in Sources /\ hand[c].seq \in Seqs
    BY Zenon DEF Hands
  <2>2. m_eventidmap' \in [Sources -> Tracks] /\ late' \in SUBSET Sources
    BY <2>1, CheckDupType, Zenon DEF Handle
  <2>3. handled' \in [Sources -> [Seqs -> Nat]]
    BY <2>1 DEF Handle
  <2>4. hand' \in [Channels -> Hands]
    BY NoHandType, Zenon DEF Handle
  <2> QED
    BY <2>2, <2>3, <2>4, Zenon DEF Handle
<1>11. CASE \E due \in BOOLEAN : AckBegin(due)
  <2>1. getUnAcked \in [Sources -> Seqs]
    BY DEF getUnAcked, Tracks, Seqs
  <2>2. \A s \in Sources : [m_eventidmap[s] EXCEPT !.acked = TRUE] \in Tracks
    BY AckedTrack, Zenon
  <2>3. SetAcked => m_eventidmap' \in [Sources -> Tracks]
    BY <2>2 DEF SetAcked
  <2>4. PICK due \in BOOLEAN : AckBegin(due)
    BY <1>11, Zenon
  <2>5. ack' \in AckStates
    <3>1. [pc |-> "sending", entries |-> getUnAcked] \in AckStates
      BY <2>1, Zenon DEF AckStates
    <3>2. [ack EXCEPT !.pc = "expire"] \in AckStates
      BY Zenon DEF AckStates
    <3> QED
      BY <2>4, <3>1, <3>2, Zenon DEF AckBegin
  <2>6. m_eventidmap' \in [Sources -> Tracks]
    BY <2>4, <2>3, Zenon DEF AckBegin
  <2> QED
    BY <2>4, <2>5, <2>6, Zenon DEF AckBegin
<1>12. CASE AckApplied
  <2>1. ack.entries \in [Sources -> Seqs]
    BY Zenon DEF AckStates
  <2>2. confirmed' \in [Sources -> Seqs]
    BY <1>12, <2>1, Zenon DEF AckApplied
  <2>3. ack' \in AckStates
    BY <1>12, Zenon DEF AckApplied, AckStates
  <2> QED
    BY <1>12, <2>2, <2>3, Zenon DEF AckApplied
<1>13. CASE AckReplied
  <2>1. NoEntries \in [Sources -> Seqs]
    BY SeqsType, Zenon DEF NoEntries
  <2>2. ack' \in AckStates
    BY <1>13, <2>1, Zenon DEF AckReplied, AckStates
  <2> QED
    BY <1>13, <2>2, Zenon DEF AckReplied
<1>14. CASE AckFailed
  <2>1. m_eventidmap' \in [Sources -> Tracks]
    BY <1>14, Zenon DEF AckFailed, clearAckedFlags, Tracks
  <2>2. ack' \in AckStates
    BY <1>14 DEF AckFailed, AckStates, NoEntries, Seqs
  <2>3. fails' \in 0..MaxFails
    BY <1>14 DEF AckFailed
  <2> QED
    BY <1>14, <2>1, <2>2, <2>3, Zenon DEF AckFailed
<1>15. CASE Expire
  <2>1. Untracked \in Tracks
    BY DEF Untracked, Tracks, Seqs
  <2>2. m_eventidmap' \in [Sources -> Tracks]
    BY <1>15, <2>1, Zenon DEF Expire, expire
  <2>3. ack' \in AckStates
    BY <1>15, Zenon DEF Expire, AckStates
  <2>4. late' \in SUBSET Sources
    BY <1>15, Zenon DEF Expire, expire
  <2> QED
    BY <1>15, <2>2, <2>3, <2>4, Zenon DEF Expire
<1>16. CASE UNCHANGED vars
  BY <1>16, Zenon
<1> QED
  BY <1>1, <1>2, <1>3, <1>4, <1>5, <1>6, <1>7, <1>8, <1>9, <1>10, <1>11,
     <1>12, <1>13, <1>14, <1>15, <1>16, NextIsSteps, Zenon DEF Steps

LEMMA TypeInit == Init => TypeOK
  BY EventsAssumption, NoHandType
     DEF Init, TypeOK, Seqs, Channels, Untracked, Tracks, AckStates, NoEntries

(* Every variable always has its type.                                     *)
THEOREM TypeCorrect == Spec => []TypeOK
<1>1. Init => TypeOK
  BY TypeInit, Zenon
<1>2. TypeOK /\ [Next]_vars => TypeOK'
  BY TypeStep, Zenon
<1> QED
  BY <1>1, <1>2, PTL DEF Spec

-----------------------------------------------------------------------------
(* The flags and the acknowledgement.                                      *)

(* checkDupAndAdd changes the sequence of one source, to one that is not   *)
(* acknowledged and has a new deadline.                                    *)
LEMMA CheckDupEffect ==
  ASSUME TypeOK, NEW s \in Sources, NEW n \in Seqs, checkDupAndAdd(s, n)
  PROVE  /\ \A r \in Sources :
              \/ m_eventidmap'[r] = m_eventidmap[r]
              \/ /\ r = s
                 /\ ~isDuplicate(s, n)
                 /\ m_eventidmap'[r] =
                      [tracked |-> TRUE, seq |-> n, acked |-> FALSE]
         /\ \A r \in late' : r \in late /\ m_eventidmap'[r] = m_eventidmap[r]
         /\ m_eventidmap'[s].tracked /\ n <= m_eventidmap'[s].seq
<1>1. CASE isDuplicate(s, n)
  <2>1. m_eventidmap' = m_eventidmap /\ late' = late
    BY <1>1, Zenon DEF checkDupAndAdd
  <2>2. m_eventidmap[s].tracked /\ n <= m_eventidmap[s].seq
    BY <1>1, Zenon DEF isDuplicate
  <2> QED
    BY <2>1, <2>2, Zenon
<1>2. CASE ~isDuplicate(s, n)
  <2>1. /\ m_eventidmap' = [m_eventidmap EXCEPT ![s] =
             [tracked |-> TRUE, seq |-> n, acked |-> FALSE]]
        /\ late' = late \ {s}
    BY <1>2, Zenon DEF checkDupAndAdd, PutSequence
  <2>2. m_eventidmap \in [Sources -> Tracks]
    BY Zenon DEF TypeOK
  <2>3. \A r \in Sources :
          IF r = s THEN m_eventidmap'[r] =
                          [tracked |-> TRUE, seq |-> n, acked |-> FALSE]
          ELSE m_eventidmap'[r] = m_eventidmap[r]
    BY <2>1, <2>2, Zenon
  <2>4. late \subseteq Sources
    BY Zenon DEF TypeOK
  <2>5. n <= n
    BY SeqsType
  <2> QED
    BY <1>2, <2>1, <2>3, <2>4, <2>5
<1> QED
  BY <1>1, <1>2, Zenon

LEMMA AckInvStep == TypeOK /\ AckInv /\ WireInv /\ [Next]_vars => AckInv'
<1> SUFFICES ASSUME TypeOK, AckInv, WireInv, [Next]_vars PROVE AckInv'
  BY Zenon
<1> USE DEF servers, channels, vars
<1>t. /\ m_eventidmap \in [Sources -> Tracks]
      /\ confirmed \in [Sources -> Seqs]
      /\ ack \in AckStates
      /\ ack.entries \in [Sources -> Seqs]
      /\ hand \in [Channels -> Hands]
      /\ \A c \in Channels : hand[c].src \in Sources /\ hand[c].seq \in Seqs
  BY Zenon DEF TypeOK, AckStates, Hands
<1>q. \A s \in Sources : m_eventidmap[s].seq \in Nat /\ confirmed[s] \in Nat
                         /\ ack.entries[s] \in Nat
  BY <1>t, SeqsType, Zenon DEF Tracks
<1>a. ASSUME UNCHANGED <<m_eventidmap, confirmed, ack, m_HAenabled>>
      PROVE  AckInv'
  BY <1>a, Zenon DEF AckInv
<1>b. ASSUME NEW s \in Sources, NEW n \in Seqs, n > 0, checkDupAndAdd(s, n),
             UNCHANGED <<confirmed, ack, m_HAenabled>>
      PROVE  AckInv'
  <2>1. \A r \in Sources :
          \/ m_eventidmap'[r] = m_eventidmap[r]
          \/ m_eventidmap'[r] = [tracked |-> TRUE, seq |-> n, acked |-> FALSE]
    BY <1>b, CheckDupEffect, Zenon
  <2> QED
    BY <1>b, <2>1 DEF AckInv
<1>1. CASE \E s \in Sources : Produce(s)
  BY <1>1, <1>a, Zenon DEF Produce
<1>2. CASE \E s \in Sources : Send(s)
  BY <1>2, <1>a, Zenon DEF Send
<1>3. CASE \E s \in Sources : TimePasses(s)
  BY <1>3, <1>a, Zenon DEF TimePasses
<1>4. CASE Disconnect
  BY <1>4, <1>a, Zenon DEF Disconnect
<1>5. CASE NewPrimary
  BY <1>5, <1>a, Zenon DEF NewPrimary
<1>6. CASE \E c \in Channels : Close(c)
  BY <1>6, <1>a, Zenon DEF Close
<1>7. CASE \E c \in Channels, s \in Sources : Receive(c, s)
  BY <1>7, <1>a, Zenon DEF Receive
<1>8. CASE \E c \in Channels : Discard(c)
  BY <1>8, <1>a, Zenon DEF Discard
<1>9. CASE \E c \in Channels : Take(c)
  <2> PICK c \in Channels : Take(c)
    BY <1>9, Zenon
  <2>1. hand[c].seq > 0
    BY Zenon DEF Take, WireInv
  <2> QED
    BY <2>1, <1>t, <1>b, Zenon DEF Take
<1>10. CASE \E c \in Channels, mark \in BOOLEAN : Handle(c, mark)
  <2> PICK c \in Channels, mark \in BOOLEAN : Handle(c, mark)
    BY <1>10, Zenon
  <2>1. hand[c].seq > 0
    BY Zenon DEF Handle, WireInv
  <2>2. CASE mark
    BY <2>1, <2>2, <1>t, <1>b, Zenon DEF Handle
  <2>3. CASE ~mark
    BY <2>3, <1>a, Zenon DEF Handle
  <2> QED
    BY <2>2, <2>3, Zenon
<1>11. CASE \E due \in BOOLEAN : AckBegin(due)
  <2> PICK due \in BOOLEAN : AckBegin(due)
    BY <1>11, Zenon
  <2>1. CASE m_HAenabled /\ due /\ UnAcked # {}
    <3>1. /\ ack'.pc = "sending" /\ ack'.entries = getUnAcked
          /\ SetAcked /\ confirmed' = confirmed /\ m_HAenabled' = m_HAenabled
      BY <2>1 DEF AckBegin
    <3>2. ASSUME NEW s \in Sources
          PROVE  /\ m_eventidmap'[s].tracked = m_eventidmap[s].tracked
                 /\ m_eventidmap'[s].seq = m_eventidmap[s].seq
                 /\ \/ m_eventidmap'[s] = m_eventidmap[s]
                    \/ ack'.entries[s] = m_eventidmap[s].seq
                 /\ s \in UnAcked => ack'.entries[s] = m_eventidmap[s].seq
                 /\ s \notin UnAcked => m_eventidmap'[s] = m_eventidmap[s]
      BY <3>1, <1>t, Zenon DEF SetAcked, getUnAcked, Tracks
    <3>3. ack.pc = "idle"
      BY Zenon DEF AckBegin
    <3>4. \A s \in Sources :
             m_eventidmap[s].tracked => (s \in UnAcked \/ m_eventidmap[s].acked)
      BY Zenon DEF UnAcked
    <3> QED
      BY <2>1, <3>1, <3>2, <3>3, <3>4, Zenon DEF AckInv
  <2>2. CASE ~(m_HAenabled /\ due /\ UnAcked # {})
    <3>1. ack'.pc = "expire" /\ ack'.entries = ack.entries /\ ack.pc = "idle"
      BY <2>2, <1>t, Zenon DEF AckBegin, AckStates
    <3>2. UNCHANGED <<m_eventidmap, confirmed, m_HAenabled>>
      BY <2>2, Zenon DEF AckBegin
    <3> QED
      BY <3>1, <3>2, Zenon DEF AckInv
  <2> QED
    BY <2>1, <2>2, Zenon
<1>12. CASE AckApplied
  <2>1. /\ ack.pc = "sending" /\ ack'.pc = "applied"
        /\ ack'.entries = ack.entries
        /\ UNCHANGED <<m_eventidmap, m_HAenabled>>
    BY <1>12, <1>t, Zenon DEF AckApplied, AckStates
  <2>2. \A s \in Sources : /\ confirmed'[s] \in Nat
                           /\ confirmed'[s] >= confirmed[s]
                           /\ confirmed'[s] >= ack.entries[s]
    BY <1>12, <1>q DEF AckApplied
  <2>3. m_HAenabled
    BY <2>1, Zenon DEF AckInv
  <2> QED
    BY <2>1, <2>2, <2>3, <1>q DEF AckInv
<1>13. CASE AckReplied
  <2>1. /\ ack.pc = "applied" /\ ack'.pc = "expire"
        /\ ack'.entries = NoEntries
        /\ UNCHANGED <<m_eventidmap, confirmed, m_HAenabled>>
    BY <1>13, Zenon DEF AckReplied
  <2> QED
    BY <2>1, <1>q, Zenon DEF AckInv, NoEntries
<1>14. CASE AckFailed
  <2>1. /\ ack.pc \in {"sending", "applied"} /\ ack'.pc = "expire"
        /\ ack'.entries = NoEntries
        /\ clearAckedFlags(ack.entries)
        /\ UNCHANGED <<confirmed, m_HAenabled>>
    BY <1>14, Zenon DEF AckFailed
  <2>2. \A s \in Sources :
          /\ m_eventidmap'[s].tracked = m_eventidmap[s].tracked
          /\ m_eventidmap'[s].seq = m_eventidmap[s].seq
          /\ \/ m_eventidmap'[s] = m_eventidmap[s] /\ ack.entries[s] = 0
             \/ m_eventidmap'[s] = m_eventidmap[s] /\ ~m_eventidmap[s].tracked
             \/ ~m_eventidmap'[s].acked
    BY <2>1, <1>t, Zenon DEF clearAckedFlags, Tracks
  <2> QED
    BY <2>1, <2>2, <1>q DEF AckInv, NoEntries
<1>15. CASE Expire
  <2>1. /\ ack.pc = "expire" /\ ack'.pc = "idle"
        /\ ack'.entries = ack.entries
        /\ UNCHANGED <<confirmed, m_HAenabled>>
    BY <1>15, <1>t, Zenon DEF Expire, AckStates
  <2>2. \A s \in Sources : \/ m_eventidmap'[s] = m_eventidmap[s]
                           \/ ~m_eventidmap'[s].tracked
    BY <1>15, <1>t, Zenon DEF Expire, expire, Untracked
  <2> QED
    BY <2>1, <2>2, Zenon DEF AckInv
<1>16. CASE UNCHANGED vars
  BY <1>16, <1>a, Zenon
<1> QED
  BY <1>1, <1>2, <1>3, <1>4, <1>5, <1>6, <1>7, <1>8, <1>9, <1>10, <1>11,
     <1>12, <1>13, <1>14, <1>15, <1>16, NextIsSteps, Zenon DEF Steps

LEMMA BoundInvStep ==
  TypeOK /\ WireInv /\ BoundInv /\ [Next]_vars => BoundInv'
<1> SUFFICES ASSUME TypeOK, WireInv, BoundInv, [Next]_vars PROVE BoundInv'
  BY Zenon
<1> USE DEF servers, channels, vars
<1>t. /\ m_eventidmap \in [Sources -> Tracks]
      /\ made \in [Sources -> Seqs] /\ confirmed \in [Sources -> Seqs]
      /\ ack \in AckStates /\ ack.entries \in [Sources -> Seqs]
      /\ \A c \in Channels : hand[c].src \in Sources /\ hand[c].seq \in Seqs
  BY Zenon DEF TypeOK, Hands, AckStates
<1>q. \A s \in Sources : /\ m_eventidmap[s].seq \in Nat /\ made[s] \in Nat
                         /\ confirmed[s] \in Nat /\ ack.entries[s] \in Nat
  BY <1>t, SeqsType, Zenon DEF Tracks
<1>a. ASSUME UNCHANGED <<made, m_eventidmap, confirmed, ack>>
      PROVE  BoundInv'
  BY <1>a, Zenon DEF BoundInv
<1>b. ASSUME NEW c \in Channels, hand[c].stage # "none",
             checkDupAndAdd(hand[c].src, hand[c].seq),
             UNCHANGED <<made, confirmed, ack>>
      PROVE  BoundInv'
  <2>1. \A r \in Sources :
          \/ m_eventidmap'[r] = m_eventidmap[r]
          \/ r = hand[c].src /\ m_eventidmap'[r].seq = hand[c].seq
    <3>1. \A r \in Sources :
            \/ m_eventidmap'[r] = m_eventidmap[r]
            \/ r = hand[c].src /\ m_eventidmap'[r] =
                 [tracked |-> TRUE, seq |-> hand[c].seq, acked |-> FALSE]
      BY <1>b, <1>t, CheckDupEffect
    <3> QED
      BY <3>1
  <2> QED
    BY <1>b, <2>1, Zenon DEF WireInv, BoundInv
<1>1. CASE \E s \in Sources : Produce(s)
  <2>1. \A r \in Sources : made'[r] \in Nat /\ made'[r] >= made[r]
    BY <1>1, <1>t, <1>q DEF Produce
  <2>2. UNCHANGED <<m_eventidmap, confirmed, ack>>
    BY <1>1, Zenon DEF Produce
  <2> QED
    BY <2>1, <2>2, <1>q DEF BoundInv
<1>2. CASE \E s \in Sources : Send(s)
  BY <1>2, <1>a, Zenon DEF Send
<1>3. CASE \E s \in Sources : TimePasses(s)
  BY <1>3, <1>a, Zenon DEF TimePasses
<1>4. CASE Disconnect
  BY <1>4, <1>a, Zenon DEF Disconnect
<1>5. CASE NewPrimary
  BY <1>5, <1>a, Zenon DEF NewPrimary
<1>6. CASE \E c \in Channels : Close(c)
  BY <1>6, <1>a, Zenon DEF Close
<1>7. CASE \E c \in Channels, s \in Sources : Receive(c, s)
  BY <1>7, <1>a, Zenon DEF Receive
<1>8. CASE \E c \in Channels : Discard(c)
  BY <1>8, <1>a, Zenon DEF Discard
<1>9. CASE \E c \in Channels : Take(c)
  BY <1>9, <1>b, Zenon DEF Take
<1>10. CASE \E c \in Channels, mark \in BOOLEAN : Handle(c, mark)
  <2> PICK c \in Channels, mark \in BOOLEAN : Handle(c, mark)
    BY <1>10, Zenon
  <2>1. CASE mark
    BY <2>1, <1>b, Zenon DEF Handle
  <2>2. CASE ~mark
    BY <2>2, <1>a, Zenon DEF Handle
  <2> QED
    BY <2>1, <2>2, Zenon
<1>11. CASE \E due \in BOOLEAN : AckBegin(due)
  <2> PICK due \in BOOLEAN : AckBegin(due)
    BY <1>11, Zenon
  <2>1. UNCHANGED <<made, confirmed>>
    BY Zenon DEF AckBegin
  <2>2. CASE m_HAenabled /\ due /\ UnAcked # {}
    <3>1. ack'.entries = getUnAcked /\ SetAcked
      BY <2>2 DEF AckBegin
    <3>2. \A s \in Sources :
            /\ m_eventidmap'[s].seq = m_eventidmap[s].seq
            /\ ack'.entries[s] \in {0, m_eventidmap[s].seq}
      BY <3>1, <1>t, Zenon DEF SetAcked, getUnAcked, Tracks
    <3> QED
      BY <2>1, <3>2, <1>q DEF BoundInv
  <2>3. CASE ~(m_HAenabled /\ due /\ UnAcked # {})
    <3>1. ack'.entries = ack.entries /\ m_eventidmap' = m_eventidmap
      BY <2>3, <1>t, Zenon DEF AckBegin, AckStates
    <3> QED
      BY <2>1, <3>1, Zenon DEF BoundInv
  <2> QED
    BY <2>2, <2>3, Zenon
<1>12. CASE AckApplied
  <2>1. ack'.entries = ack.entries /\ UNCHANGED <<made, m_eventidmap>>
    BY <1>12, <1>t, Zenon DEF AckApplied, AckStates
  <2>2. \A s \in Sources : confirmed'[s] \in {confirmed[s], ack.entries[s]}
    BY <1>12, Zenon DEF AckApplied
  <2> QED
    BY <2>1, <2>2, Zenon DEF BoundInv
<1>13. CASE AckReplied
  <2>1. ack'.entries = NoEntries /\ UNCHANGED <<made, m_eventidmap, confirmed>>
    BY <1>13, Zenon DEF AckReplied
  <2> QED
    BY <2>1, <1>q DEF BoundInv, NoEntries
<1>14. CASE AckFailed
  <2>1. ack'.entries = NoEntries /\ UNCHANGED <<made, confirmed>>
    BY <1>14, Zenon DEF AckFailed
  <2>2. \A s \in Sources : m_eventidmap'[s].seq = m_eventidmap[s].seq
    BY <1>14, <1>t, Zenon DEF AckFailed, clearAckedFlags, Tracks
  <2> QED
    BY <2>1, <2>2, <1>q DEF BoundInv, NoEntries
<1>15. CASE Expire
  <2>1. \A s \in Sources : \/ m_eventidmap'[s] = m_eventidmap[s]
                           \/ m_eventidmap'[s].seq = 0
    BY <1>15, <1>t, Zenon DEF Expire, expire, Untracked
  <2>2. ack'.entries = ack.entries /\ UNCHANGED <<made, confirmed>>
    BY <1>15, <1>t, Zenon DEF Expire, AckStates
  <2> QED
    BY <2>1, <2>2, <1>q DEF BoundInv
<1>16. CASE UNCHANGED vars
  BY <1>16, <1>a, Zenon
<1> QED
  BY <1>1, <1>2, <1>3, <1>4, <1>5, <1>6, <1>7, <1>8, <1>9, <1>10, <1>11,
     <1>12, <1>13, <1>14, <1>15, <1>16, NextIsSteps, Zenon DEF Steps

LEMMA WireInvStep ==
  TypeOK /\ WireInv /\ BoundInv /\ [Next]_vars => WireInv'
<1> SUFFICES ASSUME TypeOK, WireInv, BoundInv, [Next]_vars PROVE WireInv'
  BY Zenon
<1> USE DEF servers, channels, vars
<1>t. /\ made \in [Sources -> Seqs] /\ confirmed \in [Sources -> Seqs]
      /\ sent \in [Channels -> [Sources -> Seqs]]
      /\ got \in [Channels -> [Sources -> Seqs]]
      /\ open \in [Channels -> BOOLEAN] /\ primary \in Channels
      /\ hand \in [Channels -> Hands]
      /\ \A c \in Channels : hand[c].src \in Sources /\ hand[c].seq \in Seqs
  BY Zenon DEF TypeOK, Hands
<1>q. /\ \A s \in Sources : made[s] \in Nat /\ confirmed[s] \in Nat
      /\ \A c \in Channels, s \in Sources : sent[c][s] \in Nat /\ got[c][s] \in Nat
      /\ \A c \in Channels : hand[c].seq \in Nat
      /\ primary \in Nat /\ Channels \subseteq Nat
  <2>1. \A c \in Channels, s \in Sources : sent[c][s] \in Nat /\ got[c][s] \in Nat
    BY <1>t, SeqsType, Zenon
  <2> QED
    BY <1>t, <2>1, SeqsType, ChannelsType, Zenon
<1>a. ASSUME UNCHANGED <<made, sent, got, primary, open, hand>>
      PROVE  WireInv'
  BY <1>a, Zenon DEF WireInv
<1>1. CASE \E s \in Sources : Produce(s)
  <2> PICK s \in Sources : Produce(s)
    BY <1>1, Zenon
  <2>1. \A r \in Sources : made'[r] \in Nat /\ made'[r] >= made[r]
    BY <1>t, <1>q DEF Produce
  <2>2. UNCHANGED <<sent, got, primary, open, hand>>
    BY Zenon DEF Produce
  <2> QED
    BY <2>1, <2>2, <1>q, <1>t DEF WireInv
<1>2. CASE \E s \in Sources : Send(s)
  <2> PICK s \in Sources : Send(s)
    BY <1>2, Zenon
  <2>1. /\ sent[primary][s] < made[s]
        /\ \A c \in Channels, r \in Sources :
             sent'[c][r] = IF c = primary /\ r = s THEN sent[c][r] + 1
                           ELSE sent[c][r]
    BY <1>t, Zenon DEF Send
  <2>2. UNCHANGED <<made, got, primary, open, hand>>
    BY Zenon DEF Send
  <2>3. \A c \in Channels, r \in Sources :
          got'[c][r] <= sent'[c][r] /\ sent'[c][r] <= made'[r]
    BY <2>1, <2>2, <1>q DEF WireInv
  <2> QED
    BY <2>2, <2>3, Zenon DEF WireInv
<1>3. CASE \E s \in Sources : TimePasses(s)
  BY <1>3, <1>a, Zenon DEF TimePasses
<1>4. CASE Disconnect
  BY <1>4, <1>a, Zenon DEF Disconnect
<1>5. CASE NewPrimary
  <2>1. primary + 1 \in Channels
    BY <1>5, <1>t, ChannelNext, Zenon DEF NewPrimary
  <2>2. \A s \in Sources : FirstOf(s) \in Nat /\ FirstOf(s) <= made[s]
    BY <1>q DEF BoundInv, FirstOf
  <2>3. \A c \in Channels, s \in Sources :
          /\ sent'[c][s] = IF c = primary + 1 THEN FirstOf(s) ELSE sent[c][s]
          /\ got'[c][s] = IF c = primary + 1 THEN FirstOf(s) ELSE got[c][s]
    BY <1>5, <1>t, <2>1, Zenon DEF NewPrimary
  <2>4. \A c \in Channels : c > primary' => c > primary /\ open'[c] = open[c]
    <3>1. primary' = primary + 1
      BY <1>5, Zenon DEF NewPrimary
    <3>2. \A c \in Channels : c # primary + 1 => open'[c] = open[c]
      BY <1>5, <1>t, Zenon DEF NewPrimary
    <3>3. \A c \in Channels : c > primary + 1 => c > primary /\ c # primary + 1
      BY <1>q
    <3> QED
      BY <3>1, <3>2, <3>3, Zenon
  <2>5. UNCHANGED <<made, hand>>
    BY <1>5, Zenon DEF NewPrimary
  <2>6. \A c \in Channels, s \in Sources :
          got'[c][s] <= sent'[c][s] /\ sent'[c][s] <= made'[s]
    BY <2>2, <2>3, <2>5 DEF WireInv
  <2> QED
    BY <2>4, <2>5, <2>6, Zenon DEF WireInv
<1>6. CASE \E c \in Channels : Close(c)
  BY <1>6, <1>t DEF Close, WireInv
<1>7. CASE \E c \in Channels, s \in Sources : Receive(c, s)
  <2> PICK c \in Channels, s \in Sources : Receive(c, s)
    BY <1>7, Zenon
  <2>1. /\ got[c][s] < sent[c][s] /\ open[c]
        /\ \A d \in Channels, r \in Sources :
             got'[d][r] = IF d = c /\ r = s THEN got[d][r] + 1 ELSE got[d][r]
        /\ \A d \in Channels :
             hand'[d] = IF d = c THEN [stage |-> "received", src |-> s,
                                       seq |-> got[c][s] + 1]
                        ELSE hand[d]
    BY <1>t, Zenon DEF Receive
  <2>2. UNCHANGED <<made, sent, primary, open>>
    BY Zenon DEF Receive
  <2>3. got[c][s] + 1 > 0 /\ got[c][s] + 1 <= made[s]
    BY <2>1, <1>q DEF WireInv
  <2>4. \A d \in Channels, r \in Sources :
          got'[d][r] <= sent'[d][r] /\ sent'[d][r] <= made'[r]
    BY <2>1, <2>2, <1>q DEF WireInv
  <2>5. \A d \in Channels :
          /\ hand'[d].stage # "none" => hand'[d].seq > 0
          /\ hand'[d].stage # "none" => hand'[d].seq <= made'[hand'[d].src]
          /\ d > primary' => ~open'[d] /\ hand'[d].stage = "none"
    BY <2>1, <2>2, <2>3 DEF WireInv
  <2> QED
    BY <2>2, <2>4, <2>5, Zenon DEF WireInv
<1>c. ASSUME NEW c \in Channels, hand[c].stage # "none",
             \E h : /\ hand' = [hand EXCEPT ![c] = h]
                    /\ \/ h.stage = "none"
                       \/ h.seq = hand[c].seq /\ h.src = hand[c].src,
             UNCHANGED <<made, sent, got, primary, open>>
      PROVE  WireInv'
  <2>1. \A d \in Channels :
          /\ hand'[d].stage # "none" => hand'[d].seq > 0
          /\ hand'[d].stage # "none" => hand'[d].seq <= made'[hand'[d].src]
          /\ d > primary' => ~open'[d] /\ hand'[d].stage = "none"
    <3> PICK h : /\ hand' = [hand EXCEPT ![c] = h]
                 /\ \/ h.stage = "none"
                    \/ h.seq = hand[c].seq /\ h.src = hand[c].src
      BY <1>c, Zenon
    <3>1. \A d \in Channels : hand'[d] = IF d = c THEN h ELSE hand[d]
      BY <1>t, Zenon
    <3> QED
      BY <1>c, <3>1 DEF WireInv
  <2> QED
    BY <1>c, <2>1, Zenon DEF WireInv
<1>8. CASE \E c \in Channels : Discard(c)
  <2> PICK c \in Channels : Discard(c)
    BY <1>8, Zenon
  <2>1. /\ hand[c].stage # "none" /\ hand' = [hand EXCEPT ![c] = NoHand]
        /\ UNCHANGED <<made, sent, got, primary, open>>
    BY Zenon DEF Discard
  <2> QED
    BY <2>1, NoHandType, <1>c, Zenon
<1>9. CASE \E c \in Channels : Take(c)
  <2> PICK c \in Channels : Take(c)
    BY <1>9, Zenon
  <2> DEFINE h == IF isDuplicate(hand[c].src, hand[c].seq) THEN NoHand
                  ELSE [hand[c] EXCEPT !.stage = "taken"]
  <2>1. /\ hand[c].stage # "none" /\ hand' = [hand EXCEPT ![c] = h]
        /\ UNCHANGED <<made, sent, got, primary, open>>
    BY Zenon DEF Take
  <2>2. h.stage = "none" \/ (h.seq = hand[c].seq /\ h.src = hand[c].src)
    BY NoHandType, <1>t, Zenon DEF Hands
  <2> QED
    BY <2>1, <2>2, <1>c, Zenon
<1>10. CASE \E c \in Channels, mark \in BOOLEAN : Handle(c, mark)
  <2> PICK c \in Channels, mark \in BOOLEAN : Handle(c, mark)
    BY <1>10, Zenon
  <2>1. /\ hand[c].stage # "none" /\ hand' = [hand EXCEPT ![c] = NoHand]
        /\ UNCHANGED <<made, sent, got, primary, open>>
    BY Zenon DEF Handle
  <2> QED
    BY <2>1, NoHandType, <1>c, Zenon
<1>11. CASE \E due \in BOOLEAN : AckBegin(due)
  BY <1>11, <1>a, Zenon DEF AckBegin
<1>12. CASE AckApplied
  BY <1>12, <1>a, Zenon DEF AckApplied
<1>13. CASE AckReplied
  BY <1>13, <1>a, Zenon DEF AckReplied
<1>14. CASE AckFailed
  BY <1>14, <1>a, Zenon DEF AckFailed
<1>15. CASE Expire
  BY <1>15, <1>a, Zenon DEF Expire
<1>16. CASE UNCHANGED vars
  BY <1>16, <1>a, Zenon
<1> QED
  BY <1>1, <1>2, <1>3, <1>4, <1>5, <1>6, <1>7, <1>8, <1>9, <1>10, <1>11,
     <1>12, <1>13, <1>14, <1>15, <1>16, NextIsSteps, Zenon DEF Steps

-----------------------------------------------------------------------------
(* Events that are over stay so.                                           *)

LEMMA SettledDown ==
  ASSUME TypeOK, NEW s \in Sources, NEW m \in Seqs, NEW n \in Seqs,
         n <= m, Settled(s, m)
  PROVE  Settled(s, n)
<1>t. hand \in [Channels -> Hands] /\ got \in [Channels -> [Sources -> Seqs]]
  BY Zenon DEF TypeOK
<1>1. \A c \in Channels : hand[c].seq \in Nat /\ got[c][s] \in Nat
  <2>1. \A c \in Channels : hand[c].seq \in Nat
    BY <1>t, SeqsType, Zenon DEF Hands
  <2>2. \A c \in Channels : got[c][s] \in Nat
    BY <1>t, SeqsType, Zenon
  <2> QED
    BY <2>1, <2>2, Zenon
<1>2. m \in Nat /\ n \in Nat
  BY SeqsType, Zenon
<1> QED
  BY <1>1, <1>2 DEF Settled

LEMMA SettledKept ==
  ASSUME TypeOK, WireInv, [Next]_vars, NEW s \in Sources, NEW n \in Seqs,
         Settled(s, n), NewPrimary => n <= FirstOf(s)
  PROVE  Settled(s, n)'
<1> USE DEF servers, channels, vars
<1>t. /\ sent \in [Channels -> [Sources -> Seqs]]
      /\ got \in [Channels -> [Sources -> Seqs]]
      /\ open \in [Channels -> BOOLEAN] /\ primary \in Channels
      /\ hand \in [Channels -> Hands]
  BY Zenon DEF TypeOK
<1>q. /\ \A c \in Channels, r \in Sources : sent[c][r] \in Nat /\ got[c][r] \in Nat
      /\ \A c \in Channels : hand[c].seq \in Nat
      /\ primary \in Nat /\ n \in Nat /\ Channels \subseteq Nat
  <2>1. \A c \in Channels, r \in Sources : sent[c][r] \in Nat /\ got[c][r] \in Nat
    BY <1>t, SeqsType, Zenon
  <2>2. \A c \in Channels : hand[c].seq \in Nat
    BY <1>t, SeqsType, Zenon DEF Hands
  <2> QED
    BY <1>t, <2>1, <2>2, SeqsType, ChannelsType, Zenon
<1>a. ASSUME UNCHANGED <<sent, got, primary, open, hand>>
      PROVE  Settled(s, n)'
  BY <1>a, Zenon DEF Settled
<1>c. ASSUME NEW c \in Channels, NEW h, hand' = [hand EXCEPT ![c] = h],
             h.stage # "received", UNCHANGED <<sent, got, primary, open>>
      PROVE  Settled(s, n)'
  <2>1. \A d \in Channels : hand'[d] = IF d = c THEN h ELSE hand[d]
    BY <1>c, <1>t, Zenon
  <2> QED
    BY <1>c, <2>1, Zenon DEF Settled
<1>1. CASE \E r \in Sources : Produce(r)
  BY <1>1, <1>a, Zenon DEF Produce
<1>2. CASE \E r \in Sources : Send(r)
  <2> PICK r \in Sources : Send(r)
    BY <1>2, Zenon
  <2>1. \A c \in Channels : c # primary => sent'[c][s] = sent[c][s]
    BY <1>t, Zenon DEF Send
  <2>2. UNCHANGED <<got, primary, open, hand>>
    BY Zenon DEF Send
  <2> QED
    BY <2>1, <2>2, Zenon DEF Settled
<1>3. CASE \E r \in Sources : TimePasses(r)
  BY <1>3, <1>a, Zenon DEF TimePasses
<1>4. CASE Disconnect
  BY <1>4, <1>a, Zenon DEF Disconnect
<1>5. CASE NewPrimary
  <2>1. primary + 1 \in Channels
    BY <1>5, <1>t, ChannelNext, Zenon DEF NewPrimary
  <2>2. \A c \in Channels :
          /\ c # primary + 1 => /\ sent'[c] = sent[c] /\ got'[c] = got[c]
                               /\ open'[c] = open[c]
          /\ c = primary + 1 => got'[c][s] = FirstOf(s)
    BY <1>5, <1>t, <2>1, Zenon DEF NewPrimary
  <2>3. primary' = primary + 1 /\ hand' = hand
    BY <1>5, Zenon DEF NewPrimary
  <2>4. n <= FirstOf(s)
    BY <1>5, Zenon
  <2>5. FirstOf(s) \in Nat
    BY SeqsType, Zenon DEF FirstOf, TypeOK
  <2>6. \A c \in Channels :
          open'[c] => \/ got'[c][s] >= n
                      \/ c # primary' /\ got'[c][s] = sent'[c][s]
    <3> SUFFICES ASSUME NEW c \in Channels, open'[c]
                 PROVE  \/ got'[c][s] >= n
                        \/ c # primary' /\ got'[c][s] = sent'[c][s]
      BY Zenon
    <3>1. CASE c = primary + 1
      BY <3>1, <2>2, <2>4, <2>5, <1>q, Zenon
    <3>2. CASE c # primary + 1
      BY <3>2, <2>2, <2>3, Zenon DEF Settled
    <3> QED
      BY <3>1, <3>2, Zenon
  <2> QED
    BY <2>3, <2>6, Zenon DEF Settled
<1>6. CASE \E c \in Channels : Close(c)
  <2>1. \A c \in Channels : open'[c] => open[c]
    BY <1>6, <1>t, Zenon DEF Close
  <2>2. UNCHANGED <<sent, got, primary, hand>>
    BY <1>6, Zenon DEF Close
  <2> QED
    BY <2>1, <2>2, Zenon DEF Settled
<1>7. CASE \E c \in Channels, r \in Sources : Receive(c, r)
  <2> PICK c \in Channels, r \in Sources : Receive(c, r)
    BY <1>7, Zenon
  <2>1. /\ got[c][r] < sent[c][r] /\ open[c]
        /\ \A d \in Channels :
             got'[d][s] = IF d = c /\ r = s THEN got[d][s] + 1 ELSE got[d][s]
        /\ \A d \in Channels :
             hand'[d] = IF d = c THEN [stage |-> "received", src |-> r,
                                       seq |-> got[c][r] + 1]
                        ELSE hand[d]
        /\ UNCHANGED <<sent, primary, open>>
    BY <1>t, Zenon DEF Receive
  <2>2. r = s => got[c][s] >= n
    BY <2>1, <1>q DEF Settled
  <2>3. \A d \in Channels :
          (hand'[d].stage = "received" /\ hand'[d].src = s) => hand'[d].seq > n
    BY <2>1, <2>2, <1>q DEF Settled
  <2>4. \A d \in Channels :
          open'[d] => \/ got'[d][s] >= n
                      \/ d # primary' /\ got'[d][s] = sent'[d][s]
    BY <2>1, <2>2, <1>q DEF Settled
  <2> QED
    BY <2>3, <2>4, Zenon DEF Settled
<1>8. CASE \E c \in Channels : Discard(c)
  BY <1>8, <1>c, NoHandType, Zenon DEF Discard
<1>9. CASE \E c \in Channels : Take(c)
  <2> PICK c \in Channels : Take(c)
    BY <1>9, Zenon
  <2> DEFINE h == IF isDuplicate(hand[c].src, hand[c].seq) THEN NoHand
                  ELSE [hand[c] EXCEPT !.stage = "taken"]
  <2>1. /\ hand' = [hand EXCEPT ![c] = h]
        /\ UNCHANGED <<sent, got, primary, open>>
    BY Zenon DEF Take
  <2>2. h.stage # "received"
    BY NoHandType, <1>t, Zenon DEF Hands
  <2> QED
    BY <2>1, <2>2, <1>c, Zenon
<1>10. CASE \E c \in Channels, mark \in BOOLEAN : Handle(c, mark)
  BY <1>10, <1>c, NoHandType, Zenon DEF Handle
<1>11. CASE \E due \in BOOLEAN : AckBegin(due)
  BY <1>11, <1>a, Zenon DEF AckBegin
<1>12. CASE AckApplied
  BY <1>12, <1>a, Zenon DEF AckApplied
<1>13. CASE AckReplied
  BY <1>13, <1>a, Zenon DEF AckReplied
<1>14. CASE AckFailed
  BY <1>14, <1>a, Zenon DEF AckFailed
<1>15. CASE Expire
  BY <1>15, <1>a, Zenon DEF Expire
<1>16. CASE UNCHANGED vars
  BY <1>16, <1>a, Zenon
<1> QED
  BY <1>1, <1>2, <1>3, <1>4, <1>5, <1>6, <1>7, <1>8, <1>9, <1>10, <1>11,
     <1>12, <1>13, <1>14, <1>15, <1>16, NextIsSteps, Zenon DEF Steps

(* The numbers of the servers only grow.                                   *)
LEMMA ServersGrow ==
  ASSUME TypeOK, [Next]_vars, NEW s \in Sources
  PROVE  /\ made[s] \in Nat /\ made'[s] \in Nat /\ made[s] <= made'[s]
         /\ confirmed[s] \in Nat /\ confirmed'[s] \in Nat
         /\ confirmed[s] <= confirmed'[s]
         /\ m_HAenabled' = m_HAenabled
<1> USE DEF servers, channels, vars
<1>t. made \in [Sources -> Seqs] /\ confirmed \in [Sources -> Seqs]
      /\ ack.entries \in [Sources -> Seqs]
  BY Zenon DEF TypeOK, AckStates
<1>q. made[s] \in Nat /\ confirmed[s] \in Nat /\ ack.entries[s] \in Nat
  BY <1>t, SeqsType, Zenon
<1>1. CASE \E r \in Sources : Produce(r)
  BY <1>1, <1>t, <1>q DEF Produce
<1>2. CASE AckApplied
  BY <1>2, <1>q DEF AckApplied
<1>3. ASSUME ~(\E r \in Sources : Produce(r)), ~AckApplied
      PROVE  UNCHANGED <<made, confirmed, m_HAenabled>>
  BY <1>3, NextIsSteps, Zenon DEF Steps, Send, TimePasses, Disconnect, NewPrimary,
     Close, Receive, Discard, Take, Handle, AckBegin, AckReplied, AckFailed,
     Expire
<1> QED
  BY <1>1, <1>2, <1>3, <1>q

LEMMA OverKept ==
  ASSUME TypeOK, WireInv, [Next]_vars, NEW s \in Sources, NEW n \in Seqs,
         Over(s, n)
  PROVE  Over(s, n)'
<1>1. n \in Nat
  BY SeqsType, Zenon
<1>2. NewPrimary => n <= FirstOf(s)
  BY Zenon DEF Over, FirstOf
<1>3. Settled(s, n)'
  BY <1>2, SettledKept, Zenon DEF Over
<1>4. /\ made[s] \in Nat /\ made'[s] \in Nat /\ made[s] <= made'[s]
      /\ confirmed[s] \in Nat /\ confirmed'[s] \in Nat
      /\ confirmed[s] <= confirmed'[s]
      /\ m_HAenabled' = m_HAenabled
  BY ServersGrow, Zenon
<1> QED
  BY <1>1, <1>3, <1>4 DEF Over

-----------------------------------------------------------------------------
(* How a step changes what the map has of a source.                        *)

LEMMA MapStep ==
  ASSUME TypeOK, [Next]_vars, NEW s \in Sources
  PROVE  \/ /\ m_eventidmap'[s].tracked = m_eventidmap[s].tracked
            /\ m_eventidmap'[s].seq = m_eventidmap[s].seq
            /\ s \in late' => s \in late \/ TimePasses(s)
         \/ /\ m_eventidmap'[s].tracked
            /\ m_eventidmap[s].tracked =>
                 m_eventidmap[s].seq < m_eventidmap'[s].seq
            /\ s \notin late'
         \/ /\ Expire /\ s \in Expired(m_HAenabled)
            /\ ~m_eventidmap'[s].tracked /\ s \notin late'
<1> USE DEF servers, channels, vars
<1> DEFINE Same == /\ m_eventidmap'[s].tracked = m_eventidmap[s].tracked
                   /\ m_eventidmap'[s].seq = m_eventidmap[s].seq
                   /\ s \in late' => s \in late \/ TimePasses(s)
           Newer == /\ m_eventidmap'[s].tracked
                    /\ m_eventidmap[s].tracked =>
                         m_eventidmap[s].seq < m_eventidmap'[s].seq
                    /\ s \notin late'
           Gone == /\ Expire /\ s \in Expired(m_HAenabled)
                   /\ ~m_eventidmap'[s].tracked /\ s \notin late'
<1> SUFFICES Same \/ Newer \/ Gone
  BY Zenon
<1>t. /\ m_eventidmap \in [Sources -> Tracks] /\ hand \in [Channels -> Hands]
      /\ late \subseteq Sources
  BY Zenon DEF TypeOK
<1>q. m_eventidmap[s] \in Tracks /\ m_eventidmap[s].seq \in Nat
  BY <1>t, SeqsType, Zenon DEF Tracks
<1>a. ASSUME UNCHANGED <<m_eventidmap, late>> PROVE Same
  BY <1>a, Zenon
<1>d. ASSUME NEW r \in Sources, NEW n \in Seqs, checkDupAndAdd(r, n)
      PROVE  Same \/ Newer
  <2>1. CASE isDuplicate(r, n) \/ r # s
    BY <2>1, <1>d, <1>t, Zenon DEF checkDupAndAdd, PutSequence
  <2>2. CASE ~isDuplicate(r, n) /\ r = s
    <3>1. /\ m_eventidmap'[s] = [tracked |-> TRUE, seq |-> n, acked |-> FALSE]
          /\ late' = late \ {s}
      BY <2>2, <1>d, <1>t, Zenon DEF checkDupAndAdd, PutSequence
    <3>2. m_eventidmap[s].tracked => ~(n <= m_eventidmap[s].seq)
      BY <2>2, Zenon DEF isDuplicate
    <3>3. n \in Nat
      BY SeqsType, Zenon
    <3>4. m_eventidmap[s].seq \in Nat
      BY <1>q, Zenon
    <3>5. ~(n <= m_eventidmap[s].seq) => m_eventidmap[s].seq < n
      BY <3>3, <3>4
    <3>6. m_eventidmap'[s].tracked /\ m_eventidmap'[s].seq = n
      BY <3>1
    <3>7. s \notin late'
      BY <3>1, Zenon
    <3> QED
      BY <3>2, <3>5, <3>6, <3>7, Zenon
  <2> QED
    BY <2>1, <2>2, Zenon
<1>1. CASE \E r \in Sources : TimePasses(r)
  BY <1>1, Zenon DEF TimePasses
<1>2. CASE \E c \in Channels : Take(c)
  <2> PICK c \in Channels : Take(c)
    BY <1>2, Zenon
  <2>1. hand[c].src \in Sources /\ hand[c].seq \in Seqs
    BY <1>t, Zenon DEF Hands
  <2> QED
    BY <2>1, <1>d, Zenon DEF Take
<1>3. CASE \E c \in Channels, mark \in BOOLEAN : Handle(c, mark)
  <2> PICK c \in Channels, mark \in BOOLEAN : Handle(c, mark)
    BY <1>3, Zenon
  <2>1. hand[c].src \in Sources /\ hand[c].seq \in Seqs
    BY <1>t, Zenon DEF Hands
  <2> QED
    BY <2>1, <1>d, <1>a, Zenon DEF Handle
<1>4. CASE \E due \in BOOLEAN : AckBegin(due)
  <2>1. late' = late
    BY <1>4, Zenon DEF AckBegin
  <2>2. m_eventidmap' = m_eventidmap \/ SetAcked
    BY <1>4, Zenon DEF AckBegin
  <2>3. m_eventidmap'[s] = m_eventidmap[s]
        \/ m_eventidmap'[s] = [m_eventidmap[s] EXCEPT !.acked = TRUE]
    BY <2>2, Zenon DEF SetAcked
  <2> QED
    BY <2>1, <2>3, <1>q, Zenon DEF Tracks
<1>5. CASE AckFailed
  <2>1. late' = late
    BY <1>5, Zenon DEF AckFailed
  <2>2. m_eventidmap'[s] = m_eventidmap[s]
        \/ m_eventidmap'[s] = [m_eventidmap[s] EXCEPT !.acked = FALSE]
    BY <1>5, Zenon DEF AckFailed, clearAckedFlags
  <2> QED
    BY <2>1, <2>2, <1>q, Zenon DEF Tracks
<1>6. CASE Expire
  <2>1. /\ m_eventidmap'[s] = IF s \in Expired(m_HAenabled) THEN Untracked
                             ELSE m_eventidmap[s]
        /\ late' = late \ Expired(m_HAenabled)
    BY <1>6, Zenon DEF Expire, expire
  <2>2. CASE s \in Expired(m_HAenabled)
    <3>1. ~m_eventidmap'[s].tracked
      BY <2>1, <2>2 DEF Untracked
    <3> QED
      BY <2>1, <2>2, <3>1, <1>6, Zenon
  <2>3. CASE s \notin Expired(m_HAenabled)
    BY <2>1, <2>3, Zenon
  <2> QED
    BY <2>2, <2>3, Zenon
<1>7. ASSUME ~(\E r \in Sources : TimePasses(r)),
             ~(\E c \in Channels : Take(c)),
             ~(\E c \in Channels, mark \in BOOLEAN : Handle(c, mark)),
             ~(\E due \in BOOLEAN : AckBegin(due)), ~AckFailed, ~Expire
      PROVE  UNCHANGED <<m_eventidmap, late>>
  BY <1>7, NextIsSteps, Zenon DEF Steps, Produce, Send, Disconnect, NewPrimary, Close,
     Receive, Discard, AckApplied, AckReplied
<1> QED
  BY <1>1, <1>2, <1>3, <1>4, <1>5, <1>6, <1>7, <1>a, Zenon

(* With acknowledgements enabled, a source is forgotten only after the     *)
(* servers have its last event acknowledged (EventIdMap::expire with       *)
(* onlyacked, called by doPeriodicAck after the reply or its failure).     *)
LEMMA ForgottenStep ==
  ASSUME TypeOK, AckInv, [Next]_vars, NEW s \in Sources, m_HAenabled,
         m_eventidmap[s].tracked, ~m_eventidmap'[s].tracked
  PROVE  m_eventidmap[s].seq <= confirmed[s]
<1>1. Expire /\ s \in Expired(m_HAenabled)
  BY MapStep, Zenon
<1>2. m_eventidmap[s].acked /\ ack.pc = "expire"
  BY <1>1, Zenon DEF Expired, Expire
<1> QED
  BY <1>2, Zenon DEF AckInv

LEMMA InvInit == Init => AckInv /\ WireInv /\ BoundInv
<1> SUFFICES ASSUME Init PROVE AckInv /\ WireInv /\ BoundInv
  BY Zenon
<1> USE DEF Init
<1>1. AckInv
  BY Zenon DEF AckInv, NoEntries, Untracked
<1>2. WireInv
  <2>1. \A c \in Channels, s \in Sources :
          got[c][s] = 0 /\ sent[c][s] = 0 /\ made[s] = 0
    BY Zenon
  <2>2. \A c \in Channels : hand[c].stage = "none"
    BY NoHandType, Zenon
  <2>3. \A c \in Channels : c > primary => ~open[c]
    <3>1. \A c \in Channels : c > primary => c # 1
      OBVIOUS
    <3>2. \A c \in Channels : open[c] => c = 1
      BY Zenon
    <3> QED
      BY <3>1, <3>2, Zenon
  <2> QED
    BY <2>1, <2>2, <2>3 DEF WireInv
<1>3. BoundInv
  BY DEF BoundInv, NoEntries, Untracked
<1> QED
  BY <1>1, <1>2, <1>3, Zenon

(* Types, acknowledgements and numbers, in every state.                    *)
LEMMA InvCorrect == Spec => [](TypeOK /\ AckInv /\ WireInv /\ BoundInv)
<1>1. Init => TypeOK /\ AckInv /\ WireInv /\ BoundInv
  BY TypeInit, InvInit, Zenon
<1>2. TypeOK /\ AckInv /\ WireInv /\ BoundInv /\ [Next]_vars
        => (TypeOK /\ AckInv /\ WireInv /\ BoundInv)'
  BY TypeStep, AckInvStep, WireInvStep, BoundInvStep, Zenon
<1> QED
  BY <1>1, <1>2, PTL DEF Spec

(* The map forgets a source of a client with acknowledgements only after   *)
(* the servers have its last event acknowledged (EventIdMap::expire).      *)
THEOREM ForgottenConfirmed == Spec => ForgottenWasConfirmed
<1>1. TypeOK /\ AckInv /\ [Next]_vars =>
        [\A s \in Sources :
           (m_HAenabled /\ m_eventidmap[s].tracked /\ ~m_eventidmap'[s].tracked)
             => m_eventidmap[s].seq <= confirmed[s]]_vars
  BY ForgottenStep, Zenon
<1> QED
  BY <1>1, InvCorrect, PTL DEF Spec, ForgottenWasConfirmed

-----------------------------------------------------------------------------
(* No event is applied twice.                                              *)

(* A source whose deadline has passed has nothing on its way, and was      *)
(* acknowledged if the connection is lost.                                 *)
LateInv ==
  \A s \in late :
    /\ m_eventidmap[s].tracked
    /\ Settled(s, m_eventidmap[s].seq)
    /\ (m_HAenabled /\ ~alive) => m_eventidmap[s].seq <= confirmed[s]

(* An event that was taken is recognised by the map, or is over.           *)
Recognised ==
  \A s \in Sources, n \in Seqs :
    Taken(s, n) => \/ m_eventidmap[s].tracked /\ n <= m_eventidmap[s].seq
                   \/ Over(s, n)

(* Two threads never work on one event.                                    *)
OneHand ==
  \A s \in Sources, n \in Seqs, c, d \in Channels :
    InHand(c, s, n) /\ InHand(d, s, n) => c = d

(* The connection is lost only in Disconnect.                              *)
LEMMA AliveStep ==
  ASSUME [Next]_vars, ~alive' PROVE ~alive \/ Disconnect
<1> USE DEF servers, channels, vars
<1> QED
  BY NextIsSteps, Zenon DEF Steps, Produce, Send, TimePasses, NewPrimary, Close,
     Receive, Discard, Take, Handle, AckBegin, AckApplied, AckReplied,
     AckFailed, Expire

LEMMA LateStep ==
  ASSUME ShortOutages, TypeOK, WireInv, BoundInv, LateInv, [Next]_vars
  PROVE  LateInv'
<1> SUFFICES ASSUME NEW s \in late'
             PROVE  /\ m_eventidmap'[s].tracked
                    /\ Settled(s, m_eventidmap[s].seq)'
                    /\ (m_HAenabled' /\ ~alive') =>
                          m_eventidmap'[s].seq <= confirmed'[s]
  BY Zenon DEF LateInv
<1>1. s \in Sources
  BY TypeStep, Zenon DEF TypeOK
<1>t. m_eventidmap[s] \in Tracks
  BY <1>1, Zenon DEF TypeOK
<1> PICK n \in Seqs : n = m_eventidmap[s].seq
  BY <1>t, Zenon DEF Tracks
<1>2. n \in Seqs /\ n \in Nat
  BY SeqsType, Zenon
<1>3. /\ m_eventidmap'[s].tracked = m_eventidmap[s].tracked
      /\ m_eventidmap'[s].seq = n
      /\ s \in late \/ TimePasses(s)
  BY <1>1, MapStep, Zenon
<1>4. m_eventidmap[s].tracked /\ Settled(s, n)
  BY <1>3, Zenon DEF LateInv, TimePasses
<1>5. /\ confirmed[s] \in Nat /\ confirmed'[s] \in Nat
      /\ confirmed[s] <= confirmed'[s] /\ m_HAenabled' = m_HAenabled
  BY <1>1, ServersGrow, Zenon
<1>6. ASSUME m_HAenabled, ~alive PROVE n <= confirmed[s]
  BY <1>3, <1>4, <1>6, Zenon DEF LateInv, TimePasses, Confirmed
<1>7. NewPrimary => n <= FirstOf(s)
  <2>1. n <= made[s]
    BY <1>1, Zenon DEF BoundInv
  <2> QED
    BY <2>1, <1>6, Zenon DEF NewPrimary, FirstOf
<1>8. Settled(s, n)'
  BY <1>1, <1>2, <1>4, <1>7, SettledKept, Zenon
<1>9. ASSUME m_HAenabled, ~alive' PROVE n <= confirmed[s]
  <2>1. CASE ~alive
    BY <2>1, <1>6, <1>9, Zenon
  <2>2. CASE Disconnect
    <3>1. s \in late
      BY <2>2, <1>1, Zenon DEF Disconnect
    <3>2. Confirmed(s)
      BY <2>2, <1>9, <3>1, Zenon DEF Disconnect
    <3> QED
      BY <3>2, <1>4, Zenon DEF Confirmed
  <2> QED
    BY <2>1, <2>2, <1>9, AliveStep, Zenon
<1>10. (m_HAenabled' /\ ~alive') => m_eventidmap'[s].seq <= confirmed'[s]
  <2> SUFFICES ASSUME m_HAenabled', ~alive'
               PROVE  m_eventidmap'[s].seq <= confirmed'[s]
    BY Zenon
  <2>1. n <= confirmed[s]
    BY <1>5, <1>9, Zenon
  <2>2. n <= confirmed'[s]
    BY <2>1, <1>2, <1>5
  <2> QED
    BY <2>2, <1>3, Zenon
<1>11. Settled(s, m_eventidmap[s].seq)'
  BY <1>3, <1>8, Zenon DEF Settled
<1> QED
  BY <1>3, <1>4, <1>10, <1>11, Zenon

(* An event taken in this step was taken before, or the step is its Take.  *)
LEMMA TakenStep ==
  ASSUME TypeOK, [Next]_vars, NEW s \in Sources, NEW n \in Seqs
  PROVE  /\ \A c \in Channels : InHand(c, s, n)' =>
              \/ InHand(c, s, n) /\ handled'[s][n] = handled[s][n]
              \/ /\ Take(c) /\ ~isDuplicate(s, n)
                 /\ hand[c].stage = "received" /\ hand[c].src = s
                 /\ hand[c].seq = n
                 /\ UNCHANGED handled
                 /\ \A d \in Channels : d # c => hand'[d] = hand[d]
              \/ /\ InHand(c, s, n)
                 /\ \E d \in Channels : d # c /\ InHand(d, s, n)
         /\ \/ handled'[s][n] = handled[s][n]
            \/ /\ handled'[s][n] = handled[s][n] + 1
               /\ \E d \in Channels :
                    /\ InHand(d, s, n) /\ ~InHand(d, s, n)'
                    /\ \A c \in Channels : c # d => hand'[c] = hand[c]
<1> USE DEF servers, channels, vars
<1> DEFINE Same(c) == InHand(c, s, n) /\ handled'[s][n] = handled[s][n]
           New(c) == /\ Take(c) /\ ~isDuplicate(s, n)
                     /\ hand[c].stage = "received" /\ hand[c].src = s
                     /\ hand[c].seq = n
                     /\ UNCHANGED handled
                     /\ \A d \in Channels : d # c => hand'[d] = hand[d]
           Two(c) == /\ InHand(c, s, n)
                     /\ \E d \in Channels : d # c /\ InHand(d, s, n)
           More == /\ handled'[s][n] = handled[s][n] + 1
                   /\ \E d \in Channels :
                        /\ InHand(d, s, n) /\ ~InHand(d, s, n)'
                        /\ \A c \in Channels : c # d => hand'[c] = hand[c]
<1> SUFFICES /\ \A c \in Channels :
                  InHand(c, s, n)' => Same(c) \/ New(c) \/ Two(c)
             /\ handled'[s][n] = handled[s][n] \/ More
  BY Zenon
<1>t. hand \in [Channels -> Hands] /\ handled \in [Sources -> [Seqs -> Nat]]
  BY Zenon DEF TypeOK
<1>a. ASSUME UNCHANGED <<hand, handled>>
      PROVE  /\ \A c \in Channels : InHand(c, s, n)' => Same(c)
             /\ handled'[s][n] = handled[s][n]
  BY <1>a, Zenon DEF InHand
<1>c. ASSUME NEW c \in Channels, NEW h, hand' = [hand EXCEPT ![c] = h],
             h.stage # "taken", UNCHANGED handled
      PROVE  /\ \A d \in Channels : InHand(d, s, n)' => Same(d)
             /\ handled'[s][n] = handled[s][n]
  <2>1. \A d \in Channels : hand'[d] = IF d = c THEN h ELSE hand[d]
    BY <1>c, <1>t, Zenon
  <2> QED
    BY <1>c, <2>1, Zenon DEF InHand
<1>1. CASE \E c \in Channels, r \in Sources : Receive(c, r)
  <2> PICK c \in Channels, r \in Sources : Receive(c, r)
    BY <1>1, Zenon
  <2> DEFINE h == [stage |-> "received", src |-> r, seq |-> got[c][r] + 1]
  <2>1. hand' = [hand EXCEPT ![c] = h] /\ UNCHANGED handled
    BY Zenon DEF Receive
  <2>2. h.stage # "taken"
    BY Zenon
  <2> HIDE DEF h
  <2> QED
    BY <2>1, <2>2, <1>c, Zenon
<1>2. CASE \E c \in Channels : Discard(c)
  BY <1>2, <1>c, NoHandType, Zenon DEF Discard
<1>3. CASE \E c \in Channels : Take(c)
  <2> PICK c \in Channels : Take(c)
    BY <1>3, Zenon
  <2>1. CASE isDuplicate(hand[c].src, hand[c].seq)
    <3>1. hand' = [hand EXCEPT ![c] = NoHand] /\ UNCHANGED handled
      BY <2>1, Zenon DEF Take
    <3> QED
      BY <3>1, <1>c, NoHandType, Zenon
  <2>2. CASE ~isDuplicate(hand[c].src, hand[c].seq)
    <3>1. /\ hand' = [hand EXCEPT ![c] = [hand[c] EXCEPT !.stage = "taken"]]
          /\ UNCHANGED handled /\ hand[c].stage = "received"
      BY <2>2, <1>t, Zenon DEF Take
    <3>2. /\ \A d \in Channels : d # c => hand'[d] = hand[d]
          /\ hand'[c] = [hand[c] EXCEPT !.stage = "taken"]
      BY <3>1, <1>t, Zenon
    <3>3. hand'[c].src = hand[c].src /\ hand'[c].seq = hand[c].seq
      BY <3>2, <1>t DEF Hands
    <3>4. \A d \in Channels : d # c => (InHand(d, s, n)' => Same(d))
      BY <3>1, <3>2, Zenon DEF InHand
    <3>5. InHand(c, s, n)' => New(c)
      BY <3>1, <3>2, <3>3, <2>2, Zenon DEF InHand
    <3> QED
      BY <3>1, <3>4, <3>5, Zenon
  <2> QED
    BY <2>1, <2>2, Zenon
<1>4. CASE \E c \in Channels, mark \in BOOLEAN : Handle(c, mark)
  <2> PICK c \in Channels, mark \in BOOLEAN : Handle(c, mark)
    BY <1>4, Zenon
  <2>1. /\ \A d \in Channels : hand'[d] = IF d = c THEN NoHand ELSE hand[d]
        /\ hand[c].stage = "taken"
    BY <1>t, Zenon DEF Handle
  <2>2. hand[c].src \in Sources /\ hand[c].seq \in Seqs
    BY <1>t, Zenon DEF Hands
  <2>3. handled'[s][n] = IF hand[c].src = s /\ hand[c].seq = n
                         THEN handled[s][n] + 1 ELSE handled[s][n]
    BY <2>2, <1>t, Zenon DEF Handle
  <2>4. ~InHand(c, s, n)'
    BY <2>1, NoHandType, Zenon DEF InHand
  <2>5. \A d \in Channels : InHand(d, s, n)' => d # c /\ InHand(d, s, n)
    BY <2>1, <2>4, Zenon DEF InHand
  <2>6. CASE InHand(c, s, n)
    <3>1. More
      BY <2>1, <2>3, <2>4, <2>6, Zenon DEF InHand
    <3> QED
      BY <2>5, <2>6, <3>1, Zenon
  <2>7. CASE ~InHand(c, s, n)
    <3>1. handled'[s][n] = handled[s][n]
      BY <2>1, <2>3, <2>7, Zenon DEF InHand
    <3> QED
      BY <2>5, <3>1, Zenon
  <2> QED
    BY <2>6, <2>7, Zenon
<1>5. ASSUME ~(\E c \in Channels, r \in Sources : Receive(c, r)),
             ~(\E c \in Channels : Discard(c)),
             ~(\E c \in Channels : Take(c)),
             ~(\E c \in Channels, mark \in BOOLEAN : Handle(c, mark))
      PROVE  UNCHANGED <<hand, handled>>
  BY <1>5, NextIsSteps, Zenon DEF Steps, Produce, Send, TimePasses, Disconnect,
     NewPrimary, Close, AckBegin, AckApplied, AckReplied, AckFailed, Expire
<1> QED
  BY <1>1, <1>2, <1>3, <1>4, <1>5, <1>a, Zenon

(* A message that passes the duplicate check is not an event taken before. *)
LEMMA NewIsNew ==
  ASSUME TypeOK, Recognised, NEW c \in Channels, NEW s \in Sources,
         NEW n \in Seqs, ~isDuplicate(s, n), hand[c].stage = "received",
         hand[c].src = s, hand[c].seq = n
  PROVE  ~Taken(s, n)
<1> SUFFICES ASSUME Taken(s, n) PROVE FALSE
  BY Zenon
<1>1. ~(m_eventidmap[s].tracked /\ n <= m_eventidmap[s].seq)
  BY Zenon DEF isDuplicate
<1>2. Settled(s, n)
  BY <1>1, Zenon DEF Recognised, Over
<1>3. n > n
  BY <1>2, Zenon DEF Settled
<1>4. n \in Nat
  BY SeqsType, Zenon
<1> QED
  BY <1>3, <1>4

LEMMA TakenBefore ==
  ASSUME TypeOK, [Next]_vars, NEW s \in Sources, NEW n \in Seqs, Taken(s, n)'
  PROVE  \/ Taken(s, n)
         \/ \E c \in Channels :
              /\ Take(c) /\ ~isDuplicate(s, n)
              /\ hand[c].stage = "received"
              /\ hand[c].src = s /\ hand[c].seq = n
<1>1. CASE handled'[s][n] > 0
  <2>1. \/ handled'[s][n] = handled[s][n]
        \/ \E d \in Channels : InHand(d, s, n)
    BY TakenStep, Zenon
  <2> QED
    BY <1>1, <2>1, Zenon DEF Taken
<1>2. CASE \E c \in Channels : InHand(c, s, n)'
  <2> PICK c \in Channels : InHand(c, s, n)'
    BY <1>2, Zenon
  <2>1. \/ InHand(c, s, n)
        \/ /\ Take(c) /\ ~isDuplicate(s, n)
           /\ hand[c].stage = "received"
           /\ hand[c].src = s /\ hand[c].seq = n
    BY TakenStep, Zenon
  <2> QED
    BY <2>1, Zenon DEF Taken
<1> QED
  BY <1>1, <1>2, Zenon DEF Taken

LEMMA HandledOnceStep ==
  ASSUME TypeOK, Recognised, OneHand, HandledOnce, [Next]_vars
  PROVE  (OneHand /\ HandledOnce)'
<1>n. ASSUME NEW s \in Sources, NEW n \in Seqs, NEW c \in Channels,
             InHand(c, s, n)'
      PROVE  \/ InHand(c, s, n) /\ handled'[s][n] = handled[s][n]
             \/ /\ ~Taken(s, n) /\ handled'[s][n] = handled[s][n]
                /\ \A d \in Channels : d # c => hand'[d] = hand[d]
  <2>1. ~ (\E d \in Channels :
             d # c /\ InHand(c, s, n) /\ InHand(d, s, n))
    BY Zenon DEF OneHand
  <2>2. \/ InHand(c, s, n) /\ handled'[s][n] = handled[s][n]
        \/ /\ ~isDuplicate(s, n)
           /\ hand[c].stage = "received" /\ hand[c].src = s
           /\ hand[c].seq = n
           /\ UNCHANGED handled
           /\ \A d \in Channels : d # c => hand'[d] = hand[d]
    BY <1>n, <2>1, TakenStep, Zenon
  <2> QED
    BY <2>2, NewIsNew, Zenon
<1>1. ASSUME NEW s \in Sources, NEW n \in Seqs, NEW c \in Channels,
             NEW d \in Channels, InHand(c, s, n)', InHand(d, s, n)', c # d
      PROVE  FALSE
  <2>1. InHand(c, s, n) \/ (~Taken(s, n) /\ hand'[d] = hand[d])
    BY <1>n, <1>1, Zenon
  <2>2. InHand(d, s, n) \/ (~Taken(s, n) /\ hand'[c] = hand[c])
    BY <1>n, <1>1, Zenon
  <2>3. ~Taken(s, n) => ~InHand(c, s, n) /\ ~InHand(d, s, n)
    BY Zenon DEF Taken
  <2>4. hand'[d] = hand[d] => InHand(d, s, n)
    BY <1>1, Zenon DEF InHand
  <2>5. hand'[c] = hand[c] => InHand(c, s, n)
    BY <1>1, Zenon DEF InHand
  <2>6. InHand(c, s, n) /\ InHand(d, s, n)
    BY <2>1, <2>2, <2>3, <2>4, <2>5, Zenon
  <2> QED
    BY <2>6, <1>1, Zenon DEF OneHand
<1>2. ASSUME NEW s \in Sources, NEW n \in Seqs
      PROVE  handled'[s][n] <= 1
  <2>1. handled[s][n] \in Nat /\ handled[s][n] <= 1
    BY Zenon DEF TypeOK, HandledOnce
  <2>2. \/ handled'[s][n] = handled[s][n]
        \/ /\ handled'[s][n] = handled[s][n] + 1
           /\ \E d \in Channels : InHand(d, s, n)
    BY TakenStep, Zenon
  <2>3. handled[s][n] = 1 => ~ (\E d \in Channels : InHand(d, s, n))
    BY Zenon DEF HandledOnce
  <2> QED
    BY <2>1, <2>2, <2>3
<1>3. ASSUME NEW s \in Sources, NEW n \in Seqs, NEW c \in Channels,
             handled'[s][n] = 1, InHand(c, s, n)'
      PROVE  FALSE
  <2>1. \/ InHand(c, s, n) /\ handled[s][n] = 1
        \/ ~Taken(s, n) /\ handled[s][n] = 1
    BY <1>n, <1>3, Zenon
  <2>2. handled[s][n] = 1 => Taken(s, n)
    BY DEF Taken
  <2> QED
    BY <2>1, <2>2, Zenon DEF HandledOnce
<1>4. OneHand'
  BY <1>1, Zenon DEF OneHand
<1>5. HandledOnce'
  BY <1>2, <1>3, Zenon DEF HandledOnce
<1> QED
  BY <1>4, <1>5, Zenon

LEMMA RecognisedStep ==
  ASSUME TypeOK, AckInv, WireInv, BoundInv, LateInv, Recognised, [Next]_vars
  PROVE  Recognised'
<1> SUFFICES ASSUME NEW s \in Sources, NEW n \in Seqs, Taken(s, n)'
             PROVE  \/ m_eventidmap'[s].tracked /\ n <= m_eventidmap'[s].seq
                    \/ Over(s, n)'
  BY Zenon DEF Recognised
<1>t. m_eventidmap[s] \in Tracks
  BY Zenon DEF TypeOK
<1>u. m_eventidmap'[s] \in Tracks
  BY TypeStep, Zenon DEF TypeOK
<1>q. m_eventidmap[s].seq \in Seqs /\ m_eventidmap[s].seq \in Nat /\ n \in Nat
  BY <1>t, SeqsType, Zenon DEF Tracks
<1>r. m_eventidmap'[s].seq \in Nat
  BY <1>u, SeqsType, Zenon DEF Tracks
<1>1. CASE Taken(s, n) /\ m_eventidmap[s].tracked /\ n <= m_eventidmap[s].seq
  <2>1. CASE /\ m_eventidmap'[s].tracked = m_eventidmap[s].tracked
             /\ m_eventidmap'[s].seq = m_eventidmap[s].seq
    BY <1>1, <2>1, Zenon
  <2>2. CASE /\ m_eventidmap'[s].tracked
             /\ m_eventidmap[s].seq < m_eventidmap'[s].seq
    <3>1. n <= m_eventidmap'[s].seq
      BY <1>1, <2>2, <1>q, <1>r
    <3> QED
      BY <2>2, <3>1, Zenon
  <2>3. CASE Expire /\ s \in Expired(m_HAenabled)
    <3>1. /\ Settled(s, m_eventidmap[s].seq)
          /\ ack.pc = "expire"
          /\ m_HAenabled => m_eventidmap[s].acked
      BY <2>3, Zenon DEF LateInv, Expire, Expired
    <3>2. m_HAenabled => m_eventidmap[s].seq <= confirmed[s]
      BY <3>1, <1>1, Zenon DEF AckInv
    <3>3. m_eventidmap[s].seq <= made[s]
      BY Zenon DEF BoundInv
    <3>4. made[s] \in Nat /\ confirmed[s] \in Nat
      BY ServersGrow, Zenon
    <3>5. (m_HAenabled => n <= confirmed[s]) /\ n <= made[s]
      BY <1>1, <1>q, <3>2, <3>3, <3>4
    <3>6. Settled(s, n)
      BY <1>1, <1>q, <3>1, SettledDown, Zenon
    <3> QED
      BY <3>5, <3>6, OverKept, Zenon DEF Over
  <2> QED
    BY <2>1, <2>2, <2>3, <1>1, MapStep, Zenon
<1>2. CASE Taken(s, n) /\ Over(s, n)
  BY <1>2, OverKept, Zenon
<1>3. ASSUME NEW c \in Channels, Take(c), ~isDuplicate(s, n),
             hand[c].src = s, hand[c].seq = n
      PROVE  m_eventidmap'[s].tracked /\ n <= m_eventidmap'[s].seq
  <2>1. m_eventidmap'[s] = [tracked |-> TRUE, seq |-> n, acked |-> FALSE]
    BY <1>3, Zenon DEF Take, checkDupAndAdd, PutSequence, TypeOK
  <2>2. m_eventidmap'[s].tracked /\ m_eventidmap'[s].seq = n
    BY <2>1
  <2> QED
    BY <2>2, <1>q
<1> QED
  BY <1>1, <1>2, <1>3, TakenBefore DEF Recognised

LEMMA OnceInit == Init => Recognised /\ OneHand /\ HandledOnce /\ LateInv
<1> SUFFICES ASSUME Init PROVE Recognised /\ OneHand /\ HandledOnce /\ LateInv
  BY Zenon
<1>1. \A s \in Sources, n \in Seqs : handled[s][n] = 0
  BY Zenon DEF Init
<1>2. \A s \in Sources, n \in Seqs, c \in Channels : ~InHand(c, s, n)
  BY NoHandType, Zenon DEF Init, InHand
<1>3. \A s \in Sources, n \in Seqs : ~Taken(s, n)
  BY <1>1, <1>2 DEF Taken
<1>4. Recognised
  BY <1>3, Zenon DEF Recognised
<1>5. OneHand
  BY <1>2, Zenon DEF OneHand
<1>6. HandledOnce
  BY <1>1 DEF HandledOnce
<1>7. LateInv
  BY Zenon DEF Init, LateInv
<1> QED
  BY <1>4, <1>5, <1>6, <1>7, Zenon

(* No event is applied twice, whatever fails over, is sent again, is       *)
(* handled slowly or is forgotten (TcrEndpoint::receiveNotification,       *)
(* EventIdMap), if no outage outlasts the tracking of a source.            *)
THEOREM AppliedOnce == ASSUME ShortOutages PROVE Spec => []HandledOnce
<1>1. Init => Recognised /\ OneHand /\ HandledOnce /\ LateInv
  BY OnceInit, Zenon
<1>2. TypeOK /\ AckInv /\ WireInv /\ BoundInv
        /\ (Recognised /\ OneHand /\ HandledOnce /\ LateInv) /\ [Next]_vars
        => (Recognised /\ OneHand /\ HandledOnce /\ LateInv)'
  BY LateStep, RecognisedStep, HandledOnceStep, Zenon
<1> QED
  BY <1>1, <1>2, InvCorrect, PTL DEF Spec

-----------------------------------------------------------------------------
(* The client takes the events of a source without a gap.                  *)

MapFull == \A s \in Sources :
  m_eventidmap[s].tracked => AllTaken(s, m_eventidmap[s].seq)

AckFull == \A s \in Sources :
  AllTaken(s, confirmed[s]) /\ AllTaken(s, ack.entries[s])

HandFull == \A c \in Channels :
  hand[c].stage # "none" => AllTaken(hand[c].src, hand[c].seq - 1)

WireFull == \A c \in Channels, s \in Sources : open[c] =>
  \/ AllTaken(s, got[c][s])
  \/ /\ hand[c].stage = "received" /\ hand[c].src = s
     /\ hand[c].seq = got[c][s]

LEMMA TakenKept ==
  ASSUME TypeOK, [Next]_vars, NEW s \in Sources, NEW n \in Seqs, Taken(s, n)
  PROVE  Taken(s, n)'
<1> USE DEF servers, channels, vars
<1>t. hand \in [Channels -> Hands] /\ handled \in [Sources -> [Seqs -> Nat]]
  BY Zenon DEF TypeOK
<1>q. handled[s][n] \in Nat
  BY <1>t, Zenon
<1>1. CASE handled[s][n] > 0
  <2>1. \/ handled'[s][n] = handled[s][n]
        \/ handled'[s][n] = handled[s][n] + 1
    BY TakenStep, Zenon
  <2>2. handled'[s][n] > 0
    BY <1>1, <1>q, <2>1
  <2> QED
    BY <2>2, Zenon DEF Taken
<1>2. ASSUME NEW d \in Channels, InHand(d, s, n) PROVE Taken(s, n)'
  <2>s. hand[d].stage = "taken" /\ hand[d].src = s /\ hand[d].seq = n
    BY <1>2, Zenon DEF InHand
  <2>a. ASSUME hand'[d] = hand[d] PROVE Taken(s, n)'
    BY <2>a, <1>2, Zenon DEF Taken, InHand
  <2>1. CASE \E c \in Channels, r \in Sources : Receive(c, r)
    <3> PICK c \in Channels, r \in Sources : Receive(c, r)
      BY <2>1, Zenon
    <3>1. c # d
      BY <2>s, Zenon DEF Receive, Idle
    <3> QED
      BY <3>1, <2>a, <1>t, Zenon DEF Receive
  <2>2. CASE \E c \in Channels : Discard(c)
    <3> PICK c \in Channels : Discard(c)
      BY <2>2, Zenon
    <3>1. c # d
      BY <2>s, Zenon DEF Discard
    <3> QED
      BY <3>1, <2>a, <1>t, Zenon DEF Discard
  <2>3. CASE \E c \in Channels : Take(c)
    <3> PICK c \in Channels : Take(c)
      BY <2>3, Zenon
    <3>1. c # d
      BY <2>s, Zenon DEF Take
    <3> QED
      BY <3>1, <2>a, <1>t, Zenon DEF Take
  <2>4. CASE \E c \in Channels, mark \in BOOLEAN : Handle(c, mark)
    <3> PICK c \in Channels, mark \in BOOLEAN : Handle(c, mark)
      BY <2>4, Zenon
    <3>1. CASE c # d
      BY <3>1, <2>a, <1>t, Zenon DEF Handle
    <3>2. CASE c = d
      <4>1. handled'[s][n] = handled[s][n] + 1
        BY <3>2, <2>s, <1>t DEF Handle
      <4>2. handled'[s][n] > 0
        BY <4>1, <1>q
      <4> QED
        BY <4>2, Zenon DEF Taken
    <3> QED
      BY <3>1, <3>2, Zenon
  <2>5. ASSUME ~(\E c \in Channels, r \in Sources : Receive(c, r)),
               ~(\E c \in Channels : Discard(c)),
               ~(\E c \in Channels : Take(c)),
               ~(\E c \in Channels, mark \in BOOLEAN : Handle(c, mark))
        PROVE  hand' = hand
    BY <2>5, NextIsSteps, Zenon DEF Steps, Produce, Send, TimePasses, Disconnect,
       NewPrimary, Close, AckBegin, AckApplied, AckReplied, AckFailed, Expire
  <2> QED
    BY <2>1, <2>2, <2>3, <2>4, <2>5, <2>a, Zenon
<1> QED
  BY <1>1, <1>2, Zenon DEF Taken

LEMMA AllTakenKept ==
  ASSUME TypeOK, [Next]_vars, NEW s \in Sources, NEW k \in Seqs, AllTaken(s, k)
  PROVE  AllTaken(s, k)'
<1>1. \A m \in 1..k : m \in Seqs
  BY EventsAssumption DEF Seqs
<1>2. \A m \in 1..k : Taken(s, m)'
  BY <1>1, TakenKept, Zenon DEF AllTaken
<1> QED
  BY <1>2, Zenon DEF AllTaken

(* The event after an unbroken run makes it one longer.                    *)
LEMMA AllTakenMore ==
  ASSUME TypeOK, [Next]_vars, NEW s \in Sources, NEW k \in Seqs, k > 0,
         AllTaken(s, k - 1), Taken(s, k)'
  PROVE  AllTaken(s, k)'
<1>1. k \in Nat
  BY SeqsType, Zenon
<1>2. \A m \in 1..k : m \in Seqs /\ (m = k \/ m \in 1..(k - 1))
  BY <1>1, EventsAssumption DEF Seqs
<1>3. \A m \in 1..k : Taken(s, m)'
  BY <1>2, TakenKept, Zenon DEF AllTaken
<1> QED
  BY <1>3, Zenon DEF AllTaken

LEMMA AllTakenDown ==
  ASSUME NEW s \in Sources, NEW k \in Seqs, NEW j \in Seqs, j <= k,
         AllTaken(s, k)
  PROVE  AllTaken(s, j)
<1>1. \A m \in 1..j : m \in 1..k
  BY SeqsType
<1> QED
  BY <1>1, Zenon DEF AllTaken

(* When the thread of a channel records the event in its hand, the event   *)
(* and all before it are taken.                                            *)
LEMMA RecordedFull ==
  ASSUME TypeOK, WireInv, HandFull, [Next]_vars, NEW c \in Channels,
         NEW r \in Sources, NEW n \in Seqs, hand[c].src = r, hand[c].seq = n,
         \/ Take(c) /\ ~isDuplicate(r, n)
         \/ \E mark \in BOOLEAN : Handle(c, mark)
  PROVE  AllTaken(r, n)'
<1>t. hand \in [Channels -> Hands]
  BY Zenon DEF TypeOK
<1>1. hand[c].stage # "none"
  BY Zenon DEF Take, Handle
<1>2. n > 0 /\ AllTaken(r, n - 1)
  BY <1>1, Zenon DEF WireInv, HandFull
<1>3. Taken(r, n)'
  <2>1. CASE Take(c) /\ ~isDuplicate(r, n)
    <3>1. hand'[c] = [hand[c] EXCEPT !.stage = "taken"]
      BY <2>1, <1>t, Zenon DEF Take
    <3>2. hand'[c].stage = "taken" /\ hand'[c].src = r /\ hand'[c].seq = n
      BY <3>1, <1>t, Zenon DEF Hands
    <3> QED
      BY <3>2, Zenon DEF Taken, InHand
  <2>2. CASE \E mark \in BOOLEAN : Handle(c, mark)
    <3>1. Taken(r, n)
      BY <2>2, Zenon DEF Handle, Taken, InHand
    <3> QED
      BY <3>1, TakenKept, Zenon
  <2> QED
    BY <2>1, <2>2, Zenon
<1> QED
  BY <1>2, <1>3, AllTakenMore, Zenon

LEMMA MapFullStep ==
  ASSUME TypeOK, WireInv, MapFull, HandFull, [Next]_vars
  PROVE  MapFull'
<1> USE DEF servers, channels, vars
<1> SUFFICES ASSUME NEW s \in Sources, m_eventidmap'[s].tracked
             PROVE  AllTaken(s, m_eventidmap[s].seq)'
  BY Zenon DEF MapFull
<1>t. m_eventidmap[s] \in Tracks /\ m_eventidmap \in [Sources -> Tracks]
      /\ hand \in [Channels -> Hands]
  BY Zenon DEF TypeOK
<1>a. ASSUME m_eventidmap'[s].seq = m_eventidmap[s].seq, m_eventidmap[s].tracked
      PROVE  AllTaken(s, m_eventidmap[s].seq)'
  <2> PICK k \in Seqs : k = m_eventidmap[s].seq
    BY <1>t, Zenon DEF Tracks
  <2>1. AllTaken(s, k)'
    BY <1>a, AllTakenKept, Zenon DEF MapFull
  <2> QED
    BY <2>1, <1>a, Zenon DEF AllTaken
<1>d. ASSUME NEW r \in Sources, NEW n \in Seqs, checkDupAndAdd(r, n),
             ~isDuplicate(r, n) => AllTaken(r, n)'
      PROVE  AllTaken(s, m_eventidmap[s].seq)'
  <2>1. CASE isDuplicate(r, n) \/ r # s
    BY <2>1, <1>a, <1>d, <1>t, Zenon DEF checkDupAndAdd, PutSequence
  <2>2. CASE ~isDuplicate(r, n) /\ r = s
    <3>1. m_eventidmap'[s] = [tracked |-> TRUE, seq |-> n, acked |-> FALSE]
      BY <2>2, <1>d, <1>t, Zenon DEF checkDupAndAdd, PutSequence
    <3>2. m_eventidmap'[s].seq = n
      BY <3>1
    <3> QED
      BY <2>2, <1>d, <3>2, Zenon DEF AllTaken
  <2> QED
    BY <2>1, <2>2, Zenon
<1>1. ASSUME NEW c \in Channels,
             Take(c) \/ \E mark \in BOOLEAN : Handle(c, mark)
      PROVE  AllTaken(s, m_eventidmap[s].seq)'
  <2> PICK r \in Sources, n \in Seqs : hand[c].src = r /\ hand[c].seq = n
    BY <1>t, Zenon DEF Hands
  <2>1. CASE checkDupAndAdd(r, n)
    <3>1. ~isDuplicate(r, n) => AllTaken(r, n)'
      BY <1>1, RecordedFull, Zenon
    <3> QED
      BY <2>1, <3>1, <1>d, Zenon
  <2>2. CASE UNCHANGED m_eventidmap
    BY <2>2, <1>a, Zenon
  <2> QED
    BY <1>1, <2>1, <2>2, Zenon DEF Take, Handle
<1>2. ASSUME \A c \in Channels :
               ~Take(c) /\ \A mark \in BOOLEAN : ~Handle(c, mark)
      PROVE  m_eventidmap'[s].seq = m_eventidmap[s].seq /\ m_eventidmap[s].tracked
  <2>1. CASE \E due \in BOOLEAN : AckBegin(due)
    <3>1. m_eventidmap' = m_eventidmap \/ SetAcked
      BY <2>1, Zenon DEF AckBegin
    <3>2. m_eventidmap'[s] = m_eventidmap[s]
          \/ m_eventidmap'[s] = [m_eventidmap[s] EXCEPT !.acked = TRUE]
      BY <3>1, Zenon DEF SetAcked
    <3> QED
      BY <3>2, <1>t, Zenon DEF Tracks
  <2>2. CASE AckFailed
    <3>1. m_eventidmap'[s] = m_eventidmap[s]
          \/ m_eventidmap'[s] = [m_eventidmap[s] EXCEPT !.acked = FALSE]
      BY <2>2, Zenon DEF AckFailed, clearAckedFlags
    <3> QED
      BY <3>1, <1>t, Zenon DEF Tracks
  <2>3. CASE Expire
    <3>1. m_eventidmap'[s] = IF s \in Expired(m_HAenabled) THEN Untracked
                             ELSE m_eventidmap[s]
      BY <2>3, Zenon DEF Expire, expire
    <3>2. Untracked.tracked = FALSE
      BY Zenon DEF Untracked
    <3> QED
      BY <3>1, <3>2, Zenon
  <2>4. ASSUME ~(\E due \in BOOLEAN : AckBegin(due)), ~AckFailed, ~Expire
        PROVE  m_eventidmap' = m_eventidmap
    BY <2>4, <1>2, NextIsSteps, Zenon DEF Steps, Produce, Send, TimePasses,
       Disconnect, NewPrimary, Close, Receive, Discard, AckApplied, AckReplied
  <2> QED
    BY <2>1, <2>2, <2>3, <2>4, Zenon
<1> QED
  BY <1>1, <1>2, <1>a, Zenon

LEMMA AckFullStep ==
  ASSUME TypeOK, MapFull, AckFull, [Next]_vars
  PROVE  AckFull'
<1> USE DEF servers, channels, vars
<1> SUFFICES ASSUME NEW s \in Sources
             PROVE  /\ AllTaken(s, confirmed[s])'
                    /\ AllTaken(s, ack.entries[s])'
  BY Zenon DEF AckFull
<1>t. /\ confirmed[s] \in Seqs /\ ack.entries[s] \in Seqs
      /\ m_eventidmap[s] \in Tracks /\ ack \in AckStates
  BY Zenon DEF TypeOK, AckStates
<1>k. ASSUME NEW k \in Seqs, AllTaken(s, k)
      PROVE  AllTaken(s, k)'
  BY <1>k, AllTakenKept, Zenon
<1>1. confirmed'[s] = confirmed[s] \/ confirmed'[s] = ack.entries[s]
  <2>1. CASE AckApplied
    BY <2>1, Zenon DEF AckApplied
  <2>2. CASE ~AckApplied
    BY <2>2, NextIsSteps, Zenon DEF Steps, Produce, Send, TimePasses, Disconnect,
       NewPrimary, Close, Receive, Discard, Take, Handle, AckBegin, AckReplied,
       AckFailed, Expire
  <2> QED
    BY <2>1, <2>2, Zenon
<1>2. \/ ack'.entries[s] = ack.entries[s]
      \/ ack'.entries[s] = 0
      \/ m_eventidmap[s].tracked /\ ack'.entries[s] = m_eventidmap[s].seq
  <2>1. CASE \E due \in BOOLEAN : AckBegin(due)
    <3>1. \/ ack' = [pc |-> "sending", entries |-> getUnAcked]
          \/ ack' = [ack EXCEPT !.pc = "expire"]
      BY <2>1, Zenon DEF AckBegin
    <3>2. ack'.entries = getUnAcked \/ ack'.entries = ack.entries
      BY <3>1, <1>t DEF AckStates
    <3> QED
      BY <3>2, Zenon DEF getUnAcked, UnAcked
  <2>2. CASE AckReplied \/ AckFailed
    <3>1. ack' = [pc |-> "expire", entries |-> NoEntries]
      BY <2>2, Zenon DEF AckReplied, AckFailed
    <3> QED
      BY <3>1, Zenon DEF NoEntries
  <2>3. CASE AckApplied \/ Expire
    <3>1. ack' = [ack EXCEPT !.pc = "applied"] \/ ack' = [ack EXCEPT !.pc = "idle"]
      BY <2>3, Zenon DEF AckApplied, Expire
    <3>2. ack'.entries = ack.entries
      BY <3>1, <1>t, Zenon DEF AckStates
    <3> QED
      BY <3>2, Zenon
  <2>4. ASSUME ~(\E due \in BOOLEAN : AckBegin(due)), ~AckApplied, ~AckReplied,
               ~AckFailed, ~Expire
        PROVE  ack' = ack
    BY <2>4, NextIsSteps, Zenon DEF Steps, Produce, Send, TimePasses, Disconnect,
       NewPrimary, Close, Receive, Discard, Take, Handle
  <2> QED
    BY <2>1, <2>2, <2>3, <2>4, Zenon
<1>3. AllTaken(s, 0)
  BY DEF AllTaken
<1>4. AllTaken(s, confirmed[s])'
  <2> PICK k \in Seqs : k = confirmed'[s] /\ AllTaken(s, k)
    BY <1>1, <1>t, Zenon DEF AckFull
  <2>1. AllTaken(s, k)'
    BY <1>k, Zenon
  <2> QED
    BY <2>1, Zenon DEF AllTaken
<1>5. AllTaken(s, ack.entries[s])'
  <2> PICK k \in Seqs : k = ack'.entries[s] /\ AllTaken(s, k)
    BY <1>2, <1>3, <1>t, SeqsType, Zenon DEF AckFull, MapFull, Tracks
  <2>1. AllTaken(s, k)'
    BY <1>k, Zenon
  <2> QED
    BY <2>1, Zenon DEF AllTaken
<1> QED
  BY <1>4, <1>5, Zenon

LEMMA HandFullStep ==
  ASSUME TypeOK, WireInv, HandFull, WireFull, [Next]_vars
  PROVE  HandFull'
<1> USE DEF servers, channels, vars
<1> SUFFICES ASSUME NEW c \in Channels, hand'[c].stage # "none"
             PROVE  AllTaken(hand[c].src, hand[c].seq - 1)'
  BY Zenon DEF HandFull
<1>t. hand \in [Channels -> Hands] /\ got \in [Channels -> [Sources -> Seqs]]
  BY Zenon DEF TypeOK
<1>a. ASSUME hand'[c].src = hand[c].src, hand'[c].seq = hand[c].seq,
             hand[c].stage # "none"
      PROVE  AllTaken(hand[c].src, hand[c].seq - 1)'
  <2> PICK r \in Sources, n \in Seqs : hand[c].src = r /\ hand[c].seq = n
    BY <1>t, Zenon DEF Hands
  <2>1. n > 0 /\ AllTaken(r, n - 1)
    BY <1>a, Zenon DEF WireInv, HandFull
  <2>2. n - 1 \in Seqs
    BY <2>1, EventsAssumption DEF Seqs
  <2>3. AllTaken(r, n - 1)'
    BY <2>1, <2>2, AllTakenKept, Zenon
  <2> QED
    BY <2>3, <1>a, Zenon DEF AllTaken
<1>1. CASE \E d \in Channels, r \in Sources : Receive(d, r)
  <2> PICK d \in Channels, r \in Sources : Receive(d, r)
    BY <1>1, Zenon
  <2>1. CASE c = d
    <3> PICK k \in Seqs : k = got[c][r]
      BY <1>t, Zenon
    <3>1. hand'[c] = [stage |-> "received", src |-> r, seq |-> k + 1]
      BY <2>1, <1>t, Zenon DEF Receive
    <3>2. hand'[c].src = r /\ hand'[c].seq - 1 = k
      BY <3>1, SeqsType
    <3>3. AllTaken(r, k)
      BY <2>1, Zenon DEF Receive, Idle, WireFull
    <3>4. AllTaken(r, k)'
      BY <3>3, AllTakenKept, Zenon
    <3> QED
      BY <3>2, <3>4, Zenon DEF AllTaken
  <2>2. CASE c # d
    BY <2>2, <1>a, <1>t, Zenon DEF Receive
  <2> QED
    BY <2>1, <2>2, Zenon
<1>2. CASE \E d \in Channels : Take(d)
  <2> PICK d \in Channels : Take(d)
    BY <1>2, Zenon
  <2>1. CASE c = d
    <3>1. \/ hand'[c] = NoHand
          \/ hand'[c] = [hand[c] EXCEPT !.stage = "taken"]
      BY <2>1, <1>t, Zenon DEF Take
    <3>2. hand'[c] = [hand[c] EXCEPT !.stage = "taken"]
      BY <3>1, NoHandType, Zenon
    <3>3. hand'[c].src = hand[c].src /\ hand'[c].seq = hand[c].seq
      BY <3>2, <1>t DEF Hands
    <3>4. hand[c].stage # "none"
      BY <2>1, Zenon DEF Take
    <3> QED
      BY <3>3, <3>4, <1>a, Zenon
  <2>2. CASE c # d
    BY <2>2, <1>a, <1>t, Zenon DEF Take
  <2> QED
    BY <2>1, <2>2, Zenon
<1>3. CASE \E d \in Channels : Discard(d)
  BY <1>3, <1>a, <1>t, NoHandType, Zenon DEF Discard
<1>4. CASE \E d \in Channels, mark \in BOOLEAN : Handle(d, mark)
  BY <1>4, <1>a, <1>t, NoHandType, Zenon DEF Handle
<1>5. ASSUME ~(\E d \in Channels, r \in Sources : Receive(d, r)),
             ~(\E d \in Channels : Discard(d)),
             ~(\E d \in Channels : Take(d)),
             ~(\E d \in Channels, mark \in BOOLEAN : Handle(d, mark))
      PROVE  hand' = hand
  BY <1>5, NextIsSteps, Zenon DEF Steps, Produce, Send, TimePasses, Disconnect,
     NewPrimary, Close, AckBegin, AckApplied, AckReplied, AckFailed, Expire
<1> QED
  BY <1>1, <1>2, <1>3, <1>4, <1>5, <1>a, Zenon

LEMMA WireFullStep ==
  ASSUME m_HAenabled, TypeOK, WireInv, MapFull, AckFull, HandFull, WireFull,
         [Next]_vars
  PROVE  WireFull'
<1> USE DEF servers, channels, vars
<1> DEFINE Waiting(c, s) == /\ hand[c].stage = "received" /\ hand[c].src = s
                            /\ hand[c].seq = got[c][s]
<1> SUFFICES ASSUME NEW c \in Channels, NEW s \in Sources, open'[c]
             PROVE  AllTaken(s, got[c][s])' \/ Waiting(c, s)'
  BY Zenon DEF WireFull
<1>t. /\ hand \in [Channels -> Hands] /\ got \in [Channels -> [Sources -> Seqs]]
      /\ open \in [Channels -> BOOLEAN] /\ primary \in Channels
      /\ m_eventidmap[s] \in Tracks
  BY Zenon DEF TypeOK
<1>k. ASSUME got'[c][s] = got[c][s], AllTaken(s, got[c][s])
      PROVE  AllTaken(s, got[c][s])'
  <2> PICK k \in Seqs : k = got[c][s]
    BY <1>t, Zenon
  <2>1. AllTaken(s, k)'
    BY <1>k, AllTakenKept, Zenon
  <2> QED
    BY <2>1, <1>k, Zenon DEF AllTaken
<1>a. ASSUME got'[c] = got[c], open[c], hand'[c] = hand[c]
      PROVE  AllTaken(s, got[c][s])' \/ Waiting(c, s)'
  <2>1. CASE AllTaken(s, got[c][s])
    BY <2>1, <1>k, <1>a, Zenon
  <2>2. CASE Waiting(c, s)
    BY <2>2, <1>a, Zenon
  <2> QED
    BY <2>1, <2>2, <1>a, Zenon DEF WireFull
<1>1. CASE NewPrimary
  <2>1. primary + 1 \in Channels
    BY <1>1, <1>t, ChannelNext, Zenon DEF NewPrimary
  <2>2. CASE c = primary + 1
    <3> PICK k \in Seqs : k = confirmed[s]
      BY Zenon DEF TypeOK
    <3>1. got'[c][s] = k
      BY <1>1, <1>t, <2>1, <2>2, Zenon DEF NewPrimary, FirstOf
    <3>2. AllTaken(s, k)'
      BY AllTakenKept, Zenon DEF AckFull
    <3> QED
      BY <3>1, <3>2, Zenon DEF AllTaken
  <2>3. CASE c # primary + 1
    BY <1>1, <1>a, <1>t, <2>3, Zenon DEF NewPrimary
  <2> QED
    BY <2>2, <2>3, Zenon
<1>2. CASE \E d \in Channels : Close(d)
  <2>1. open[c]
    BY <1>2, <1>t, Zenon DEF Close
  <2> QED
    BY <1>2, <2>1, <1>a, Zenon DEF Close
<1>3. CASE \E d \in Channels, r \in Sources : Receive(d, r)
  <2> PICK d \in Channels, r \in Sources : Receive(d, r)
    BY <1>3, Zenon
  <2>1. CASE c # d
    BY <2>1, <1>a, <1>t, Zenon DEF Receive
  <2>2. CASE c = d /\ r # s
    <3>1. got'[c][s] = got[c][s]
      BY <2>2, <1>t, Zenon DEF Receive
    <3>2. AllTaken(s, got[c][s])
      BY <2>2, Zenon DEF Receive, Idle, WireFull
    <3> QED
      BY <3>1, <3>2, <1>k, Zenon
  <2>3. CASE c = d /\ r = s
    <3>1. got'[c][s] = got[c][s] + 1
      BY <2>3, <1>t DEF Receive
    <3>2. hand'[c] = [stage |-> "received", src |-> s, seq |-> got[c][s] + 1]
      BY <2>3, <1>t, Zenon DEF Receive
    <3> QED
      BY <3>1, <3>2
  <2> QED
    BY <2>1, <2>2, <2>3, Zenon
<1>4. CASE \E d \in Channels : Discard(d)
  <2> PICK d \in Channels : Discard(d)
    BY <1>4, Zenon
  <2>1. c # d
    BY Zenon DEF Discard
  <2> QED
    BY <2>1, <1>a, <1>t, Zenon DEF Discard
<1>5. CASE \E d \in Channels : Take(d)
  <2> PICK d \in Channels : Take(d)
    BY <1>5, Zenon
  <2>1. CASE c # d
    BY <2>1, <1>a, <1>t, Zenon DEF Take
  <2>2. CASE c = d /\ AllTaken(s, got[c][s])
    BY <2>2, <1>k, Zenon DEF Take
  <2>3. CASE c = d /\ Waiting(c, s)
    <3> PICK n \in Seqs : n = got[c][s]
      BY <1>t, Zenon
    <3>1. hand[c].src = s /\ hand[c].seq = n /\ got' = got
      BY <2>3, Zenon DEF Take
    <3>2. AllTaken(s, n)'
      <4>1. CASE isDuplicate(s, n)
        <5>1. m_eventidmap[s].tracked /\ n <= m_eventidmap[s].seq
          BY <4>1, Zenon DEF isDuplicate
        <5>2. m_eventidmap[s].seq \in Seqs /\ AllTaken(s, m_eventidmap[s].seq)
          BY <5>1, <1>t, Zenon DEF MapFull, Tracks
        <5>3. AllTaken(s, n)
          BY <5>1, <5>2, AllTakenDown, Zenon
        <5> QED
          BY <5>3, AllTakenKept, Zenon
      <4>2. CASE ~isDuplicate(s, n)
        BY <4>2, <3>1, <2>3, RecordedFull, Zenon
      <4> QED
        BY <4>1, <4>2, Zenon
    <3> QED
      BY <3>1, <3>2, Zenon DEF AllTaken
  <2>4. open[c]
    BY Zenon DEF Take
  <2> QED
    BY <2>1, <2>2, <2>3, <2>4, Zenon DEF WireFull
<1>6. CASE \E d \in Channels, mark \in BOOLEAN : Handle(d, mark)
  <2> PICK d \in Channels, mark \in BOOLEAN : Handle(d, mark)
    BY <1>6, Zenon
  <2>1. CASE c # d
    BY <2>1, <1>a, <1>t, Zenon DEF Handle
  <2>2. CASE c = d
    <3>1. open[c] /\ hand[c].stage = "taken" /\ got' = got
      BY <2>2, Zenon DEF Handle
    <3> QED
      BY <3>1, <1>k, Zenon DEF WireFull
  <2> QED
    BY <2>1, <2>2, Zenon
<1>7. ASSUME ~NewPrimary, ~(\E d \in Channels : Close(d)),
             ~(\E d \in Channels, r \in Sources : Receive(d, r)),
             ~(\E d \in Channels : Discard(d)),
             ~(\E d \in Channels : Take(d)),
             ~(\E d \in Channels, mark \in BOOLEAN : Handle(d, mark))
      PROVE  UNCHANGED <<got, open, hand>>
  BY <1>7, NextIsSteps, Zenon DEF Steps, Produce, Send, TimePasses, Disconnect,
     AckBegin, AckApplied, AckReplied, AckFailed, Expire
<1> QED
  BY <1>1, <1>2, <1>3, <1>4, <1>5, <1>6, <1>7, <1>a, Zenon

(* Without acknowledgements nothing is confirmed.                          *)
NoGapInv == m_HAenabled => MapFull /\ AckFull /\ HandFull /\ WireFull

LEMMA NoGapInit == Init => NoGapInv
<1> SUFFICES ASSUME Init PROVE NoGapInv
  BY Zenon
<1> USE DEF Init
<1>1. \A s \in Sources : AllTaken(s, 0)
  BY DEF AllTaken
<1>2. MapFull
  BY Zenon DEF MapFull, Untracked
<1>3. AckFull
  BY <1>1, Zenon DEF AckFull, NoEntries
<1>4. HandFull
  BY NoHandType, Zenon DEF HandFull
<1>5. WireFull
  BY <1>1, Zenon DEF WireFull
<1> QED
  BY <1>2, <1>3, <1>4, <1>5, Zenon DEF NoGapInv

LEMMA NoGapStep ==
  TypeOK /\ WireInv /\ NoGapInv /\ [Next]_vars => NoGapInv'
<1> SUFFICES ASSUME TypeOK, WireInv, NoGapInv, [Next]_vars, m_HAenabled'
             PROVE  (MapFull /\ AckFull /\ HandFull /\ WireFull)'
  BY Zenon DEF NoGapInv
<1>1. m_HAenabled' = m_HAenabled
  BY ServersGrow, EventsAssumption, Zenon
<1>2. m_HAenabled /\ MapFull /\ AckFull /\ HandFull /\ WireFull
  BY <1>1, Zenon DEF NoGapInv
<1> QED
  BY <1>2, MapFullStep, AckFullStep, HandFullStep, WireFullStep, Zenon

(* The client never acknowledges an event it has not taken: an             *)
(* acknowledgement covers all earlier events of its source, and the client *)
(* takes them without a gap (getUnAcked, receiveNotification).             *)
THEOREM AcknowledgedTaken == Spec => []ConfirmedWasTaken
<1>1. AckInv /\ TypeOK /\ NoGapInv => ConfirmedWasTaken
  <2> SUFFICES ASSUME AckInv, TypeOK, NoGapInv, NEW s \in Sources,
                      NEW n \in Seqs \ {0}, n <= confirmed[s]
               PROVE  Taken(s, n)
    BY Zenon DEF ConfirmedWasTaken
  <2>1. n \in Nat /\ n # 0 /\ confirmed[s] \in Nat
    BY SeqsType, Zenon DEF TypeOK
  <2>2. m_HAenabled
    BY <2>1 DEF AckInv
  <2>3. AllTaken(s, confirmed[s])
    BY <2>2, Zenon DEF NoGapInv, AckFull
  <2>4. n \in 1..confirmed[s]
    BY <2>1
  <2> QED
    BY <2>3, <2>4, Zenon DEF AllTaken
<1> QED
  BY <1>1, NoGapInit, NoGapStep, InvCorrect, PTL DEF Spec

-----------------------------------------------------------------------------
(***************************************************************************)
(* SubscriptionEvents implements EventDelivery.                            *)
(***************************************************************************)

(* What the invariants say together.                                       *)
OnceInv ==
  /\ TypeOK /\ AckInv /\ WireInv /\ BoundInv
  /\ Recognised /\ OneHand /\ HandledOnce /\ LateInv
  /\ NoGapInv

LEMMA OnceInvCorrect == ASSUME ShortOutages PROVE Spec => []OnceInv
<1>1. Init => Recognised /\ OneHand /\ HandledOnce /\ LateInv
  BY OnceInit, Zenon
<1>2. TypeOK /\ AckInv /\ WireInv /\ BoundInv
        /\ (Recognised /\ OneHand /\ HandledOnce /\ LateInv) /\ [Next]_vars
        => (Recognised /\ OneHand /\ HandledOnce /\ LateInv)'
  BY LateStep, RecognisedStep, HandledOnceStep, Zenon
<1> QED
  BY <1>1, <1>2, NoGapInit, NoGapStep, InvCorrect, PTL DEF Spec, OnceInv

-----------------------------------------------------------------------------

LEMMA BegunIs ==
  ASSUME NEW s \in Sources, NEW n \in 1..MaxEvents
  PROVE  /\ <<s, n>> \in Begun <=> Taken(s, n)
         /\ <<s, n>> \in Begun' <=> Taken(s, n)'
BY DEF Begun

LEMMA NumberIsSeq ==
  /\ \A n \in 1..MaxEvents : n \in Seqs /\ n \in Nat
  /\ \A n \in Seqs : n > 0 => n \in 1..MaxEvents
BY EventsAssumption DEF Seqs

(* Nothing is begun in a step that takes no event.                         *)
LEMMA BegunKept ==
  ASSUME TypeOK, [Next]_vars,
         \A s \in Sources, n \in 1..MaxEvents : Taken(s, n)' => Taken(s, n)
  PROVE  Begun' = Begun
<1>1. \A s \in Sources, n \in 1..MaxEvents : Taken(s, n)' <=> Taken(s, n)
  BY TakenKept, NumberIsSeq, Zenon
<1>2. \A e \in Sources \X (1..MaxEvents) :
        Taken(e[1], e[2])' <=> Taken(e[1], e[2])
  BY <1>1
<1> QED
  BY <1>2, Zenon DEF Begun

LEMMA InitMaps == Init => Delivery!Init
<1> SUFFICES ASSUME Init PROVE Delivery!Init
  BY Zenon
<1>1. \A s \in Sources, n \in Seqs : ~Taken(s, n)
  <2>1. \A s \in Sources, n \in Seqs : ~(handled[s][n] > 0)
    BY DEF Init
  <2> QED
    BY <2>1, NoHandType, Zenon DEF Init, Taken, InHand
<1>2. Begun = {}
  BY <1>1, NumberIsSeq DEF Begun
<1> QED
  BY <1>2, EventsAssumption, Zenon DEF Init, Delivery!Init, Seqs

-----------------------------------------------------------------------------
(* Every step maps to a step of EventDelivery or to none.                  *)

(* An event passes the duplicate check: it is begun, after all before it.  *)
LEMMA TakeBegins ==
  ASSUME OnceInv, [Next]_vars, NEW c \in Channels, Take(c),
         ~isDuplicate(hand[c].src, hand[c].seq)
  PROVE  \E s \in Sources, n \in 1..MaxEvents : Delivery!Begin(s, n)
<1> USE DEF OnceInv
<1>t. hand[c] \in Hands /\ hand[c].stage = "received"
  BY Zenon DEF TypeOK, Take
<1> PICK s \in Sources, n \in Seqs : s = hand[c].src /\ n = hand[c].seq
  BY <1>t, Zenon DEF Hands
<1>1. hand[c].stage # "none"
  BY <1>t
<1>2. n > 0 /\ n <= made[s]
  BY <1>1, Zenon DEF WireInv
<1>3. n \in 1..MaxEvents /\ n \in Nat
  BY <1>2, NumberIsSeq, Zenon
<1>4. ASSUME NEW m \in 1..MaxEvents, <<s, m>> \in Begun PROVE m < n
  <2>1. Taken(s, m) /\ m \in Seqs /\ m \in Nat
    BY <1>4, BegunIs, NumberIsSeq, Zenon
  <2>2. CASE m_eventidmap[s].tracked /\ m <= m_eventidmap[s].seq
    <3>1. ~(n <= m_eventidmap[s].seq)
      BY <2>2, Zenon DEF isDuplicate
    <3>2. m_eventidmap[s] \in Tracks
      BY Zenon DEF TypeOK
    <3>3. m_eventidmap[s].seq \in Nat
      BY <3>2, SeqsType, Zenon DEF Tracks
    <3> QED
      BY <2>1, <2>2, <3>1, <3>3, <1>3
  <2>3. CASE Over(s, m)
    <3>1. n > m
      BY <2>3, <1>t, Zenon DEF Over, Settled
    <3> QED
      BY <3>1, <2>1, <1>3
  <2> QED
    BY <2>1, <2>2, <2>3, Zenon DEF Recognised
<1>5. ASSUME m_HAenabled, NEW m \in 1..(n - 1) PROVE <<s, m>> \in Begun
  <2>1. AllTaken(s, n - 1)
    BY <1>5, <1>1, Zenon DEF NoGapInv, HandFull
  <2>2. m \in 1..MaxEvents
    BY <1>3, EventsAssumption
  <2> QED
    BY <2>1, <2>2, BegunIs, Zenon DEF AllTaken
<1>6. \A r \in Sources, k \in 1..MaxEvents :
        Taken(r, k)' <=> Taken(r, k) \/ (r = s /\ k = n)
  <2> SUFFICES ASSUME NEW r \in Sources, NEW k \in 1..MaxEvents
               PROVE  Taken(r, k)' <=> Taken(r, k) \/ (r = s /\ k = n)
    BY Zenon
  <2>1. k \in Seqs
    BY NumberIsSeq, Zenon
  <2>2. hand'[c] = [hand[c] EXCEPT !.stage = "taken"]
    BY Zenon DEF Take, TypeOK
  <2>3. hand'[c].stage = "taken" /\ hand'[c].src = s /\ hand'[c].seq = n
    BY <2>2, <1>t, Zenon DEF Hands
  <2>4. Taken(s, n)'
    BY <2>3, Zenon DEF Taken, InHand
  <2>5. ASSUME Taken(r, k)', ~Taken(r, k) PROVE r = s /\ k = n
    <3> PICK d \in Channels : /\ Take(d) /\ ~isDuplicate(r, k)
                              /\ hand[d].stage = "received"
                              /\ hand[d].src = r /\ hand[d].seq = k
      BY <2>1, <2>5, TakenBefore, Zenon
    <3>1. CASE d = c
      BY <3>1, Zenon
    <3>2. CASE d # c
      <4>1. hand'[d] = hand[d] /\ handled' = handled
        BY <3>2, Zenon DEF Take, TypeOK
      <4>2. hand[d] \in Hands
        BY Zenon DEF TypeOK
      <4>3. hand'[d] = [hand[d] EXCEPT !.stage = "taken"]
        BY Zenon DEF Take, TypeOK
      <4>4. hand'[d].stage = "taken"
        BY <4>3, <4>2, Zenon DEF Hands
      <4> QED
        BY <4>1, <4>4
    <3> QED
      BY <3>1, <3>2, Zenon
  <2> QED
    BY <2>1, <2>4, <2>5, TakenKept, Zenon
<1>7. Begun' = Begun \cup {<<s, n>>}
  <2>1. ASSUME NEW e \in Sources \X (1..MaxEvents)
        PROVE  Taken(e[1], e[2])' <=> Taken(e[1], e[2]) \/ e = <<s, n>>
    <3>1. e[1] \in Sources /\ e[2] \in 1..MaxEvents /\ e = <<e[1], e[2]>>
      OBVIOUS
    <3>2. e = <<s, n>> <=> e[1] = s /\ e[2] = n
      BY <3>1
    <3> QED
      BY <3>1, <3>2, <1>6, Zenon
  <2>2. <<s, n>> \in Sources \X (1..MaxEvents)
    BY <1>3
  <2> HIDE DEF OnceInv
  <2> QED
    BY <2>1, <2>2 DEF Begun
<1>8. UNCHANGED <<made, handled, confirmed, m_HAenabled>>
  BY Zenon DEF Take, servers, channels
<1>9. Delivery!Begin(s, n)
  BY <1>2, <1>4, <1>5, <1>7, <1>8, Zenon DEF Delivery!Begin
<1> QED
  BY <1>3, <1>9, Zenon

(* The region has the event: it is delivered, for the first time.          *)
LEMMA HandleDelivers ==
  ASSUME OnceInv, [Next]_vars, NEW c \in Channels, NEW mark \in BOOLEAN,
         Handle(c, mark), Begun' = Begun
  PROVE  \E s \in Sources, n \in 1..MaxEvents : Delivery!Deliver(s, n)
<1> USE DEF OnceInv
<1>t. hand[c] \in Hands /\ hand[c].stage = "taken"
  BY Zenon DEF TypeOK, Handle
<1> PICK s \in Sources, n \in Seqs : s = hand[c].src /\ n = hand[c].seq
  BY <1>t, Zenon DEF Hands
<1>1. n > 0
  BY <1>t DEF WireInv
<1>2. n \in 1..MaxEvents
  BY <1>1, NumberIsSeq, Zenon
<1>3. InHand(c, s, n)
  BY <1>t, Zenon DEF InHand
<1>4. <<s, n>> \in Begun
  BY <1>2, <1>3, BegunIs, Zenon DEF Taken
<1>5. handled[s][n] = 0
  <2>1. handled[s][n] \in Nat /\ handled[s][n] <= 1
    BY Zenon DEF TypeOK, HandledOnce
  <2>2. handled[s][n] # 1
    BY <1>3, Zenon DEF HandledOnce
  <2> QED
    BY <2>1, <2>2
<1>6. handled' = [handled EXCEPT ![s][n] = 1]
  <2>1. handled' = [handled EXCEPT ![s][n] = @ + 1]
    BY Zenon DEF Handle
  <2>2. handled[s][n] + 1 = 1
    BY <1>5
  <2> QED
    BY <2>1, <2>2, Zenon
<1>7. UNCHANGED <<made, confirmed, m_HAenabled>>
  BY Zenon DEF Handle, servers, channels
<1>8. Delivery!Deliver(s, n)
  BY <1>4, <1>5, <1>6, <1>7, Zenon DEF Delivery!Deliver
<1> QED
  BY <1>2, <1>8, Zenon

(* The servers apply an acknowledgement: they release what was begun.      *)
LEMMA AckReleases ==
  ASSUME OnceInv, [Next]_vars, AckApplied, Begun' = Begun
  PROVE  Delivery!Release
<1> USE DEF OnceInv
<1>1. m_HAenabled /\ m_HAenabled' = m_HAenabled
  BY Zenon DEF AckInv, AckApplied
<1>2. AckFull'
  BY <1>1, NoGapStep, Zenon DEF NoGapInv
<1>3. confirmed' \in [Sources -> Seqs]
  BY TypeStep, Zenon DEF TypeOK
<1>4. \A s \in Sources : confirmed[s] <= confirmed'[s]
  BY ServersGrow, Zenon
<1>5. ASSUME NEW s \in Sources, NEW n \in 1..confirmed'[s]
      PROVE  <<s, n>> \in Begun
  <2>1. confirmed'[s] \in Seqs
    BY <1>3, Zenon
  <2>2. n \in 1..MaxEvents
    BY <2>1, EventsAssumption DEF Seqs
  <2>3. Taken(s, n)'
    BY <1>2, Zenon DEF AckFull, AllTaken
  <2> QED
    BY <2>2, <2>3, BegunIs, Zenon
<1>6. UNCHANGED <<made, handled, m_HAenabled>>
  BY Zenon DEF AckApplied, channels
<1> QED
  BY <1>3, <1>4, <1>5, <1>6, Zenon DEF Delivery!Release, Seqs

LEMMA StepMaps ==
  ASSUME OnceInv, [Next]_vars PROVE [Delivery!Next]_(Delivery!vars)
<1> USE DEF servers, channels, vars
<1>t. TypeOK
  BY Zenon DEF OnceInv
<1>a. ASSUME ~ \E c \in Channels :
               Take(c) /\ ~isDuplicate(hand[c].src, hand[c].seq)
      PROVE  Begun' = Begun
  <2>1. ASSUME NEW s \in Sources, NEW n \in 1..MaxEvents, Taken(s, n)'
        PROVE  Taken(s, n)
    <3> SUFFICES ASSUME ~Taken(s, n) PROVE FALSE
      BY Zenon
    <3> PICK c \in Channels : /\ Take(c) /\ ~isDuplicate(s, n)
                              /\ hand[c].src = s /\ hand[c].seq = n
      BY <1>t, <2>1, TakenBefore, NumberIsSeq, Zenon
    <3>1. ~isDuplicate(hand[c].src, hand[c].seq)
      BY Zenon
    <3> QED
      BY <3>1, <1>a, Zenon
  <2> QED
    BY <1>t, <2>1, BegunKept, Zenon
<1>b. ASSUME Begun' = Begun,
             UNCHANGED <<made, handled, confirmed, m_HAenabled>>
      PROVE  UNCHANGED Delivery!vars
  BY <1>b, Zenon DEF Delivery!vars
<1>1. CASE \E c \in Channels : Take(c)
  <2> PICK c \in Channels : Take(c)
    BY <1>1, Zenon
  <2>1. CASE \E d \in Channels :
               Take(d) /\ ~isDuplicate(hand[d].src, hand[d].seq)
    BY <2>1, TakeBegins, Zenon DEF Delivery!Next
  <2>2. CASE ~ \E d \in Channels :
               Take(d) /\ ~isDuplicate(hand[d].src, hand[d].seq)
    BY <2>2, <1>a, <1>b, Zenon DEF Take
  <2> QED
    BY <2>1, <2>2, Zenon
<1>2. ASSUME ~ \E c \in Channels : Take(c) PROVE Begun' = Begun
  BY <1>a, <1>2, Zenon
<1>3. CASE ~ \E c \in Channels : Take(c)
  <2>1. CASE \E s \in Sources : Produce(s)
    <3> PICK s \in Sources : Produce(s)
      BY <2>1, Zenon
    <3>1. Delivery!Publish(s)
      BY <1>2, <1>3, Zenon DEF Produce, Delivery!Publish
    <3> QED
      BY <3>1, Zenon DEF Delivery!Next
  <2>2. CASE \E c \in Channels, mark \in BOOLEAN : Handle(c, mark)
    BY <1>2, <1>3, <2>2, HandleDelivers, Zenon DEF Delivery!Next
  <2>3. CASE AckApplied
    BY <1>2, <1>3, <2>3, AckReleases, Zenon DEF Delivery!Next
  <2>4. ASSUME ~ \E s \in Sources : Produce(s), ~AckApplied,
               ~ \E c \in Channels, mark \in BOOLEAN : Handle(c, mark)
        PROVE  UNCHANGED <<made, handled, confirmed, m_HAenabled>>
    BY <1>3, <2>4, NextIsSteps, Zenon DEF Steps, Send, TimePasses, Disconnect,
       NewPrimary, Close, Receive, Discard, AckBegin, AckReplied, AckFailed,
       Expire
  <2> QED
    BY <1>2, <1>3, <1>b, <2>1, <2>2, <2>3, <2>4, Zenon
<1> QED
  BY <1>1, <1>3, Zenon

(* Through failovers, repeated sending, lost acknowledgements and the      *)
(* forgetting of sources, the client does what EventDelivery promises      *)
(* (TcrEndpoint::receiveNotification, EventIdMap, doPeriodicAck), if no    *)
(* outage outlasts the tracking of a source.                               *)
THEOREM ImplementsDelivery == ASSUME ShortOutages PROVE Spec => DeliversOnce
<1>1. Init => Delivery!Init
  BY InitMaps, Zenon
<1>2. OnceInv /\ [Next]_vars => [Delivery!Next]_(Delivery!vars)
  BY StepMaps, Zenon
<1> QED
  BY <1>1, <1>2, OnceInvCorrect, PTL DEF Spec, DeliversOnce, Delivery!Spec
=============================================================================
