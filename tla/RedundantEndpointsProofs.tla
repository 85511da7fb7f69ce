---------------------- MODULE RedundantEndpointsProofs ---------------------
(***************************************************************************)
(* More about RedundancyManager, on the types and the lists that           *)
(* RedundancyManagerProofs establishes: no redundant endpoint is silent,   *)
(* and the first, and only the first, is the primary, but for those whose  *)
(* loss was overtaken.                                                     *)
(***************************************************************************)
EXTENDS RedundancyManagerProofs

LEMMA EmptyRange == Range(<<>>) = {}
BY DEF Range

(* No endpoint is silent, unless its loss was overtaken.                   *)

Reading == [pc |-> "receive", isRunning |-> TRUE]

(* The endpoints that are redundant, or will be as things stand.           *)
Members(m, r) ==
  (Range(r) \ Range(m.tempNonredundant)) \cup Range(m.tempRedundant)
    \cup (IF m.pc = "recover" THEN {Head(m.todo)} ELSE {})

(* Whoever listens has a thread, which reads or has found the channel      *)
(* broken, and a channel.                                                  *)
Listens(e) ==
  listeners[e] > 0 => /\ receiver[e].pc = "lock" \/ receiver[e] = Reading
                      /\ channel[e] # "none"

(* The endpoint is connected, and no loss of its channel was passed over.  *)
Attended(e) == connected[e] /\ e \notin overtaken

Read(e) ==
  /\ Attended(e) => receiver[e] = Reading /\ listeners[e] > 0
  /\ channel[e] # "none"

Absent(e) == e \in Range(m_redundantEndpoints) => ~Attended(e)

(* The same after a step.                                                  *)
ListensNext(e) ==
  listeners'[e] > 0 => /\ receiver'[e].pc = "lock" \/ receiver'[e] = Reading
                       /\ channel'[e] # "none"

AttendedNext(e) == connected'[e] /\ e \notin overtaken'

ReadNext(e) ==
  /\ AttendedNext(e) => receiver'[e] = Reading /\ listeners'[e] > 0
  /\ channel'[e] # "none"

(* registerDM makes a channel and a thread before it counts a listener;    *)
(* the thread may find the channel broken at once.                         *)
Registering ==
  /\ mrl.pc \in {"join", "start"} =>
       /\ listeners[ep] = 0
       /\ channel[ep] \in {IF AsPrimary THEN "primary" ELSE "secondary", "broken"}
  /\ mrl.pc = "start" => \/ receiver[ep] = Reading
                         \/ receiver[ep].pc = "lock" /\ ep \in overtaken

SilentInv ==
  mrl.pc \notin Destroying =>
    /\ \A e \in Endpoints : Listens(e)
    /\ \A e \in Members(mrl, m_redundantEndpoints) : Read(e)
    /\ mrl.pc = "leave" => \A e \in Range(mrl.todo) : Absent(e)
    /\ Registering

(* No endpoint but x changes.                                              *)
Only(x) ==
  \A e \in Endpoints : e # x =>
    /\ AttendedNext(e) <=> Attended(e)
    /\ channel'[e] = channel[e]
    /\ listeners'[e] = listeners[e] /\ receiver'[e] = receiver[e]

LEMMA MembersAre ==
  ASSUME NEW m, NEW r
  PROVE  \A e : e \in Members(m, r) <=>
                  \/ e \in Range(r) /\ e \notin Range(m.tempNonredundant)
                  \/ e \in Range(m.tempRedundant)
                  \/ m.pc = "recover" /\ e = Head(m.todo)
<1>1. \A e : e \in (IF m.pc = "recover" THEN {Head(m.todo)} ELSE {})
               <=> m.pc = "recover" /\ e = Head(m.todo)
  OBVIOUS
<1> QED BY <1>1, Zenon DEF Members

LEMMA MemberTypes ==
  ASSUME ListInv
  PROVE  Members(mrl, m_redundantEndpoints) \subseteq Endpoints
<1>1. /\ Range(m_redundantEndpoints) \subseteq Endpoints
      /\ Range(mrl.tempRedundant) \subseteq Endpoints
  BY KeptTypes, Zenon
<1>2. mrl.pc = "recover" => Head(mrl.todo) \in Endpoints
  BY AddingTurn DEF ep
<1> QED BY <1>1, <1>2, MembersAre, Zenon

(* A step that disconnects x, or gives its channel another state.          *)
Loses(x) ==
  /\ Only(x) /\ (AttendedNext(x) => Attended(x))
  /\ listeners'[x] = listeners[x] /\ receiver'[x] = receiver[x]
  /\ channel[x] # "none" => channel'[x] # "none"

LEMMA SomeEndpoint ==
  \E x : x \in Endpoints
<1>1. m_servers \in Seq(Endpoints) /\ m_servers # <<>>
  BY RedundancyAssumption, Zenon DEF Endpoints
<1>2. Len(m_servers) \in Nat /\ Len(m_servers) # 0 BY <1>1, SeqFacts
<1>3. m_servers[1] \in Endpoints
  <2>1. 1 \in 1..Len(m_servers) BY <1>2
  <2> QED BY <1>1, <2>1, SeqFacts
<1> QED BY <1>3

LEMMA EndpointFacts ==
  ASSUME EndpointTypes
  PROVE  /\ connected \in [Endpoints -> BOOLEAN] /\ released \in BOOLEAN
         /\ listeners \in [Endpoints -> Nat] /\ receiver \in [Endpoints -> Receivers]
         /\ channel \in [Endpoints -> Channels] /\ StatusTypes /\ ListenerTypes
BY Zenon DEF EndpointTypes, StatusTypes, ListenerTypes

LEMMA ErrorLoses ==
  ASSUME EndpointTypes, NEW x \in Endpoints, NEW fatal, RequestError(x, fatal)
  PROVE  /\ connected'[x] => connected[x]
         /\ \A e \in Endpoints : e # x => connected'[e] = connected[e]
<1>1. connected \in [Endpoints -> BOOLEAN] BY EndpointFacts
<1>2. Disconnect(x) \/ UNCHANGED status BY Zenon DEF RequestError
<1>3. connected' = [connected EXCEPT ![x] = FALSE] \/ connected' = connected
  BY <1>2 DEF Disconnect, status
<1> QED BY <1>1, <1>3

LEMMA MakePrimaryLoses ==
  ASSUME EndpointTypes, NEW x \in Endpoints, NEW ok \in BOOLEAN,
         sendMakePrimaryMesg(x, ok), UNCHANGED <<listeners, receiver, overtaken>>
  PROVE  Loses(x)
<1>1. channel \in [Endpoints -> Channels] BY EndpointFacts
<1>2. /\ connected'[x] => connected[x]
      /\ \A e \in Endpoints : e # x => connected'[e] = connected[e]
  <2>1. RequestError(x, FALSE) \/ UNCHANGED status
    BY Zenon DEF sendMakePrimaryMesg
  <2>2. CASE UNCHANGED status BY <2>2 DEF status
  <2> QED BY <2>1, <2>2, ErrorLoses, Zenon
<1>3. channel' = channel \/ channel' = MadePrimary(x) BY Zenon DEF sendMakePrimaryMesg
<1>4. /\ \A e \in Endpoints : e # x => channel'[e] = channel[e]
      /\ channel[x] # "none" => channel'[x] # "none"
  BY <1>1, <1>3 DEF MadePrimary
<1> QED BY <1>2, <1>4 DEF Loses, Only, Attended, AttendedNext

LEMMA UnregisterKeeps ==
  ASSUME EndpointTypes, NEW x \in Endpoints, unregisterDM(x), UNCHANGED channel
  PROVE  /\ Listens(x) => ListensNext(x)
         /\ \A e \in Endpoints : e # x => /\ listeners'[e] = listeners[e]
                                          /\ receiver'[e] = receiver[e]
<1>.  listeners \in [Endpoints -> Nat] /\ receiver \in [Endpoints -> Receivers]
  BY EndpointFacts
<1>2. /\ listeners'[x] = (IF listeners[x] > 0 THEN listeners[x] - 1 ELSE 0)
      /\ \A e \in Endpoints : e # x => listeners'[e] = listeners[e]
  BY DEF unregisterDM
<1>3. /\ \A e \in Endpoints : e # x => receiver'[e] = receiver[e]
      /\ listeners[x] # 1 => receiver'[x] = receiver[x]
  <2> DEFINE b == receiver[x].isRunning /\ listeners[x] # 1
             q == [receiver[x] EXCEPT !.isRunning = b]
  <2>1. receiver' = [receiver EXCEPT ![x] = q] BY DEF unregisterDM
  <2>2. listeners[x] # 1 => b = receiver[x].isRunning BY DEF Receivers
  <2> HIDE DEF b
  <2>3. listeners[x] # 1 => q = receiver[x] BY <2>2 DEF Receivers
  <2> HIDE DEF q
  <2> QED BY <2>1, <2>3
<1>4. listeners'[x] > 0 => listeners[x] > 0 /\ receiver'[x] = receiver[x]
  BY <1>2, <1>3
<1> QED BY <1>2, <1>3, <1>4, Zenon DEF Listens, ListensNext

(* Outside a run the redundant endpoints are the members.                  *)
LEMMA MembersAtRest ==
  ASSUME NEW m, Rests(m), m.pc \notin Busy, NEW r
  PROVE  Members(m, r) = Range(r)
<1>1. m.pc # "recover" BY DEF Busy
<1>2. Range(m.tempRedundant) = {} /\ Range(m.tempNonredundant) = {}
  BY DEF Rests, Range
<1> QED BY <1>1, <1>2 DEF Members

(* destroy ends in a state where nothing is asked of the endpoints.        *)
LEMMA Destroyed ==
  ASSUME TypesInv, destroy \/ DestroyStep
  PROVE  mrl'.pc \in Destroying
<1> DEFINE r == m_redundantEndpoints
           m == mrl'
<1>.  ListInv /\ TypeOK /\ mrl \in Holders
  BY TypesSplit, ListFacts, Zenon DEF TypesInv
<1>1. CASE destroy
  <2>1. m = Fresh("stop", r) BY <1>1, Zenon DEF destroy, Fresh
  <2>2. r \in Seq(Endpoints) BY DEF TypeOK
  <2>3. m.pc = "stop" BY <2>1, <2>2, FreshHolder
  <2> QED BY <2>3 DEF Destroying
<1>.  CASE StopReceiver \/ Cleaned
  <2>1. PICK pc \in {"stop", "clean"} : m = [Following EXCEPT !.pc = pc]
    BY DEF StopReceiver, Cleaned
  <2>2. mrl.todo # <<>> BY AddingTurn DEF StopReceiver, Cleaned
  <2>3. m.pc = pc BY <2>1, <2>2, StoppedHolder, Zenon
  <2> QED BY <2>3 DEF Destroying
<1>3. CASE close
  BY <1>3, FreshHolder, ClosedHolder DEF close, Destroying
<1>4. CASE StopChannel \/ StopEnds \/ LockToClean
  BY <1>4, Zenon DEF StopChannel, StopEnds, LockToClean, Destroying, Holders
<1> QED BY <1>1, <1>3, <1>4, Zenon DEF DestroyStep

LEMMA SilentInit ==
  ASSUME Init
  PROVE  /\ SilentInv /\ mrl.pc = "scan"
         /\ \A e : e \notin Members(mrl, m_redundantEndpoints)
<1> DEFINE r == m_redundantEndpoints
<1>1. r = <<>> /\ mrl = Begun(TRUE) BY DEF Init
<1>2. r \in Seq(Endpoints) /\ Range(r) = {} BY <1>1 DEF Range
<1>.  mrl.pc = "scan" /\ mrl.tempRedundant = <<>>
  BY <1>1, <1>2, BegunHolder, Zenon
<1>4. Range(mrl.tempRedundant) = {} BY DEF Range
<1>.  mrl.pc # "recover" /\ mrl.pc # "leave" /\ mrl.pc \notin {"join", "start"}
  OBVIOUS
<1>6. \A e : e \notin Members(mrl, r) BY <1>2, <1>4, MembersAre, Zenon
<1>7. \A e \in Endpoints : Listens(e)
  <2>1. \A e \in Endpoints : listeners[e] = 0 BY DEF Init
  <2> QED BY <2>1 DEF Listens
<1>8. Registering BY DEF Registering
<1>9. SilentInv BY <1>1, <1>6, <1>7, <1>8, Zenon DEF SilentInv
<1> QED BY <1>6, <1>9, Zenon

LEMMA SilentInvHolds ==
  Spec => []SilentInv
(* A step that changes one endpoint and adds no other.                     *)
<1>SilentOne.
    ASSUME ListInv, SilentInv, mrl.pc \notin Destroying, NEW x \in Endpoints,
           Only(x), ListensNext(x),
           \A e \in Members(mrl', m_redundantEndpoints') :
              e = x \/ e \in Members(mrl, m_redundantEndpoints),
           x \in Members(mrl', m_redundantEndpoints') => ReadNext(x)
    PROVE  /\ \A e \in Endpoints : ListensNext(e)
           /\ \A e \in Members(mrl', m_redundantEndpoints') : ReadNext(e)
  <2> USE <1>SilentOne
  <2> DEFINE k == Members(mrl, m_redundantEndpoints)
             k2 == Members(mrl', m_redundantEndpoints')
  <2>1. /\ \A e \in Endpoints : Listens(e)
        /\ \A e \in k : Read(e)
    BY Zenon DEF SilentInv
  <2>2. k \subseteq Endpoints BY MemberTypes
  <2>3. ASSUME NEW e \in Endpoints PROVE ListensNext(e)
    <3>1. CASE e = x BY <3>1
    <3>2. CASE e # x
      <4>1. /\ channel'[e] = channel[e]
            /\ listeners'[e] = listeners[e] /\ receiver'[e] = receiver[e]
        BY <3>2, Zenon DEF Only
      <4> QED BY <2>1, <4>1, Zenon DEF Listens, ListensNext
    <3> QED BY <3>1, <3>2
  <2>4. ASSUME NEW e \in k2 PROVE ReadNext(e)
    <3>1. CASE e = x BY <3>1, Zenon
    <3>.  CASE e # x
      <4>0. e \in k /\ e \in Endpoints BY <2>2, Zenon
      <4>1. /\ AttendedNext(e) <=> Attended(e)
            /\ channel'[e] = channel[e]
            /\ listeners'[e] = listeners[e] /\ receiver'[e] = receiver[e]
        BY <4>0, Zenon DEF Only
      <4> QED BY <2>1, <4>0, <4>1, Zenon DEF Read, ReadNext
    <3> QED BY <3>1
  <2> QED BY <2>3, <2>4, Zenon
(* Within a run of maintainRedundancyLevel nothing else is to be shown.    *)
<1>SilentBusy.
    ASSUME ListInv, SilentInv, mrl.pc \in Busy,
           mrl'.pc \in Busy, Registering', NEW x \in Endpoints,
           Only(x), ListensNext(x),
           \A e \in Members(mrl', m_redundantEndpoints') :
              e = x \/ e \in Members(mrl, m_redundantEndpoints),
           x \in Members(mrl', m_redundantEndpoints') => ReadNext(x)
    PROVE  SilentInv'
  <2> USE <1>SilentBusy
  <2>.  /\ mrl.pc # "idle" /\ mrl.pc \notin Destroying /\ mrl'.pc # "leave"
    BY DEF Busy, Destroying
  <2>3. /\ \A e \in Endpoints : ListensNext(e)
        /\ \A e \in Members(mrl', m_redundantEndpoints') : ReadNext(e)
    BY <1>SilentOne, Zenon
  <2>4. /\ \A e \in Endpoints : Listens(e)'
        /\ \A e \in Members(mrl', m_redundantEndpoints') : Read(e)'
    BY <2>3, Zenon DEF Listens, ListensNext, Read, ReadNext, Attended, AttendedNext
  <2> QED BY <2>4, Zenon DEF SilentInv
<1>LosesKeeps.
    ASSUME NEW x, Loses(x)
    PROVE  /\ Only(x)
           /\ Listens(x) => ListensNext(x)
           /\ Read(x) => ReadNext(x)
  <2> USE <1>LosesKeeps
  <2> QED BY Zenon DEF Loses, Listens, ListensNext, Read, ReadNext
<1>SilentLoses.
    ASSUME ListInv, SilentInv, mrl.pc \in Busy,
           mrl'.pc \in Busy, Registering', NEW x \in Endpoints, Loses(x),
           \A e \in Members(mrl', m_redundantEndpoints') :
              e \in Members(mrl, m_redundantEndpoints)
    PROVE  SilentInv'
  <2> USE <1>SilentLoses
  <2>1. mrl.pc \notin Destroying BY DEF Busy, Destroying
  <2>2. /\ Listens(x)
        /\ x \in Members(mrl, m_redundantEndpoints) => Read(x)
    BY <2>1, Zenon DEF SilentInv
  <2>3. /\ Only(x) /\ ListensNext(x)
        /\ x \in Members(mrl', m_redundantEndpoints') => ReadNext(x)
    BY <2>2, <1>LosesKeeps, Zenon
  <2> QED BY <2>3, <1>SilentBusy, Zenon
<1>UnchangedLoses.
    ASSUME UNCHANGED <<channel, connected, overtaken, listeners, receiver>>, NEW x
    PROVE  Loses(x)
  <2> USE <1>UnchangedLoses
  <2> QED BY DEF Loses, Only, Attended, AttendedNext
<1>NotRegistering.
    ASSUME mrl'.pc \notin {"join", "start"}
    PROVE  Registering'
  <2> USE <1>NotRegistering
  <2> QED BY DEF Registering
<1>SilentScan.
    ASSUME TypesInv, SilentInv, Scan
    PROVE  SilentInv'
  <2> USE <1>SilentScan
  <2> DEFINE r == m_redundantEndpoints
             m == mrl'
  <2>.  ListInv /\ EndpointTypes /\ mrl \in Holders
    BY TypesSplit, ListFacts, Zenon DEF TypesInv
  <2>1. mrl.pc = "scan" /\ mrl.pc \in Busy
    BY DEF Scan, ScanFirst, ScanPromote, ScanSecondary, Select, Goes, Ends, Busy
  <2>2. UNCHANGED overtaken /\ r' = r
    BY DEF Scan, ScanFirst, ScanPromote, ScanSecondary, Select, others, lists
  <2>.  /\ m.pc \in Busy \ {"join", "start"}
        /\ \A e \in Members(m, r) : e \in Members(mrl, r)
    <3>1. CASE Select
      <4>1. /\ m.pc = "offer" /\ m.tempRedundant = mrl.tempRedundant
            /\ m.tempNonredundant = mrl.tempNonredundant
        BY <3>1 DEF Select, Holders
      <4>2. m.pc # "recover" /\ m.pc \in Busy \ {"join", "start"} BY <4>1 DEF Busy
      <4> QED BY <4>1, <4>2, MembersAre, Zenon
    <3>2. CASE ~Select
      <4>1. Goes("scan") /\ (m = Gone \/ Scanned)
        BY <3>2, ScanFirstInv, ScanSecondaryInv, ScanPromoteInv, Zenon
           DEF Scan, ScanFirst, ScanPromote, ScanSecondary
      <4>.  mrl.todo # <<>> /\ mrl.tempRedundant = <<>>
        BY <4>1, ScanFacts, Zenon
      <4>3. CASE Scanned
        <5>1. /\ m.pc = "scan" /\ m.tempRedundant = mrl.tempRedundant
              /\ m.tempNonredundant = mrl.tempNonredundant
          BY <4>3, Zenon DEF Scanned
        <5>2. m.pc # "recover" /\ m.pc \in Busy \ {"join", "start"} BY <5>1 DEF Busy
        <5> QED BY <5>1, <5>2, MembersAre, Zenon
      <4>4. CASE m = Gone
        <5>.  /\ m.pc = "scan" /\ m.tempRedundant = mrl.tempRedundant
              /\ m.tempNonredundant = Append(mrl.tempNonredundant, ep)
          <6>1. /\ Gone.pc = mrl.pc /\ Gone.tempRedundant = mrl.tempRedundant
                /\ Gone.tempNonredundant = Append(mrl.tempNonredundant, ep)
            BY GoneHolder, Zenon
          <6> QED BY <2>1, <4>4, <6>1, Zenon
        <5>2. m.pc # "recover" /\ m.pc \in Busy \ {"join", "start"} BY DEF Busy
        <5>3. \A e \in Range(mrl.tempNonredundant) : e \in Range(m.tempNonredundant)
          <6> DEFINE tn == mrl.tempNonredundant
          <6>1. tn \in Seq(Endpoints) /\ ep \in Endpoints
            BY HolderTypes, TurnType, Zenon
          <6> HIDE DEF tn
          <6>2. Range(Append(tn, ep)) = Range(tn) \cup {ep} BY <6>1, RangeAppend
          <6> QED BY <6>2, Zenon DEF tn
        <5> QED BY <5>2, <5>3, MembersAre, Zenon
      <4> QED BY <4>1, <4>3, <4>4, Zenon
    <3> QED BY <3>1, <3>2, Zenon
  <2>4. PICK x \in Endpoints : Loses(x)
    <3>.  CASE ScanPromote
      <4>1. ep \in Endpoints BY TurnType, Zenon DEF ScanPromote, Goes
      <4>2. PICK ok \in BOOLEAN : sendMakePrimaryMesg(ep, ok)
        BY Zenon DEF ScanPromote
      <4>3. UNCHANGED <<listeners, receiver, overtaken>>
        BY <2>2 DEF ScanPromote
      <4> DEFINE x == ep
      <4>4. x \in Endpoints /\ sendMakePrimaryMesg(x, ok) BY <4>1, <4>2
      <4> HIDE DEF x
      <4>5. Loses(x) BY <4>3, <4>4, MakePrimaryLoses, Zenon
      <4> QED BY <4>4, <4>5
    <3>2. CASE ~ScanPromote
      <4>1. UNCHANGED <<channel, connected, overtaken, listeners, receiver>>
        BY <2>2, <3>2 DEF Scan, ScanFirst, ScanSecondary, Select, endpointVars, status
      <4> QED BY <4>1, SomeEndpoint, <1>UnchangedLoses, Zenon
    <3> QED BY <3>2
  <2>5. Registering' BY <1>NotRegistering
  <2>6. \A e \in Members(mrl', m_redundantEndpoints') :
           e \in Members(mrl, m_redundantEndpoints)
    BY <2>2, Zenon
  <2>7. mrl'.pc \in Busy OBVIOUS
  <2> QED BY <2>1, <2>2, <2>4, <2>5, <2>6, <2>7, <1>SilentLoses, Zenon
(* A turn of the loop over the other endpoints that fails.                 *)
<1>SilentFails.
    ASSUME TypesInv, SilentInv, RegisterFails \/ RecoverFails \/ RecoverCqsFails
    PROVE  SilentInv'
  <2> USE <1>SilentFails
  <2> DEFINE r == m_redundantEndpoints
             m == mrl'
             x == ep
  <2>.  ListInv /\ EndpointTypes /\ mrl \in Holders
    BY TypesSplit, ListFacts, Zenon DEF TypesInv
  <2>.  /\ mrl.pc \in Adding \/ Goes("offer")
        /\ UNCHANGED <<overtaken, channel>> /\ r' = r
    BY Zenon DEF RegisterFails, RecoverFails, RecoverCqsFails, Adding, others, lists
  <2>.  mrl.pc \in Offering /\ mrl.todo # <<>> BY OfferedFacts, Zenon
  <2>3. /\ mrl.pc \in Busy /\ mrl.pc \notin Destroying
    BY DEF Offering, Adding, Busy, Destroying
  <2>4. PICK fatal \in BOOLEAN : m = Failed(fatal)
    BY Zenon DEF RegisterFails, RecoverFails, RecoverCqsFails
  <2>5. /\ m.pc = "offer" /\ m.tempRedundant = mrl.tempRedundant
        /\ m.tempNonredundant = mrl.tempNonredundant
    <3>1. /\ Failed(fatal).pc = "offer"
          /\ Failed(fatal).tempRedundant = mrl.tempRedundant
          /\ Failed(fatal).tempNonredundant = mrl.tempNonredundant
      BY FailedHolder, Zenon
    <3> QED BY <2>4, <3>1, Zenon
  <2>.  m.pc # "recover" /\ m.pc \in Busy /\ m.pc \notin {"join", "start"}
    BY <2>5 DEF Busy
  <2>.  x \notin Range(r) /\ x \notin Range(mrl.tempRedundant) /\ x \in Endpoints
    BY OfferPlace, Zenon
  <2>8. /\ \A e \in Members(m, r) : e \in Members(mrl, r)
        /\ x \notin Members(m, r)
    BY <2>5, MembersAre, Zenon
  <2>9. Registering' BY <1>NotRegistering
  <2>10. connected \in [Endpoints -> BOOLEAN] BY EndpointFacts
  <2>11. \A e \in Endpoints : e # x => connected'[e] = connected[e]
    <3>1. CASE RegisterFails
      BY <2>10, <3>1 DEF RegisterFails
    <3>2. CASE RecoverFails \/ RecoverCqsFails
      <4>1. PICK f \in BOOLEAN : RequestError(ep, f)
        BY <3>2, Zenon DEF RecoverFails, RecoverCqsFails
      <4>2. RequestError(x, f) BY <4>1
      <4> HIDE DEF x
      <4> QED BY <4>2, ErrorLoses, Zenon
    <3> QED BY <3>1, <3>2
  <2>12. /\ \A e \in Endpoints : e # x => /\ listeners'[e] = listeners[e]
                                          /\ receiver'[e] = receiver[e]
         /\ Listens(x) => ListensNext(x)
    <3>1. CASE RecoverFails
      <4>1. unregisterDM(x) BY <3>1 DEF RecoverFails
      <4> HIDE DEF x
      <4> QED BY <4>1, UnregisterKeeps, Zenon
    <3>2. CASE ~RecoverFails
      <4>1. UNCHANGED <<listeners, receiver>>
        BY <3>2, Zenon DEF RegisterFails, RecoverCqsFails
      <4> HIDE DEF x
      <4> QED BY <4>1, Zenon DEF Listens, ListensNext
    <3> QED BY <3>1, <3>2
  <2>13. Listens(x) BY <2>3, Zenon DEF SilentInv
  <2>14. Only(x)
    <3> HIDE DEF x
    <3> QED BY <2>11, <2>12, Zenon DEF Only, Attended, AttendedNext
  <2>15. /\ \A e \in Members(mrl', m_redundantEndpoints') :
               e \in Members(mrl, m_redundantEndpoints)
         /\ x \notin Members(mrl', m_redundantEndpoints')
    BY <2>8, Zenon
  <2> HIDE DEF x
  <2> QED BY <2>3, <2>9, <2>12, <2>13, <2>14, <2>15, <1>SilentBusy, Zenon
(* The steps of registerDM.                                                *)
<1>RegisterFacts.
    ASSUME TypesInv, SilentInv, Register \/ Join \/ Started
    PROVE  /\ ListInv /\ EndpointTypes /\ mrl \in Holders
           /\ mrl.pc \in Busy /\ mrl.pc \notin Destroying /\ ep \in Endpoints
           /\ ep \notin Range(m_redundantEndpoints)
           /\ ep \notin Range(mrl.tempRedundant)
           /\ Listens(ep) /\ UNCHANGED m_redundantEndpoints
           /\ mrl'.pc \in Adding /\ mrl'.todo = mrl.todo
           /\ mrl'.tempRedundant = mrl.tempRedundant
           /\ mrl'.tempNonredundant = mrl.tempNonredundant
           /\ mrl'.isPrimaryConnected = mrl.isPrimaryConnected
           /\ mrl'.secondaryCount = mrl.secondaryCount
  <2> USE <1>RegisterFacts
  <2>.  ListInv /\ EndpointTypes /\ mrl \in Holders
    BY TypesSplit, ListFacts, Zenon DEF TypesInv
  <2>1. /\ mrl.pc \in Adding \/ Goes("offer")
        /\ UNCHANGED m_redundantEndpoints
    BY DEF Register, Join, Started, Adding, lists
  <2>2. mrl.pc \in Offering /\ mrl.todo # <<>> BY <2>1, OfferedFacts, Zenon
  <2>3. mrl.pc \in Busy /\ mrl.pc \notin Destroying
    BY <2>2 DEF Offering, Adding, Busy, Destroying
  <2>4. /\ ep \notin Range(m_redundantEndpoints)
        /\ ep \notin Range(mrl.tempRedundant) /\ ep \in Endpoints
    BY <2>2, OfferPlace, Zenon
  <2>5. Listens(ep) BY <2>3, <2>4, Zenon DEF SilentInv
  <2>6. PICK pc \in Adding : mrl' = [mrl EXCEPT !.pc = pc]
    BY DEF Register, Join, Started, Adding
  <2>7. pc \in {"join", "start", "recover", "flag", "wait"} BY DEF Adding
  <2>8. /\ mrl'.pc = pc /\ mrl'.todo = mrl.todo
        /\ mrl'.tempRedundant = mrl.tempRedundant
        /\ mrl'.tempNonredundant = mrl.tempNonredundant
        /\ mrl'.isPrimaryConnected = mrl.isPrimaryConnected
        /\ mrl'.secondaryCount = mrl.secondaryCount
    BY <2>6, <2>7, MovedHolder, Zenon
  <2> QED BY <2>1, <2>3, <2>4, <2>5, <2>8
<1>SilentRegister.
    ASSUME TypesInv, SilentInv, Register \/ Join \/ Started
    PROVE  SilentInv'
  <2> USE <1>SilentRegister
  <2> DEFINE r == m_redundantEndpoints
             m == mrl'
             x == ep
  <2>.  /\ ListInv /\ EndpointTypes /\ mrl \in Holders
        /\ mrl.pc \in Busy /\ mrl.pc \notin Destroying /\ x \in Endpoints
        /\ x \notin Range(r) /\ x \notin Range(mrl.tempRedundant)
        /\ Listens(x) /\ r' = r
        /\ m.pc \in Adding /\ m.todo = mrl.todo
        /\ m.tempRedundant = mrl.tempRedundant
        /\ m.tempNonredundant = mrl.tempNonredundant
        /\ m.isPrimaryConnected = mrl.isPrimaryConnected
        /\ m.secondaryCount = mrl.secondaryCount
    BY <1>RegisterFacts
  <2>1. m.pc \in Busy BY DEF Adding, Busy
  <2>.  /\ connected \in [Endpoints -> BOOLEAN] /\ channel \in [Endpoints -> Channels]
        /\ listeners \in [Endpoints -> Nat] /\ receiver \in [Endpoints -> Receivers]
    BY EndpointFacts
  <2>3. /\ \A e \in Members(m, r) : e = x \/ e \in Members(mrl, r)
        /\ m.pc # "recover" => x \notin Members(m, r)
    <3>1. x = Head(mrl.todo) BY DEF ep
    <3> HIDE DEF x
    <3> QED BY <3>1, MembersAre, Zenon
  <2>.  ep' = x /\ (AsPrimary' <=> AsPrimary) BY DEF ep, AsPrimary
  <2>5. Only(x) /\ ListensNext(x) /\ Registering' /\ (m.pc = "recover" => ReadNext(x))
    <3>.  CASE Register
      <4>1. /\ receiver[x].pc = "lock" => x \in overtaken'
            /\ \A e : e # x => (e \in overtaken' <=> e \in overtaken)
        <5> HIDE DEF x
        <5>1. overtaken' = IF receiver[x].pc = "lock" THEN overtaken \cup {x}
                           ELSE overtaken
          BY Zenon DEF Register, x
        <5> QED BY <5>1
      <4>.  /\ connected' = [connected EXCEPT ![x] = TRUE] /\ receiver' = receiver
        BY DEF Register
      <4>.  CASE listeners[x] = 0
        <5> DEFINE c == IF AsPrimary THEN "primary" ELSE "secondary"
        <5>.  /\ channel' = [channel EXCEPT ![x] = c]
              /\ m = [mrl EXCEPT !.pc = "join"] /\ listeners' = listeners
          BY DEF Register
        <5>2. m.pc = "join" BY DEF Holders
        <5>3. c' = c OBVIOUS
        <5>4. channel'[x] = c /\ \A e \in Endpoints : e # x => channel'[e] = channel[e]
          <6> HIDE DEF c, x
          <6> QED OBVIOUS
        <5>5. Registering'
          <6>1. listeners'[x] = 0 OBVIOUS
          <6>2. channel'[ep'] = c' BY <5>3, <5>4
          <6>3. listeners'[ep'] = 0 BY <6>1
          <6> QED BY <5>2, <6>2, <6>3 DEF Registering
        <5>6. Only(x) /\ ListensNext(x)
          <6> HIDE DEF x, c
          <6> QED BY <4>1, <5>4 DEF Only, ListensNext, Attended, AttendedNext
        <5> QED BY <5>2, <5>5, <5>6
      <4>.  CASE listeners[x] # 0
        <5>.  /\ listeners' = [listeners EXCEPT ![x] = listeners[x] + 1]
              /\ m = [mrl EXCEPT !.pc = "recover"] /\ channel' = channel
          BY DEF Register
        <5>2. m.pc = "recover" BY DEF Holders
        <5>3. Registering' BY <5>2, <1>NotRegistering
        <5> HIDE DEF x
        <5>4. listeners[x] > 0 /\ listeners'[x] > 0 OBVIOUS
        <5>5. /\ receiver[x].pc = "lock" \/ receiver[x] = Reading
              /\ channel[x] # "none"
          BY <5>4, Zenon DEF Listens
        <5>6. Only(x) BY <4>1 DEF Only, Attended, AttendedNext
        <5>7. /\ receiver'[x].pc = "lock" \/ receiver'[x] = Reading
              /\ channel'[x] # "none"
          BY <5>5
        <5>8. AttendedNext(x) => receiver'[x] = Reading
          BY <4>1, <5>5, Zenon DEF AttendedNext
        <5> QED BY <5>3, <5>4, <5>6, <5>7, <5>8, Zenon DEF ListensNext, ReadNext
      <4> QED OBVIOUS
    <3>2. CASE Join
      <4>.  /\ receiver' = [receiver EXCEPT ![x] = Reading]
            /\ m = [mrl EXCEPT !.pc = "start"] /\ mrl.pc = "join"
            /\ UNCHANGED <<channel, connected, listeners>>
            /\ overtaken' = overtaken \ {x}
        BY <3>2 DEF Join, Reading, status
      <4>2. m.pc = "start" BY DEF Holders
      <4>3. listeners[x] = 0
            /\ channel[x] \in {IF AsPrimary THEN "primary" ELSE "secondary", "broken"}
        BY DEF SilentInv, Registering
      <4>4. receiver'[x] = Reading /\ \A e \in Endpoints : e # x => receiver'[e] = receiver[e]
        <5> HIDE DEF x
        <5> QED OBVIOUS
      <4>5. Only(x) /\ ListensNext(x)
        <5> HIDE DEF x
        <5> QED BY <4>3, <4>4 DEF Only, ListensNext, Attended, AttendedNext
      <4>6. Registering'
        <5>1. listeners'[ep'] = 0 /\ receiver'[ep'] = Reading
              /\ channel'[ep'] \in {IF AsPrimary THEN "primary" ELSE "secondary", "broken"}
          BY <4>3, <4>4
        <5> QED BY <5>1 DEF Registering
      <4> QED BY <4>2, <4>5, <4>6
    <3>3. CASE Started
      <4>.  /\ listeners' = [listeners EXCEPT ![x] = listeners[x] + 1]
            /\ connected' = [connected EXCEPT ![x] = TRUE]
            /\ m = [mrl EXCEPT !.pc = "recover"] /\ mrl.pc = "start"
            /\ UNCHANGED <<channel, receiver, overtaken>>
        BY <3>3 DEF Started, others
      <4>2. m.pc = "recover" BY DEF Holders
      <4>3. /\ channel[x] \in {IF AsPrimary THEN "primary" ELSE "secondary", "broken"}
            /\ receiver[x] = Reading \/ (receiver[x].pc = "lock" /\ x \in overtaken)
        BY DEF SilentInv, Registering
      <4>4. channel[x] # "none" BY <4>3
      <4>5. Registering' BY <4>2, <1>NotRegistering
      <4> HIDE DEF x
      <4>6. listeners'[x] > 0 OBVIOUS
      <4>7. Only(x) BY DEF Only, Attended, AttendedNext
      <4>8. AttendedNext(x) => receiver'[x] = Reading
        BY <4>3, Zenon DEF AttendedNext
      <4> QED BY <4>3, <4>4, <4>5, <4>6, <4>7, <4>8, Zenon DEF ListensNext, ReadNext
    <3> QED BY <3>2, <3>3
  <2>6. /\ \A e \in Members(mrl', m_redundantEndpoints') :
              e = x \/ e \in Members(mrl, m_redundantEndpoints)
        /\ x \in Members(mrl', m_redundantEndpoints') => ReadNext(x)
    BY <2>3, <2>5, Zenon
  <2> HIDE DEF x
  <2> QED BY <2>1, <2>5, <2>6, <1>SilentBusy, Zenon
(* The steps of the loop that only count, and the new primary.             *)
<1>SilentMoves.
    ASSUME TypesInv, SilentInv, Skip \/ OfferEnds \/ Recover \/ Promote
    PROVE  SilentInv'
  <2> USE <1>SilentMoves
  <2> DEFINE r == m_redundantEndpoints
             m == mrl'
  <2>.  ListInv /\ EndpointTypes /\ mrl \in Holders
    BY TypesSplit, ListFacts, Zenon DEF TypesInv
  <2>.  /\ mrl.pc \in {"offer", "recover", "promote"}
        /\ UNCHANGED overtaken /\ r' = r
    BY DEF Skip, OfferEnds, Recover, Promote, Promotes, Goes, Ends, others, lists
  <2>2. mrl.pc \in Busy BY DEF Busy
  <2>3. /\ m.pc \in {"offer", "promote"}
        /\ \A e \in Members(m, r) : e \in Members(mrl, r)
    <3>1. ASSUME m.pc \in {"offer", "promote"},
                 m.tempRedundant = mrl.tempRedundant,
                 m.tempNonredundant = mrl.tempNonredundant
          PROVE  \A e \in Members(m, r) : e \in Members(mrl, r)
      <4>1. m.pc # "recover" BY <3>1
      <4> QED BY <3>1, <4>1, MembersAre, Zenon
    <3>2. CASE Skip
      <4>1. m = Following /\ mrl.todo # <<>> /\ mrl.pc = "offer"
        BY <3>2, Zenon DEF Skip, Goes
      <4>2. /\ Following.pc = mrl.pc /\ Following.tempRedundant = mrl.tempRedundant
            /\ Following.tempNonredundant = mrl.tempNonredundant
        BY <4>1, FollowingHolder, Zenon
      <4>3. /\ m.pc = "offer" /\ m.tempRedundant = mrl.tempRedundant
            /\ m.tempNonredundant = mrl.tempNonredundant
        BY <4>1, <4>2, Zenon
      <4> QED BY <3>1, <4>3
    <3>3. CASE OfferEnds BY <3>1, <3>3 DEF OfferEnds, Holders
    <3>.  CASE Recover
      <4>1. mrl.pc = "recover" BY DEF Recover
      <4>.  /\ m.pc = "offer" /\ m.tempRedundant = Append(mrl.tempRedundant, ep)
            /\ m.tempNonredundant = mrl.tempNonredundant
        BY RecoverInv, Zenon DEF Recovered
      <4>3. Range(m.tempRedundant) = Range(mrl.tempRedundant) \cup {ep}
        <5> DEFINE tr == mrl.tempRedundant
        <5>1. tr \in Seq(Endpoints) BY HolderTypes, Zenon
        <5>2. ep \in Endpoints BY <4>1, AddingTurn
        <5> HIDE DEF tr
        <5>3. Range(Append(tr, ep)) = Range(tr) \cup {ep} BY <5>1, <5>2, RangeAppend
        <5> QED BY <5>3, Zenon DEF tr
      <4>4. m.pc # "recover" OBVIOUS
      <4> QED BY <4>1, <4>3, <4>4, MembersAre, Zenon DEF ep
    <3>.  CASE Promote
      <4> DEFINE tr == mrl.tempRedundant
      <4>1. /\ mrl.pc = "promote" /\ tr # <<>> /\ tr \in Seq(Endpoints)
        BY HolderTypes DEF Promote, Promotes
      <4>2. PICK ok \in BOOLEAN :
              m = IF ok THEN [mrl EXCEPT !.isPrimaryConnected = TRUE,
                                         !.isPrimaryAtBack = TRUE]
                  ELSE [mrl EXCEPT !.tempRedundant = Front(@)]
        BY Zenon DEF Promote
      <4>3. Range(tr) = Range(Front(tr)) \cup {Last(tr)} BY <4>1, FrontLast
      <4>.  /\ m.pc = "promote" /\ m.tempNonredundant = mrl.tempNonredundant
            /\ m.tempRedundant = tr \/ m.tempRedundant = Front(tr)
        BY <4>1, <4>2 DEF Holders
      <4>5. Range(m.tempRedundant) \subseteq Range(tr) BY <4>3, Zenon
      <4>6. m.pc # "recover" OBVIOUS
      <4> QED BY <4>5, <4>6, MembersAre, Zenon
    <3> QED BY <3>2, <3>3
  <2>4. PICK x \in Endpoints : Loses(x)
    <3>.  CASE Promote
      <4> DEFINE tr == mrl.tempRedundant
                 x == Last(tr)
      <4>1. /\ tr # <<>> /\ tr \in Seq(Endpoints)
            /\ UNCHANGED <<listeners, receiver, overtaken>>
        BY HolderTypes DEF Promote, Promotes
      <4>2. PICK ok \in BOOLEAN : sendMakePrimaryMesg(x, ok)
        BY Zenon DEF Promote
      <4>3. x \in Endpoints BY <4>1, FrontLast
      <4> HIDE DEF x, tr
      <4>4. Loses(x) BY <4>1, <4>2, <4>3, MakePrimaryLoses, Zenon
      <4> QED BY <4>3, <4>4
    <3>2. CASE ~Promote
      <4>1. UNCHANGED <<channel, connected, overtaken, listeners, receiver>>
        BY <3>2 DEF Skip, OfferEnds, Recover, endpointVars, status
      <4> QED BY <4>1, SomeEndpoint, <1>UnchangedLoses, Zenon
    <3> QED BY <3>2
  <2>5. Registering' /\ mrl'.pc \in Busy BY <2>3, <1>NotRegistering DEF Busy
  <2>6. \A e \in Members(mrl', m_redundantEndpoints') :
           e \in Members(mrl, m_redundantEndpoints)
    BY <2>3, Zenon
  <2> QED BY <2>2, <2>4, <2>5, <2>6, <1>SilentLoses, Zenon
<1>SilentOffer.
    ASSUME TypesInv, SilentInv, Offer \/ Promote
    PROVE  SilentInv'
  <2> USE <1>SilentOffer
  <2> QED BY <1>SilentMoves, <1>SilentRegister, <1>SilentFails, Zenon DEF Offer
(* A step of another thread, which changes one endpoint.                   *)
<1>SilentFrame.
    ASSUME TypesInv, SilentInv, UNCHANGED <<mrl, m_redundantEndpoints>>,
           NEW x \in Endpoints, Only(x), Listens(x) => ListensNext(x),
           x \in Members(mrl, m_redundantEndpoints) /\ Read(x) => ReadNext(x),
           Registering => Registering',
           x \in Range(m_redundantEndpoints) /\ AttendedNext(x) => Attended(x)
    PROVE  SilentInv'
  <2> USE <1>SilentFrame
  <2> DEFINE r == m_redundantEndpoints
  <2> SUFFICES ASSUME mrl.pc \notin Destroying PROVE SilentInv'
    BY Zenon DEF SilentInv
  <2>.  ListInv /\ TypeOK /\ mrl \in Holders /\ r' = r
    BY TypesSplit, ListFacts, Zenon DEF TypesInv
  <2>.  /\ Listens(x)
        /\ x \in Members(mrl, r) => Read(x)
        /\ mrl.pc = "leave" => \A e \in Range(mrl.todo) : Absent(e)
        /\ Registering
    BY Zenon DEF SilentInv
  <2>2. ListensNext(x) OBVIOUS
  <2>3. Members(mrl', m_redundantEndpoints') = Members(mrl, r) BY Zenon
  <2>4. x \in Members(mrl', m_redundantEndpoints') => ReadNext(x)
    BY <2>3, Zenon
  <2>5. /\ \A e \in Endpoints : ListensNext(e)
        /\ \A e \in Members(mrl', m_redundantEndpoints') : ReadNext(e)
    BY <2>2, <2>3, <2>4, <1>SilentOne, Zenon
  <2>6. /\ \A e \in Endpoints : Listens(e)'
        /\ \A e \in Members(mrl', m_redundantEndpoints') : Read(e)'
    BY <2>5, Zenon DEF Listens, ListensNext, Read, ReadNext, Attended, AttendedNext
  <2>7. ASSUME NEW e, Absent(e), e \in Range(r) PROVE ~AttendedNext(e)
    <3>1. ~Attended(e) BY <2>7 DEF Absent
    <3>2. CASE e = x BY <2>7, <3>1, <3>2, Zenon
    <3>3. CASE e # x
      <4>1. e \in Endpoints BY <2>7, KeptTypes, Zenon
      <4> QED BY <3>1, <3>3, <4>1, Zenon DEF Only
    <3> QED BY <3>2, <3>3
  <2>8. mrl'.pc = "leave" => \A e \in Range(mrl'.todo) : Absent(e)'
    BY <2>7, Zenon DEF Absent, Attended, AttendedNext
  <2> QED BY <2>6, <2>8, Zenon DEF SilentInv
(* The other threads.                                                      *)
<1>SilentReceivers.
    ASSUME TypesInv, SilentInv, NEW x \in Endpoints, ReceiverStep(x)
    PROVE  SilentInv'
  <2> USE <1>SilentReceivers
  <2> DEFINE r == m_redundantEndpoints
  <2>.  /\ ListInv /\ EndpointTypes /\ mrl \in Holders
        /\ connected \in [Endpoints -> BOOLEAN] /\ listeners \in [Endpoints -> Nat]
        /\ receiver \in [Endpoints -> Receivers]
    BY TypesSplit, ListFacts, EndpointFacts, Zenon DEF TypesInv
  <2>.  /\ UNCHANGED <<mrl, channel>> /\ r' = r
    BY DEF ReceiverStep, ReceiveFails, CloseChannel, Quit, Untouched, lists
  <2>2. ep' = ep /\ (AsPrimary' <=> AsPrimary) BY DEF ep, AsPrimary
  <2>3. mrl.pc \in {"join", "start"} => ep \in Endpoints BY AddingTurn
  <2>0. /\ \A e : e # x => (e \in overtaken' <=> e \in overtaken)
        /\ x \in overtaken => x \in overtaken'
        /\ mrl.pc = "start" /\ ep = x =>
             overtaken' = overtaken \/ x \in overtaken'
    BY DEF ReceiverStep, ReceiveFails, CloseChannel, Quit
  <2>.  /\ Only(x) /\ (AttendedNext(x) => Attended(x))
        /\ Listens(x) => ListensNext(x)
        /\ Read(x) => ReadNext(x)
        /\ listeners'[x] <= listeners[x]
        /\ mrl.pc = "start" /\ ep = x
             /\ (receiver[x] = Reading \/ (receiver[x].pc = "lock" /\ x \in overtaken))
             => receiver'[x] = Reading
                \/ (receiver'[x].pc = "lock" /\ x \in overtaken')
    <3>1. CASE ReceiveFails(x)
      <4> DEFINE q == [receiver[x] EXCEPT !.pc = "lock"]
      <4>.  /\ receiver' = [receiver EXCEPT ![x] = q] /\ listeners' = listeners
            /\ connected' = [connected EXCEPT ![x] = FALSE]
            /\ mrl.pc = "start" /\ ep = x => x \in overtaken'
        BY <3>1 DEF ReceiveFails, Disconnect
      <4>2. q.pc = "lock" BY DEF Receivers
      <4> HIDE DEF q
      <4>3. receiver'[x].pc = "lock" /\ ~AttendedNext(x) BY <4>2 DEF AttendedNext
      <4>4. Only(x) BY <2>0 DEF Only, Attended, AttendedNext
      <4>5. listeners'[x] <= listeners[x] OBVIOUS
      <4> QED BY <4>3, <4>4, <4>5, Zenon
              DEF Listens, ListensNext, Read, ReadNext
    <3>2. CASE CloseChannel(x)
      <4> DEFINE q == [pc |-> "ended",
                       isRunning |-> receiver[x].isRunning /\ listeners[x] = 0]
      <4>.  /\ receiver' = [receiver EXCEPT ![x] = q]
            /\ listeners' = [listeners EXCEPT ![x] = 0]
            /\ connected' = connected /\ receiver[x].pc = "lock" /\ LockFree(x)
            /\ overtaken' = overtaken
        BY <3>2 DEF CloseChannel, status
      <4>1. ~(mrl.pc = "start" /\ ep = x) /\ (AttendedNext(x) <=> Attended(x))
        BY DEF LockFree, Attended, AttendedNext
      <4>2. receiver[x] # Reading BY DEF Reading
      <4> HIDE DEF q
      <4>3. listeners'[x] = 0 /\ listeners'[x] <= listeners[x] OBVIOUS
      <4>4. Only(x) BY <2>0 DEF Only, Attended, AttendedNext
      <4>5. ~(listeners'[x] > 0) BY <4>3
      <4> QED BY <4>1, <4>2, <4>3, <4>4, <4>5, Zenon
              DEF Listens, ListensNext, Read, ReadNext
    <3>3. CASE Quit(x)
      <4> DEFINE q == [receiver[x] EXCEPT !.pc = "ended"]
      <4>.  /\ receiver' = [receiver EXCEPT ![x] = q] /\ listeners' = listeners
            /\ connected' = connected /\ overtaken' = overtaken
            /\ receiver[x].pc = "receive" /\ ~receiver[x].isRunning
        BY <3>3 DEF Quit, status
      <4>1. AttendedNext(x) <=> Attended(x) BY DEF Attended, AttendedNext
      <4>2. receiver[x] # Reading BY DEF Reading
      <4> HIDE DEF q
      <4>3. Only(x) /\ listeners'[x] <= listeners[x]
        BY <2>0 DEF Only, Attended, AttendedNext
      <4>4. receiver[x].pc # "lock" OBVIOUS
      <4> QED BY <4>1, <4>2, <4>3, <4>4, Zenon
              DEF Listens, ListensNext, Read, ReadNext
    <3> QED BY <3>1, <3>2, <3>3 DEF ReceiverStep
  <2>5. Registering => Registering'
    <3> SUFFICES ASSUME Registering PROVE Registering' OBVIOUS
    <3>.  CASE mrl.pc \in {"join", "start"}
      <4>.  /\ listeners[ep] = 0
            /\ channel[ep] \in {IF AsPrimary THEN "primary" ELSE "secondary", "broken"}
            /\ mrl.pc = "start" => \/ receiver[ep] = Reading
                                   \/ receiver[ep].pc = "lock" /\ ep \in overtaken
        BY DEF Registering
      <4>2. /\ listeners'[ep] = 0
            /\ mrl.pc = "start" => \/ receiver'[ep] = Reading
                                   \/ receiver'[ep].pc = "lock" /\ ep \in overtaken'
        <5>1. CASE ep = x
          <6>1. listeners' \in [Endpoints -> Nat]
            BY DEF ReceiverStep, ReceiveFails, CloseChannel, Quit
          <6>2. listeners'[x] = 0 /\ listeners[x] = 0 BY <2>3, <5>1, <6>1
          <6> QED BY <2>3, <5>1, <6>2, Zenon
        <5>2. CASE ep # x BY <2>0, <2>3, <5>2, Zenon DEF Only
        <5> QED BY <5>1, <5>2
      <4> QED BY <2>2, <4>2 DEF Registering
    <3>2. CASE mrl.pc \notin {"join", "start"} BY <3>2, <1>NotRegistering
    <3> QED BY <3>2
  <2>6. UNCHANGED <<mrl, m_redundantEndpoints>> OBVIOUS
  <2> QED BY <2>5, <2>6, <1>SilentFrame, Zenon
<1>SilentServers.
    ASSUME TypesInv, SilentInv, NEW x \in Endpoints, ServerStep(x)
    PROVE  SilentInv'
  <2> USE <1>SilentServers
  <2> DEFINE r == m_redundantEndpoints
  <2>.  /\ ListInv /\ EndpointTypes /\ mrl \in Holders
        /\ connected \in [Endpoints -> BOOLEAN] /\ channel \in [Endpoints -> Channels]
    BY TypesSplit, ListFacts, EndpointFacts, Zenon DEF TypesInv
  <2>.  /\ UNCHANGED <<mrl, m_redundantEndpoints, listeners, receiver>>
        /\ channel' = channel \/ channel' = Broken(x)
        /\ \/ connected' = connected /\ overtaken' = overtaken
           \/ connected' = [connected EXCEPT ![x] = FALSE] /\ overtaken' = overtaken
           \/ Reconnect(x) /\ connected' = [connected EXCEPT ![x] = TRUE]
              /\ overtaken' \in {overtaken, overtaken \cup {x}}
    <3>1. CASE Crash(x) \/ Restart(x) \/ Break(x)
      BY <3>1 DEF Crash, Restart, Break, lists, status
    <3>2. CASE RequestFails(x)
      BY <3>2 DEF RequestFails, lists, Disconnect
    <3>3. CASE Reconnect(x)
      BY <3>3 DEF Reconnect, Untouched, lists
    <3> QED BY <3>1, <3>2, <3>3, Zenon DEF ServerStep
  <2>.  /\ \A e \in Endpoints : e # x => channel'[e] = channel[e]
        /\ channel[x] # "none" => channel'[x] # "none"
        /\ \A e \in Endpoints : channel'[e] = channel[e] \/ channel'[e] = "broken"
    <3>1. CASE channel' = channel BY <3>1
    <3>2. CASE channel' = Broken(x) BY <3>2 DEF Broken
    <3> QED BY <3>1, <3>2
  <2>3. Only(x) BY DEF Only, Attended, AttendedNext
  <2>4. Listens(x) => ListensNext(x)
    BY Zenon DEF Listens, ListensNext
  <2>5. Reconnect(x) /\ (x \in Members(mrl, r) \/ x \in Range(r)) => x \in overtaken'
    <3> SUFFICES ASSUME Reconnect(x), x \in Members(mrl, r) \/ x \in Range(r)
                 PROVE  x \in overtaken'
      OBVIOUS
    <3>1. \/ x \in Range(r) \/ x \in Range(mrl.tempRedundant)
          \/ mrl.pc = "recover" /\ x = ep
      BY MembersAre, Zenon DEF ep
    <3> QED BY <3>1 DEF Reconnect
  <2>6. x \in Members(mrl, r) \/ x \in Range(r) => (AttendedNext(x) => Attended(x))
    BY <2>5 DEF Attended, AttendedNext
  <2>7. x \in Members(mrl, r) /\ Read(x) => ReadNext(x)
    BY <2>6, Zenon DEF Read, ReadNext
  <2>8. Registering => Registering'
    <3>1. ep' = ep /\ (AsPrimary' <=> AsPrimary) BY DEF ep, AsPrimary
    <3>2. mrl.pc \in {"join", "start"} =>
            channel'[ep] = channel[ep] \/ channel'[ep] = "broken"
      BY AddingTurn
    <3>3. ep \in overtaken => ep \in overtaken' OBVIOUS
    <3> QED BY <3>1, <3>2, <3>3 DEF Registering
  <2>10. x \in Range(m_redundantEndpoints) /\ AttendedNext(x) => Attended(x)
    BY <2>6, Zenon
  <2>11. UNCHANGED <<mrl, m_redundantEndpoints>> OBVIOUS
  <2> QED BY <2>3, <2>4, <2>7, <2>8, <2>10, <2>11, <1>SilentFrame, Zenon
(* The steps that begin and end a run.                                     *)
<1>SilentEnds.
    ASSUME TypesInv, SilentInv, mrl.pc \notin Destroying,
           NEW x \in Endpoints, Only(x), ListensNext(x),
           \A e \in Members(mrl', m_redundantEndpoints') :
              e \in Members(mrl, m_redundantEndpoints),
           x \in Members(mrl', m_redundantEndpoints') => ReadNext(x),
           mrl'.pc \notin {"join", "start"},
           mrl'.pc = "leave" => \A e \in Range(mrl'.todo) :
                                  e \in Range(m_redundantEndpoints') => ~AttendedNext(e)
    PROVE  SilentInv'
  <2> USE <1>SilentEnds
  <2>1. ListInv BY DEF TypesInv
  <2>2. /\ \A e \in Endpoints : ListensNext(e)
        /\ \A e \in Members(mrl', m_redundantEndpoints') : ReadNext(e)
    BY <2>1, <1>SilentOne, Zenon
  <2>3. /\ \A e \in Endpoints : Listens(e)'
        /\ \A e \in Members(mrl', m_redundantEndpoints') : Read(e)'
    BY <2>2, Zenon DEF Listens, ListensNext, Read, ReadNext, Attended, AttendedNext
  <2>4. Registering' BY <1>NotRegistering
  <2>5. mrl'.pc = "leave" => \A e \in Range(mrl'.todo) : Absent(e)'
    BY Zenon DEF Absent, Attended, AttendedNext
  <2> QED BY <2>3, <2>4, <2>5, Zenon DEF SilentInv
<1>SilentStill.
    ASSUME TypesInv, SilentInv, mrl.pc \notin Destroying,
           UNCHANGED <<channel, connected, overtaken, listeners, receiver>>,
           \A e \in Members(mrl', m_redundantEndpoints') :
              e \in Members(mrl, m_redundantEndpoints),
           mrl'.pc \notin {"join", "start"},
           mrl'.pc = "leave" => \A e \in Range(mrl'.todo) :
                                  e \in Range(m_redundantEndpoints') => ~Attended(e)
    PROVE  SilentInv'
  <2> USE <1>SilentStill
  <2>1. PICK x \in Endpoints : Loses(x) BY SomeEndpoint, <1>UnchangedLoses, Zenon
  <2>2. /\ Only(x) /\ ListensNext(x)
        /\ x \in Members(mrl', m_redundantEndpoints') => ReadNext(x)
    BY <2>1, <1>LosesKeeps, Zenon DEF SilentInv
  <2>3. \A e : AttendedNext(e) <=> Attended(e) BY DEF Attended, AttendedNext
  <2> QED BY <2>2, <2>3, <1>SilentEnds, Zenon
<1>SilentRearrange.
    ASSUME TypesInv, SilentInv, Rearrange
    PROVE  SilentInv'
  <2> USE <1>SilentRearrange
  <2> DEFINE r == m_redundantEndpoints
             n == m_nonredundantEndpoints
             tr == mrl.tempRedundant
             tn == mrl.tempNonredundant
             m == mrl'
  <2>0. ListInv /\ mrl \in Holders BY TypesSplit, ListFacts, Zenon DEF TypesInv
  <2>1. mrl.pc = "promote" /\ m = Fresh("leave", tn)
        /\ UNCHANGED <<channel, connected, overtaken, listeners, receiver>>
    BY DEF Rearrange, Fresh, endpointVars, status, others
  <2>2. /\ Range(r') = (Range(r) \ Range(tn)) \cup Range(tr) /\ ListInv'
    BY <2>0, RearrangeInv, Zenon
  <2>3. m.pc = "leave" /\ m.todo = tn
    <3>1. tn \in Seq(Endpoints) BY <2>0, HolderTypes, Zenon
    <3> HIDE DEF tn
    <3> QED BY <2>1, <3>1, FreshHolder
  <2>4. /\ mrl.pc \notin Destroying /\ m.pc \notin Busy
        /\ m.pc \notin {"join", "start"} /\ mrl.pc # "idle"
    BY <2>1, <2>3 DEF Destroying, Busy
  <2>5. Rests(m) BY <2>2, <2>4, Zenon DEF ListInv, HolderInv
  <2>6. Members(m, r') = Range(r')
    <3> DEFINE q == r'
    <3> HIDE DEF m, q
    <3>1. Members(m, q) = Range(q) BY <2>4, <2>5, MembersAtRest
    <3> QED BY <3>1 DEF q
  <2>7. \A e \in Members(mrl', m_redundantEndpoints') : e \in Members(mrl, r)
    BY <2>2, <2>6, MembersAre, Zenon
  <2>9. \A e \in Range(tn) : e \notin Range(r')
    <3>.  /\ r \in Seq(Endpoints) /\ n \in Seq(Endpoints)
          /\ tr \in Seq(Endpoints) /\ tn \in Seq(Endpoints)
          /\ Partition(r, n) /\ Promoting(mrl, r, n)
      BY <2>0, <2>1, HolderTypes, Zenon DEF ListInv, HolderInv
    <3>2. /\ TakenFrom(tn, r, Len(r)) /\ TakenFrom(tr, n, Len(n))
          /\ IsInjective(r) /\ IsInjective(n) /\ Range(r) \cap Range(n) = {}
      BY Zenon DEF Promoting, Partition
    <3>3. /\ Len(r) \in Nat /\ Len(r) <= Len(r) /\ Len(n) \in Nat /\ Len(n) <= Len(n)
      OBVIOUS
    <3> HIDE DEF r, n, tr, tn
    <3>4. Range(tn) \subseteq Range(r) BY <3>2, <3>3, TakenFacts, Zenon
    <3>5. Range(tr) \subseteq Range(n) BY <3>2, <3>3, TakenFacts, Zenon
    <3> QED BY <2>2, <3>2, <3>4, <3>5
  <2>10. \A e \in Range(mrl'.todo) :
            e \in Range(m_redundantEndpoints') => ~Attended(e)
    BY <2>3, <2>9, Zenon
  <2> QED BY <2>1, <2>4, <2>7, <2>10, <1>SilentStill, Zenon
<1>SilentLeave.
    ASSUME TypesInv, SilentInv, Leave
    PROVE  SilentInv'
  <2> USE <1>SilentLeave
  <2> DEFINE r == m_redundantEndpoints
             m == mrl'
             x == ep
  <2>.  ListInv /\ EndpointTypes /\ mrl \in Holders /\ ListInv'
    BY TypesSplit, ListFacts, ListInvNext, Zenon
       DEF TypesInv, Next, maintainRedundancyLevel
  <2>.  mrl.pc = "leave" /\ r' = r /\ UNCHANGED <<overtaken, channel, connected>>
    BY DEF Leave, lists, others, status
  <2>1. \A e : AttendedNext(e) <=> Attended(e) BY DEF Attended, AttendedNext
  <2>2. m.pc \in {"leave", "idle"}
    <3>1. CASE mrl.todo = <<>> BY <3>1, IdleHolder DEF Leave
    <3>.  CASE mrl.todo # <<>>
      <4>1. m = Following BY Zenon DEF Leave
      <4>2. Following.pc = mrl.pc BY FollowingHolder, Zenon
      <4> QED BY <4>1, <4>2
    <3> QED BY <3>1
  <2>.  /\ mrl.pc \notin Busy /\ mrl.pc \notin Destroying /\ m.pc \notin Busy
        /\ m.pc \notin {"join", "start"} /\ mrl.pc # "idle"
    BY <2>2 DEF Busy, Destroying
  <2>4. Rests(mrl) /\ Rests(m) BY Zenon DEF ListInv, HolderInv
  <2>.  Members(mrl, r) = Range(r) BY <2>4, MembersAtRest
  <2>6. Members(m, r) = Range(r)
    <3> HIDE DEF m
    <3> QED BY <2>4, MembersAtRest
  <2>.  \A e \in Members(mrl', m_redundantEndpoints') : e \in Members(mrl, r)
    BY <2>6, Zenon
  <2>9. \A e \in Range(mrl.todo) : Absent(e) BY Zenon DEF SilentInv
  <2>10. CASE mrl.todo = <<>>
    <3>1. m.pc # "leave" /\ UNCHANGED <<listeners, receiver>>
      BY <2>10, IdleHolder DEF Leave
    <3> QED BY <3>1, <1>SilentStill, Zenon
  <2>.   CASE mrl.todo # <<>>
    <3> DEFINE t == mrl.todo
    <3>1. m = Following /\ unregisterDM(x) BY Zenon DEF Leave
    <3>2. m.todo = Tail(t) /\ t \in Seq(Endpoints)
      BY <3>1, FollowingHolder, HolderTypes, Zenon
    <3>.  x \in Endpoints /\ x \in Range(t) /\ Range(Tail(t)) \subseteq Range(t)
      <4>1. x = Head(t) /\ t # <<>> BY DEF ep
      <4> HIDE DEF t, x
      <4> QED BY <3>2, <4>1, RangeTail
    <3>4. \A e \in Range(mrl'.todo) :
            e \in Range(m_redundantEndpoints') => ~AttendedNext(e)
      <4>1. \A e \in Range(mrl'.todo) : Absent(e)
        BY <2>9, <3>2, Zenon
      <4> QED BY <2>1, <4>1, Zenon DEF Absent
    <3>5. /\ Listens(x) /\ (x \in Range(r) => Read(x) /\ ~Attended(x))
      BY <2>9, Zenon DEF SilentInv, Absent
    <3> HIDE DEF x
    <3>6. /\ Listens(x) => ListensNext(x)
          /\ \A e \in Endpoints : e # x => /\ listeners'[e] = listeners[e]
                                           /\ receiver'[e] = receiver[e]
      BY <3>1, UnregisterKeeps, Zenon
    <3>7. Only(x) BY <2>1, <3>6, Zenon DEF Only
    <3>8. x \in Members(mrl', m_redundantEndpoints') => ReadNext(x)
      <4>1. x \in Members(mrl', m_redundantEndpoints') => x \in Range(r)
        BY Zenon
      <4> QED BY <2>1, <3>5, <4>1, Zenon DEF Read, ReadNext
    <3>9. ListensNext(x) BY <3>5, <3>6
    <3> QED BY <3>4, <3>7, <3>8, <3>9, <1>SilentEnds, Zenon
  <2> QED BY <2>10
<1>SilentBegins.
    ASSUME TypesInv, SilentInv, redundancy \/ maintainAfterError
    PROVE  SilentInv'
  <2> USE <1>SilentBegins
  <2> DEFINE r == m_redundantEndpoints
             m == mrl'
  <2>.  ListInv /\ TypeOK /\ mrl \in Holders /\ r \in Seq(Endpoints)
    BY TypesSplit, ListFacts, Zenon DEF TypesInv
  <2>1. /\ mrl.pc = "idle" /\ r' = r /\ m = Begun(FALSE)
        /\ UNCHANGED <<channel, connected, overtaken, listeners, receiver>>
    BY Zenon DEF redundancy, maintainAfterError, lists, endpointVars, status, others
  <2>2. mrl.pc \notin Busy /\ mrl.pc \notin Destroying
    BY <2>1 DEF Busy, Destroying
  <2>3. Rests(mrl) BY <2>2, Zenon DEF ListInv, HolderInv
  <2>4. Members(mrl, r) = Range(r) BY <2>2, <2>3, MembersAtRest
  <2>5. m.pc = "scan" /\ m.tempRedundant = <<>> /\ m.tempNonredundant = <<>>
    BY <2>1, BegunHolder, Zenon
  <2>6. Range(m.tempRedundant) = {} BY <2>5 DEF Range
  <2>7. m.pc # "recover" /\ m.pc \notin {"join", "start"} /\ m.pc # "leave"
    BY <2>5
  <2>8. \A e \in Members(m, r) : e \in Range(r) BY <2>6, <2>7, MembersAre, Zenon
  <2>9. \A e \in Members(mrl', m_redundantEndpoints') : e \in Members(mrl, r)
    BY <2>1, <2>4, <2>8, Zenon
  <2> QED BY <2>1, <2>2, <2>7, <2>9, <1>SilentStill, Zenon
(* A failed ping disconnects its endpoint under the lock.                  *)
<1>SilentPing.
    ASSUME TypesInv, SilentInv, NEW x \in Endpoints, PingFails(x)
    PROVE  SilentInv'
  <2> USE <1>SilentPing
  <2> DEFINE r == m_redundantEndpoints
             m == mrl'
  <2>0. ListInv /\ EndpointTypes /\ mrl \in Holders /\ r \in Seq(Endpoints)
        /\ connected \in [Endpoints -> BOOLEAN]
    BY TypesSplit, ListFacts, EndpointFacts, Zenon DEF TypesInv, TypeOK
  <2>1. /\ mrl.pc = "idle" /\ r' = r /\ m = Fresh("leave", <<x>>)
        /\ connected' = [connected EXCEPT ![x] = FALSE]
        /\ UNCHANGED <<channel, overtaken, listeners, receiver>>
    BY Zenon DEF PingFails, Disconnect, lists, Fresh
  <2>2. mrl.pc \notin Busy /\ mrl.pc \notin Destroying
    BY <2>1 DEF Busy, Destroying
  <2>3. Rests(mrl) BY <2>0, <2>2, Zenon DEF ListInv, HolderInv
  <2>4. Members(mrl, r) = Range(r) BY <2>2, <2>3, MembersAtRest
  <2>5. /\ m.pc = "leave" /\ m.todo = <<x>> /\ m.tempRedundant = <<>>
        /\ m.tempNonredundant = <<>>
    BY <2>1, PingedList, FreshHolder
  <2>6. Range(m.tempRedundant) = {} BY <2>5 DEF Range
  <2>7. m.pc # "recover" /\ m.pc \notin {"join", "start"} BY <2>5
  <2>8. \A e \in Members(m, r) : e \in Range(r) BY <2>6, <2>7, MembersAre, Zenon
  <2>9. \A e \in Members(mrl', m_redundantEndpoints') : e \in Members(mrl, r)
    BY <2>1, <2>4, <2>8, Zenon
  <2>10. ~AttendedNext(x) /\ \A e \in Endpoints : e # x => connected'[e] = connected[e]
    BY <2>0, <2>1 DEF AttendedNext
  <2>11. Loses(x) BY <2>1, <2>10, Zenon DEF Loses, Only, Attended, AttendedNext
  <2>12. Listens(x) /\ (x \in Members(mrl, r) => Read(x))
    BY <2>2, Zenon DEF SilentInv
  <2>13. /\ Only(x) /\ ListensNext(x)
         /\ x \in Members(mrl', m_redundantEndpoints') => ReadNext(x)
    BY <2>9, <2>11, <2>12, <1>LosesKeeps, Zenon
  <2>14. \A e \in Range(mrl'.todo) : ~AttendedNext(e)
    BY <2>5, <2>10, PingedList, Zenon
  <2> QED BY <2>2, <2>7, <2>9, <2>13, <2>14, <1>SilentEnds, Zenon
<1>SilentNext.
    ASSUME TypesInv, SilentInv, [Next]_vars
    PROVE  SilentInv'
  <2> USE <1>SilentNext
  <2>1. CASE destroy \/ DestroyStep
    <3>1. mrl'.pc \in Destroying BY <2>1, Destroyed
    <3> QED BY <3>1, Zenon DEF SilentInv
  <2>2. CASE Monitor \/ UNCHANGED vars
    <3>.  UNCHANGED <<mrl, m_redundantEndpoints, channel, connected, listeners,
                      receiver, overtaken>>
      BY <2>2 DEF Monitor, Untouched, vars, lists, status
    <3>2. Registering => Registering' BY DEF Registering, ep, AsPrimary
    <3>3. PICK x \in Endpoints : Loses(x)
      BY SomeEndpoint, <1>UnchangedLoses, Zenon
    <3>4. /\ Only(x) /\ (Listens(x) => ListensNext(x)) /\ (Read(x) => ReadNext(x))
          /\ AttendedNext(x) => Attended(x)
      BY <3>3, <1>LosesKeeps, Zenon DEF Loses
    <3> QED BY <3>2, <3>4, <1>SilentFrame, Zenon
  <2> QED BY <2>1, <2>2, <1>SilentScan, <1>SilentOffer, <1>SilentRearrange, <1>SilentLeave,
             <1>SilentBegins, <1>SilentPing, <1>SilentReceivers, <1>SilentServers, Zenon
          DEF Next, maintainRedundancyLevel
<1>1. Init => SilentInv BY SilentInit
<1>2. TypesInv /\ SilentInv /\ [Next]_vars => SilentInv' BY <1>SilentNext
<1> QED BY <1>1, <1>2, TypesInvHolds, PTL DEF Spec

(* Whatever the threads and the servers do, a redundant endpoint that      *)
(* counts as connected has a thread that reads its channel, unless its     *)
(* loss was overtaken since the thread was made: registerDM, unregisterDM  *)
(* and the thread's own end keep the listeners, the threads and the        *)
(* channels in step, and an endpoint is silent in that one way only.       *)
THEOREM EndpointsAreRead ==
  Spec => []NoSilentEndpoint
<1>1. TypesInv /\ SilentInv => NoSilentEndpoint
  <2> SUFFICES ASSUME TypesInv, SilentInv, Free
               PROVE  \A e \in Range(m_redundantEndpoints) \ overtaken :
                        connected[e] => receiver[e] = Reading /\ listeners[e] > 0
    BY Zenon DEF NoSilentEndpoint, Reading
  <2>.  mrl.pc \notin Busy /\ mrl.pc \notin Destroying
    BY DEF Free, Busy, Destroying
  <2>2. Rests(mrl) BY ListFacts, Zenon DEF TypesInv
  <2>3. Members(mrl, m_redundantEndpoints) = Range(m_redundantEndpoints)
    BY <2>2, MembersAtRest
  <2> QED BY <2>3, Zenon DEF SilentInv, Read, Attended
<1> QED BY <1>1, SilentInvHolds, TypesInvHolds, PTL

-----------------------------------------------------------------------------
(* The first redundant endpoint is the primary.                            *)

(* Some endpoint of those examined stays.                                  *)
Found(m, r) == \E e \in Examined(m, r) : e \notin Range(m.tempNonredundant)

(* There is a primary once an endpoint stays; before that, the primary is  *)
(* a new endpoint, and the last one.                                       *)
FoundInv ==
  mrl.pc \in Busy =>
    /\ mrl.isPrimaryConnected /\ ~mrl.isPrimaryAtBack
         <=> Found(mrl, m_redundantEndpoints)
    /\ mrl.pc \in Offering /\ mrl.isPrimaryAtBack => mrl.isRedundancySatisfied

FirstKept(m, r, e) ==
  \E j \in 1..Len(r) :
    /\ e = r[j] /\ e \notin Range(m.tempNonredundant)
    /\ \A i \in 1..(j - 1) : r[i] \in Range(m.tempNonredundant)

(* The endpoint that is the primary as things stand: the new one at the    *)
(* back, or the first that stays, or the one that is being added.          *)
Leads(m, r, e) ==
  \/ m.isPrimaryAtBack /\ e = Last(m.tempRedundant)
  \/ /\ ~m.isPrimaryAtBack /\ FirstKept(m, r, e)
     /\ m.isPrimaryConnected \/ m.tempNonredundant = <<>>
  \/ /\ m.pc = "recover" /\ ~m.isPrimaryConnected
     /\ m.secondaryCount = m_redundancyLevel /\ e = Head(m.todo)

Role(e) ==
  Attended(e) /\ channel[e] # "broken" /\ listeners[e] = 1 =>
    (channel[e] = "primary" <=> Leads(mrl, m_redundantEndpoints, e))

(* The same after a step.                                                  *)
RoleNext(e) ==
  AttendedNext(e) /\ channel'[e] # "broken" /\ listeners'[e] = 1 =>
    (channel'[e] = "primary" <=> Leads(mrl', m_redundantEndpoints', e))

RoleInv ==
  mrl.pc \notin Destroying =>
    \A e \in Members(mrl, m_redundantEndpoints) : Role(e)

(* A step that asks no more of x than before.                              *)
Fades(x) ==
  /\ Only(x)
  /\ \/ ~AttendedNext(x) \/ channel'[x] = "broken" \/ listeners'[x] # 1
     \/ /\ AttendedNext(x) <=> Attended(x)
        /\ channel'[x] = channel[x]
        /\ listeners'[x] = listeners[x]

(* In every schedule the server of the first redundant endpoint, and of no *)
(* other, treats this client's channel as the primary one, whatever        *)
(* endpoints the scan drops, maintainRedundancyLevel adds, promotes or     *)
(* rearranges and the servers do meanwhile; left out are endpoints that    *)
(* are registered twice and those whose loss was overtaken.                *)
THEOREM PrimaryIsFirst ==
  Spec => []PrimaryLeads
(* The endpoint in turn comes after those examined.                        *)
<1>ScanPlace.
    ASSUME ListInv, Goes("scan"), NEW m, m.pc = "scan", m.todo = Tail(mrl.todo)
    PROVE  LET r == m_redundantEndpoints
               k == Len(r) - Len(mrl.todo)
           IN  /\ k \in Nat /\ k + 1 \in 1..Len(r) /\ ep = r[k + 1] /\ ep \in Endpoints
               /\ \A e : e \in Examined(mrl, r) <=> \E i \in 1..k : e = r[i]
               /\ \A e : e \in Examined(m, r) <=> e \in Examined(mrl, r) \/ e = ep
               /\ ep \notin Examined(mrl, r)
               /\ \A e \in Range(mrl.tempNonredundant) : e \in Examined(mrl, r)
  <2> USE <1>ScanPlace
  <2> DEFINE r == m_redundantEndpoints
             t == mrl.todo
             k == Len(r) - Len(t)
             tn == mrl.tempNonredundant
  <2>.  /\ mrl.pc = "scan" /\ t # <<>> /\ mrl \in Holders /\ RestOf(t, r)
        /\ TakenFrom(tn, r, k)
    BY ScanFacts, Zenon DEF Scanning
  <2>.  r \in Seq(Endpoints) /\ IsInjective(r)
    BY ListFacts DEF Partition
  <2>.  t \in Seq(Endpoints) /\ tn \in Seq(Endpoints) BY HolderTypes, Zenon
  <2>4. /\ k + 1 \in 1..Len(r) /\ Len(r) - Len(Tail(t)) = k + 1
        /\ Head(t) = r[k + 1]
    BY RestTail, Zenon
  <2>5. ep = r[k + 1] /\ ep \in Endpoints
    BY <2>4, TurnType, Zenon DEF ep
  <2>.  k \in Nat /\ k <= Len(r) /\ Len(r) \in Nat BY <2>4
  <2>7. \A e : e \in Examined(mrl, r) <=> \E i \in 1..k : e = r[i]
    <3>1. Examined(mrl, r) = {r[i] : i \in 1..k} BY Zenon DEF Examined
    <3> HIDE DEF k, r
    <3> QED BY <3>1, Zenon
  <2>8. \A e : e \in Examined(m, r) <=> \E i \in 1..(k + 1) : e = r[i]
    <3>1. Examined(m, r) = {r[i] : i \in 1..(k + 1)} BY <2>4, Zenon DEF Examined
    <3> HIDE DEF k, r
    <3> QED BY <3>1, Zenon
  <2>9. \A i, j \in 1..Len(r) : r[i] = r[j] => i = j BY SeqFacts
  <2>10. \A e \in Range(tn) : \E i \in 1..k : e = r[i]
    <3> HIDE DEF k, r, tn
    <3>1. Range(tn) \subseteq {r[j] : j \in 1..k}
      BY TakenFacts, Zenon
    <3> QED BY <3>1
  <2> HIDE DEF k, r, tn
  <2>11. \A e : (\E i \in 1..(k + 1) : e = r[i]) <=> (\E i \in 1..k : e = r[i]) \/ e = r[k + 1]
    <3>1. \A i \in 1..(k + 1) : i \in 1..k \/ i = k + 1 OBVIOUS
    <3>2. \A i \in 1..k : i \in 1..(k + 1) OBVIOUS
    <3>3. k + 1 \in 1..(k + 1) OBVIOUS
    <3> QED BY <3>1, <3>2, <3>3, Zenon
  <2>12. ~\E i \in 1..k : r[k + 1] = r[i]
    <3> SUFFICES ASSUME NEW i \in 1..k, r[k + 1] = r[i] PROVE FALSE OBVIOUS
    <3>1. i \in 1..Len(r) /\ i # k + 1 OBVIOUS
    <3> QED BY <2>4, <2>9, <3>1, Zenon
  <2>13. /\ \A e : e \in Examined(m, r) <=> e \in Examined(mrl, r) \/ e = ep
         /\ ep \notin Examined(mrl, r)
         /\ \A e \in Range(tn) : e \in Examined(mrl, r)
    BY <2>5, <2>7, <2>8, <2>10, <2>11, <2>12, Zenon
  <2> QED BY <2>4, <2>5, <2>7, <2>13, Zenon DEF k, r, tn
(* The holder after an endpoint that is gone.                              *)
<1>GoneRange.
    ASSUME mrl \in Holders, mrl.todo # <<>>
    PROVE  /\ Gone.pc = mrl.pc /\ Gone.todo = Tail(mrl.todo)
           /\ SameCounts(Gone, mrl) /\ Gone.tempRedundant = mrl.tempRedundant
           /\ Gone.tempNonredundant = Append(mrl.tempNonredundant, ep)
           /\ \A e : e \in Range(Gone.tempNonredundant)
                       <=> e \in Range(mrl.tempNonredundant) \/ e = ep
  <2> USE <1>GoneRange
  <2> DEFINE tn == mrl.tempNonredundant
  <2>1. /\ Gone.pc = mrl.pc /\ Gone.todo = Tail(mrl.todo)
        /\ SameCounts(Gone, mrl) /\ Gone.tempRedundant = mrl.tempRedundant
        /\ Gone.tempNonredundant = Append(tn, ep)
    BY GoneHolder, Zenon
  <2>2. tn \in Seq(Endpoints) /\ ep \in Endpoints
    BY HolderTypes, FollowingHolder, Zenon
  <2>3. \A e : e \in Range(Append(tn, ep)) <=> e \in Range(tn) \/ e = ep
    <3> DEFINE x == ep
    <3> HIDE DEF tn, x
    <3>1. Range(Append(tn, x)) = Range(tn) \cup {x} BY <2>2, RangeAppend DEF x
    <3> QED BY <3>1 DEF x
  <2> QED BY <2>1, <2>3, Zenon
<1>FoundScan.
    ASSUME TypesInv, FoundInv, Scan
    PROVE  FoundInv'
  <2> USE <1>FoundScan
  <2> DEFINE r == m_redundantEndpoints
             m == mrl'
  <2>.  ListInv /\ mrl \in Holders BY TypesSplit, ListFacts, Zenon DEF TypesInv
  <2>.  mrl.pc = "scan" /\ r' = r
    BY DEF Scan, ScanFirst, ScanPromote, ScanSecondary, Select, Goes, Ends, lists
  <2>2. mrl.pc \in Busy BY DEF Busy
  <2>3. mrl.isPrimaryConnected /\ ~mrl.isPrimaryAtBack <=> Found(mrl, r)
    BY <2>2, Zenon DEF FoundInv
  <2>.  CASE Select
    <3>1. mrl.todo = <<>> \/ mrl.isRedundancySatisfied BY DEF Select, Ends
    <3>.  Scanning(mrl, r) /\ r \in Seq(Endpoints)
      BY Zenon DEF ListInv, HolderInv
    <3>3. mrl.todo = <<>> /\ ~mrl.isPrimaryAtBack BY <3>1, Zenon DEF Scanning
    <3>4. Examined(mrl, r) = Range(r)
      <4>1. Len(r) - Len(mrl.todo) = Len(r) BY <3>3
      <4>2. Range(r) = {r[i] : i \in 1..Len(r)} BY SeqFacts
      <4> QED BY <4>1, <4>2, Zenon DEF Examined
    <3>.  /\ m.pc = "offer" /\ m.isPrimaryConnected = mrl.isPrimaryConnected
          /\ m.tempNonredundant = mrl.tempNonredundant
          /\ m.isPrimaryAtBack = mrl.isPrimaryAtBack
      BY DEF Select, Holders
    <3>6. m.pc # "scan" OBVIOUS
    <3>7. Examined(m, r) = Range(r) BY <3>6, Zenon DEF Examined
    <3>8. Found(m, r) <=> Found(mrl, r) BY <3>4, <3>7, Zenon DEF Found
    <3>9. Found(mrl', m_redundantEndpoints') <=> Found(m, r) BY Zenon
    <3> QED BY <2>3, <3>3, <3>8, <3>9, Zenon DEF FoundInv
  <2>5. CASE ~Select
    <3>.  Goes("scan") /\ (m = Gone \/ Scanned)
      BY <2>5, ScanFirstInv, ScanSecondaryInv, ScanPromoteInv, Zenon
         DEF Scan, ScanFirst, ScanPromote, ScanSecondary
    <3>2. /\ mrl.todo # <<>> /\ ~mrl.isPrimaryAtBack BY ScanFacts, Zenon
    <3>.  /\ Gone.pc = "scan" /\ Gone.todo = Tail(mrl.todo)
          /\ Gone.isPrimaryConnected = mrl.isPrimaryConnected
          /\ Gone.isPrimaryAtBack = mrl.isPrimaryAtBack
          /\ \A e : e \in Range(Gone.tempNonredundant)
                      <=> e \in Range(mrl.tempNonredundant) \/ e = ep
      BY <3>2, <1>GoneRange, Zenon DEF SameCounts
    <3>4. m.pc = "scan" /\ m.todo = Tail(mrl.todo)
      BY Zenon DEF Scanned
    <3>5. /\ \A e : e \in Examined(m, r) <=> e \in Examined(mrl, r) \/ e = ep
          /\ ep \notin Examined(mrl, r)
          /\ \A e \in Range(mrl.tempNonredundant) : e \in Examined(mrl, r)
      <4> HIDE DEF m
      <4> QED BY <3>4, <1>ScanPlace, Zenon
    <3>6. m.pc \notin Offering BY <3>4 DEF Offering, Adding
    <3>.  CASE m = Gone
      <4>1. Found(m, r) <=> Found(mrl, r) BY <3>5, Zenon DEF Found
      <4> QED BY <2>3, <3>2, <3>6, <4>1, Zenon DEF FoundInv
    <3>8. CASE Scanned
      <4>1. /\ m.tempNonredundant = mrl.tempNonredundant /\ m.isPrimaryConnected
            /\ ~m.isPrimaryAtBack
        BY <3>8, Zenon DEF Scanned
      <4>2. Found(m, r) BY <3>5, <4>1, Zenon DEF Found
      <4> QED BY <3>6, <4>1, <4>2, Zenon DEF FoundInv
    <3> QED BY <3>8
  <2> QED BY <2>5
(* Until an endpoint is added the loop over the other endpoints changes    *)
(* neither the counts nor what is to be moved.                             *)
<1>OfferSame.
    ASSUME ListInv, Offer, ~Recover
    PROVE  /\ mrl.pc \in Offering /\ mrl'.pc \in Offering \cup {"promote"}
           /\ m_redundantEndpoints' = m_redundantEndpoints
           /\ SameCounts(mrl', mrl)
           /\ mrl'.tempRedundant = mrl.tempRedundant
           /\ mrl'.tempNonredundant = mrl.tempNonredundant
  <2> USE <1>OfferSame
  <2>.  mrl \in Holders BY ListFacts, Zenon
  <2>.  m_redundantEndpoints' = m_redundantEndpoints
    BY Zenon DEF Offer, Skip, RegisterFails, Register, Join, Started, RecoverFails,
           RecoverCqsFails, OfferEnds, lists
  <2>2. CASE Skip
    <3>.  mrl' = Following /\ mrl.pc = "offer" /\ mrl.todo # <<>>
      BY <2>2, Zenon DEF Skip, Goes
    <3>2. /\ Following.pc = mrl.pc /\ SameCounts(Following, mrl)
          /\ Following.tempRedundant = mrl.tempRedundant
          /\ Following.tempNonredundant = mrl.tempNonredundant
      BY FollowingHolder, Zenon
    <3>3. mrl.pc \in Offering /\ mrl.pc \in Offering \cup {"promote"}
      BY DEF Offering
    <3> QED BY <3>2, <3>3, Zenon
  <2>.  CASE RegisterFails \/ RecoverFails \/ RecoverCqsFails
    <3>1. mrl.pc \in Adding \/ Goes("offer")
      BY Zenon DEF RegisterFails, RecoverFails, RecoverCqsFails, Adding
    <3>2. mrl.pc \in Offering /\ mrl.todo # <<>> BY <3>1, OfferedFacts, Zenon
    <3>3. PICK fatal \in BOOLEAN : mrl' = Failed(fatal)
      BY Zenon DEF RegisterFails, RecoverFails, RecoverCqsFails
    <3>4. /\ Failed(fatal).pc = "offer" /\ SameCounts(Failed(fatal), mrl)
          /\ Failed(fatal).tempRedundant = mrl.tempRedundant
          /\ Failed(fatal).tempNonredundant = mrl.tempNonredundant
      BY <3>2, FailedHolder, Zenon
    <3>5. Failed(fatal).pc \in Offering \cup {"promote"} BY <3>4 DEF Offering
    <3> QED BY <3>2, <3>3, <3>4, <3>5, Zenon
  <2>.  CASE Register \/ Join \/ Started
    <3>1. mrl.pc \in Offering
      BY DEF Register, Join, Started, Goes, Offering, Adding
    <3>2. PICK pc \in Adding : mrl' = [mrl EXCEPT !.pc = pc]
      BY DEF Register, Join, Started, Adding
    <3>3. pc \in {"join", "start", "recover", "flag", "wait"}
          /\ pc \in Offering \cup {"promote"}
      BY DEF Adding, Offering
    <3> QED BY <3>1, <3>2, <3>3, MovedHolder, Zenon DEF SameCounts
  <2>5. CASE OfferEnds
    BY <2>5 DEF OfferEnds, Ends, Holders, Offering, SameCounts
  <2> QED BY <2>2, <2>5, Zenon DEF Offer
(* The new primary, or one secondary less.                                 *)
<1>PromoteHolders.
    ASSUME ListInv, Promote
    PROVE  /\ mrl.pc = "promote" /\ mrl'.pc = "promote"
           /\ m_redundantEndpoints' = m_redundantEndpoints
           /\ mrl.tempRedundant \in Seq(Endpoints) /\ mrl.tempRedundant # <<>>
           /\ ~mrl.isPrimaryConnected /\ ~mrl.isPrimaryAtBack
           /\ mrl'.tempNonredundant = mrl.tempNonredundant
           /\ UNCHANGED <<listeners, receiver>>
           /\ \E ok \in BOOLEAN :
                /\ sendMakePrimaryMesg(Last(mrl.tempRedundant), ok)
                /\ ok => /\ mrl'.isPrimaryConnected /\ mrl'.isPrimaryAtBack
                         /\ mrl'.tempRedundant = mrl.tempRedundant
                /\ ~ok => /\ ~mrl'.isPrimaryConnected /\ ~mrl'.isPrimaryAtBack
                          /\ mrl'.tempRedundant = Front(mrl.tempRedundant)
  <2> USE <1>PromoteHolders
  <2> DEFINE tr == mrl.tempRedundant
             t == Front(tr)
             m == mrl'
  <2>.  mrl \in Holders /\ Turns(mrl) BY ListFacts, Zenon
  <2>1. /\ mrl.pc = "promote" /\ ~mrl.isPrimaryConnected /\ tr # <<>>
        /\ m_redundantEndpoints' = m_redundantEndpoints
        /\ UNCHANGED <<listeners, receiver>>
    BY DEF Promote, Promotes, lists
  <2>2. tr \in Seq(Endpoints) BY HolderTypes, Zenon
  <2>3. ~mrl.isPrimaryAtBack BY <2>1 DEF Turns
  <2>4. PICK ok \in BOOLEAN :
          /\ sendMakePrimaryMesg(Last(tr), ok)
          /\ m = IF ok THEN [mrl EXCEPT !.isPrimaryConnected = TRUE,
                                        !.isPrimaryAtBack = TRUE]
                 ELSE [mrl EXCEPT !.tempRedundant = t]
    BY Zenon DEF Promote
  <2> HIDE DEF t
  <2>5. /\ m.pc = mrl.pc /\ m.tempNonredundant = mrl.tempNonredundant
        /\ ok => /\ m.isPrimaryConnected /\ m.isPrimaryAtBack
                 /\ m.tempRedundant = tr
        /\ ~ok => /\ m.isPrimaryConnected = mrl.isPrimaryConnected
                  /\ m.isPrimaryAtBack = mrl.isPrimaryAtBack
                  /\ m.tempRedundant = t
    BY <2>4, Zenon DEF Holders
  <2> QED BY <2>1, <2>2, <2>3, <2>4, <2>5, Zenon DEF t
<1>FoundElsewhere.
    ASSUME NEW m, NEW m2, NEW r, m.pc # "scan", m2.pc # "scan",
           m.tempNonredundant = m2.tempNonredundant
    PROVE  Found(m, r) <=> Found(m2, r)
  <2> USE <1>FoundElsewhere
  <2>1. Examined(m, r) = Range(r) /\ Examined(m2, r) = Range(r)
    BY Zenon DEF Examined
  <2> QED BY <2>1, Zenon DEF Found
<1>FoundNext.
    ASSUME TypesInv, FoundInv, [Next]_vars
    PROVE  FoundInv'
  <2> USE <1>FoundNext
  <2> DEFINE r == m_redundantEndpoints
             m == mrl'
  <2>.  /\ ListInv /\ TypeOK /\ mrl \in Holders /\ Turns(mrl) /\ r \in Seq(Endpoints)
    BY TypesSplit, ListFacts, Zenon DEF TypesInv
  <2>.  mrl.pc \in Busy =>
          /\ mrl.isPrimaryConnected /\ ~mrl.isPrimaryAtBack <=> Found(mrl, r)
          /\ mrl.pc \in Offering /\ mrl.isPrimaryAtBack => mrl.isRedundancySatisfied
    BY Zenon DEF FoundInv
  <2>2. CASE Offer /\ ~Recover
    <3>.  /\ mrl.pc \in Offering /\ m.pc \in Offering \cup {"promote"} /\ r' = r
          /\ SameCounts(m, mrl) /\ m.tempNonredundant = mrl.tempNonredundant
      BY <2>2, <1>OfferSame, Zenon
    <3>2. mrl.pc \in Busy /\ mrl.pc # "scan" /\ m.pc # "scan"
      BY DEF Offering, Adding, Busy
    <3>3. Found(m, r) <=> Found(mrl, r)
      <4> HIDE DEF m
      <4> QED BY <3>2, <1>FoundElsewhere, Zenon
    <3> QED BY <3>2, <3>3, Zenon DEF FoundInv, SameCounts
  <2>.  CASE Recover
    <3>1. mrl.pc = "recover" /\ r' = r BY DEF Recover, lists
    <3>.  /\ m.pc = "offer" /\ m.tempNonredundant = mrl.tempNonredundant
          /\ m.isPrimaryConnected <=> mrl.isPrimaryConnected \/ AsPrimary
          /\ m.isPrimaryAtBack <=> mrl.isPrimaryAtBack \/ AsPrimary
          /\ AsPrimary => m.isRedundancySatisfied
      BY RecoverInv, Zenon DEF Recovered
    <3>.  /\ mrl.pc \in Busy /\ mrl.pc \in Offering /\ mrl.pc \in Adding
          /\ mrl.pc # "scan" /\ m.pc # "scan"
      BY <3>1 DEF Offering, Adding, Busy
    <3>4. ~mrl.isRedundancySatisfied /\ ~mrl.isPrimaryAtBack
      BY Zenon DEF Turns
    <3>5. Found(m, r) <=> Found(mrl, r)
      <4> HIDE DEF m
      <4> QED BY <1>FoundElsewhere, Zenon
    <3>6. AsPrimary => ~mrl.isPrimaryConnected BY DEF AsPrimary
    <3>7. m.isPrimaryAtBack => m.isRedundancySatisfied BY <3>4, Zenon
    <3> QED BY <3>1, <3>4, <3>5, <3>6, <3>7, Zenon DEF FoundInv
  <2>4. CASE Promote
    <3>.  /\ mrl.pc = "promote" /\ m.pc = "promote" /\ r' = r
          /\ ~mrl.isPrimaryConnected
          /\ m.isPrimaryConnected <=> m.isPrimaryAtBack
          /\ m.tempNonredundant = mrl.tempNonredundant
      BY <2>4, <1>PromoteHolders, Zenon
    <3>2. mrl.pc \in Busy /\ mrl.pc # "scan" /\ m.pc # "scan" /\ m.pc \notin Offering
      BY DEF Offering, Adding, Busy
    <3>3. Found(m, r) <=> Found(mrl, r)
      <4> HIDE DEF m
      <4> QED BY <3>2, <1>FoundElsewhere, Zenon
    <3> QED BY <3>2, <3>3, Zenon DEF FoundInv
  <2>5. CASE redundancy \/ maintainAfterError
    <3>1. m = Begun(FALSE) /\ r' = r
      BY <2>5, Zenon DEF redundancy, maintainAfterError, lists
    <3>.  m.pc = "scan" /\ m.todo = r /\ ~m.isPrimaryConnected
      BY <3>1, BegunHolder, Zenon
    <3>3. Len(r) - Len(m.todo) = 0 OBVIOUS
    <3>4. Examined(m, r) = {}
      <4>1. 1..0 = {} OBVIOUS
      <4> QED BY <3>3, <4>1, Zenon DEF Examined
    <3>5. ~Found(m, r) BY <3>4 DEF Found
    <3>6. m.pc \notin Offering BY DEF Offering, Adding
    <3> QED BY <3>1, <3>5, <3>6, Zenon DEF FoundInv
  <2>6. ASSUME m.pc \notin Busy PROVE FoundInv' BY <2>6, Zenon DEF FoundInv
  <2>7. CASE Rearrange
    <3>1. m = Fresh("leave", mrl.tempNonredundant) BY <2>7, Zenon DEF Rearrange, Fresh
    <3>2. mrl.tempNonredundant \in Seq(Endpoints) BY HolderTypes, Zenon
    <3>3. m.pc = "leave" BY <3>1, <3>2, FreshHolder
    <3> QED BY <2>6, <3>3 DEF Busy
  <2>.  CASE Leave
    <3>1. CASE mrl.todo = <<>> BY <2>6, <3>1, IdleHolder DEF Leave, Busy
    <3>.  CASE mrl.todo # <<>>
      <4>1. m = Following /\ mrl.pc = "leave" BY Zenon DEF Leave
      <4>2. Following.pc = mrl.pc BY FollowingHolder, Zenon
      <4> QED BY <2>6, <4>1, <4>2 DEF Busy
    <3> QED BY <3>1
  <2>9. ASSUME NEW e \in Endpoints, PingFails(e) PROVE FoundInv'
    <3>1. m = Fresh("leave", <<e>>) BY <2>9 DEF PingFails, Fresh
    <3>2. <<e>> \in Seq(Endpoints) BY PingedList
    <3>3. m.pc = "leave" BY <3>1, <3>2, FreshHolder
    <3> QED BY <2>6, <3>3 DEF Busy
  <2>10. CASE destroy \/ DestroyStep
    <3>1. m.pc \in Destroying BY <2>10, Destroyed
    <3> QED BY <2>6, <3>1 DEF Busy, Destroying
  <2>11. ASSUME UNCHANGED <<mrl, m_redundantEndpoints>> PROVE FoundInv'
    BY <2>11, Zenon DEF FoundInv
  <2>12. CASE Monitor \/ UNCHANGED vars
    BY <2>11, <2>12 DEF Monitor, Untouched, vars, lists
  <2>13. ASSUME NEW e \in Endpoints, ReceiverStep(e) \/ ServerStep(e)
         PROVE  FoundInv'
    <3>1. UNCHANGED <<mrl, m_redundantEndpoints>>
      BY <2>13 DEF ReceiverStep, ServerStep, ReceiveFails, CloseChannel, Quit,
                   Crash, Restart, Break, RequestFails, Reconnect,
                   Untouched, lists
    <3> QED BY <2>11, <3>1
  <2> QED BY <2>2, <2>4, <2>5, <2>7, <2>9, <2>10, <2>12, <2>13,
             <1>FoundScan, Zenon DEF Next, maintainRedundancyLevel
(* A step that changes one endpoint, and the leader to no other.           *)
<1>RoleStep.
    ASSUME ListInv, RoleInv, mrl.pc \notin Destroying, NEW x \in Endpoints, Only(x),
           \A e \in Members(mrl', m_redundantEndpoints') :
              \/ e = x
              \/ /\ e \in Members(mrl, m_redundantEndpoints)
                 /\ Leads(mrl', m_redundantEndpoints', e)
                      <=> Leads(mrl, m_redundantEndpoints, e),
           x \in Members(mrl', m_redundantEndpoints') => RoleNext(x)
    PROVE  RoleInv'
  <2> USE <1>RoleStep
  <2> DEFINE k == Members(mrl, m_redundantEndpoints)
             k2 == Members(mrl', m_redundantEndpoints')
  <2>1. \A e \in k : Role(e) BY Zenon DEF RoleInv
  <2>2. k \subseteq Endpoints BY MemberTypes
  <2>3. ASSUME NEW e \in k2 PROVE RoleNext(e)
    <3>1. CASE e = x BY <3>1, Zenon
    <3>.  CASE e # x
      <4>1. /\ e \in k /\ e \in Endpoints
            /\ Leads(mrl', m_redundantEndpoints', e)
                 <=> Leads(mrl, m_redundantEndpoints, e)
        BY <2>2, Zenon
      <4>2. /\ AttendedNext(e) <=> Attended(e)
            /\ channel'[e] = channel[e] /\ listeners'[e] = listeners[e]
        BY <4>1, Zenon DEF Only
      <4> QED BY <2>1, <4>1, <4>2, Zenon DEF Role, RoleNext
    <3> QED BY <3>1
  <2>4. \A e \in Members(mrl', m_redundantEndpoints') : Role(e)'
    BY <2>3, Zenon DEF Role, RoleNext, Attended, AttendedNext
  <2> QED BY <2>4, Zenon DEF RoleInv
<1>RoleFades.
    ASSUME ListInv, RoleInv, mrl.pc \notin Destroying, NEW x \in Endpoints, Fades(x),
           \A e \in Members(mrl', m_redundantEndpoints') :
              /\ e \in Members(mrl, m_redundantEndpoints)
              /\ Leads(mrl', m_redundantEndpoints', e)
                   <=> Leads(mrl, m_redundantEndpoints, e)
    PROVE  RoleInv'
  <2> USE <1>RoleFades
  <2>1. \A e \in Members(mrl, m_redundantEndpoints) : Role(e) BY Zenon DEF RoleInv
  <2>2. x \in Members(mrl', m_redundantEndpoints') => RoleNext(x)
    BY <2>1, Zenon DEF Role, RoleNext, Fades
  <2>3. Only(x) BY DEF Fades
  <2> QED BY <2>2, <2>3, <1>RoleStep, Zenon
<1>UnchangedFades.
    ASSUME UNCHANGED <<channel, connected, overtaken, listeners, receiver>>, NEW x
    PROVE  Fades(x)
  <2> USE <1>UnchangedFades
  <2> QED BY DEF Fades, Only, Attended, AttendedNext
(* The steps of other threads.                                             *)
<1>RoleReceivers.
    ASSUME TypesInv, RoleInv, NEW x \in Endpoints, ReceiverStep(x)
    PROVE  RoleInv'
  <2> USE <1>RoleReceivers
  <2>.  /\ ListInv /\ EndpointTypes
        /\ connected \in [Endpoints -> BOOLEAN] /\ listeners \in [Endpoints -> Nat]
        /\ receiver \in [Endpoints -> Receivers]
    BY TypesSplit, EndpointFacts, Zenon DEF TypesInv
  <2>.  UNCHANGED <<mrl, channel, m_redundantEndpoints>>
    BY DEF ReceiverStep, ReceiveFails, CloseChannel, Quit, Untouched, lists
  <2>1. \A e : e # x => (e \in overtaken' <=> e \in overtaken)
    BY DEF ReceiverStep, ReceiveFails, CloseChannel, Quit
  <2>2. Fades(x)
    <3>1. CASE ReceiveFails(x)
      <4> DEFINE q == [receiver[x] EXCEPT !.pc = "lock"]
      <4>1. /\ receiver' = [receiver EXCEPT ![x] = q] /\ listeners' = listeners
            /\ connected' = [connected EXCEPT ![x] = FALSE]
        BY <3>1 DEF ReceiveFails, Disconnect
      <4> HIDE DEF q
      <4> QED BY <2>1, <4>1 DEF Only, Fades, Attended, AttendedNext
    <3>2. CASE CloseChannel(x)
      <4> DEFINE q == [pc |-> "ended",
                       isRunning |-> receiver[x].isRunning /\ listeners[x] = 0]
      <4>1. /\ receiver' = [receiver EXCEPT ![x] = q]
            /\ listeners' = [listeners EXCEPT ![x] = 0] /\ connected' = connected
            /\ overtaken' = overtaken
        BY <3>2 DEF CloseChannel, status
      <4> HIDE DEF q
      <4> QED BY <2>1, <4>1 DEF Only, Fades, Attended, AttendedNext
    <3>3. CASE Quit(x)
      <4> DEFINE q == [receiver[x] EXCEPT !.pc = "ended"]
      <4>1. /\ receiver' = [receiver EXCEPT ![x] = q] /\ listeners' = listeners
            /\ connected' = connected /\ overtaken' = overtaken
        BY <3>3 DEF Quit, status
      <4> HIDE DEF q
      <4> QED BY <2>1, <4>1 DEF Only, Fades, Attended, AttendedNext
    <3> QED BY <3>1, <3>2, <3>3 DEF ReceiverStep
  <2>3. CASE mrl.pc \in Destroying BY <2>3, Zenon DEF RoleInv
  <2>4. CASE mrl.pc \notin Destroying BY <2>2, <2>4, <1>RoleFades, Zenon
  <2> QED BY <2>3, <2>4
<1>RoleServers.
    ASSUME TypesInv, RoleInv, NEW x \in Endpoints, ServerStep(x)
    PROVE  RoleInv'
  <2> USE <1>RoleServers
  <2> DEFINE r == m_redundantEndpoints
  <2>.  /\ ListInv /\ EndpointTypes
        /\ connected \in [Endpoints -> BOOLEAN] /\ channel \in [Endpoints -> Channels]
    BY TypesSplit, EndpointFacts, Zenon DEF TypesInv
  <2>.  UNCHANGED <<mrl, listeners, receiver, m_redundantEndpoints>>
    <3>1. CASE Crash(x) \/ Restart(x) \/ Break(x)
      BY <3>1 DEF Crash, Restart, Break, lists
    <3>2. CASE RequestFails(x) \/ Reconnect(x)
      BY <3>2 DEF RequestFails, Reconnect, Untouched, lists
    <3> QED BY <3>1, <3>2, Zenon DEF ServerStep
  <2>2. CASE mrl.pc \in Destroying BY <2>2, Zenon DEF RoleInv
  <2>.  CASE mrl.pc \notin Destroying /\ Reconnect(x)
    <3>1. /\ channel' = channel /\ connected' = [connected EXCEPT ![x] = TRUE]
          /\ \A e : e # x => (e \in overtaken' <=> e \in overtaken)
      BY DEF Reconnect
    <3>2. Only(x) BY <3>1 DEF Only, Attended, AttendedNext
    <3>3. x \in Members(mrl, r) => x \in overtaken'
      <4> SUFFICES ASSUME x \in Members(mrl, r) PROVE x \in overtaken' OBVIOUS
      <4>1. \/ x \in Range(r) \/ x \in Range(mrl.tempRedundant)
            \/ mrl.pc = "recover" /\ x = ep
        BY MembersAre, Zenon DEF ep
      <4> QED BY <4>1 DEF Reconnect
    <3>4. x \in Members(mrl', m_redundantEndpoints') => RoleNext(x)
      BY <3>3, Zenon DEF RoleNext, AttendedNext
    <3> QED BY <3>2, <3>4, <1>RoleStep, Zenon
  <2>.  CASE mrl.pc \notin Destroying /\ ~Reconnect(x)
    <3>1. Fades(x)
      <4>1. CASE Crash(x) \/ Restart(x) \/ Break(x)
        <5>.  /\ connected' = connected /\ overtaken' = overtaken
              /\ channel' = channel \/ channel' = Broken(x)
          BY <4>1 DEF Crash, Restart, Break, status
        <5>2. CASE channel' = channel BY <5>2, <1>UnchangedFades
        <5>3. CASE channel' = Broken(x)
          BY <5>3 DEF Broken, Only, Fades, Attended, AttendedNext
        <5> QED BY <5>2, <5>3
      <4>2. CASE RequestFails(x)
        <5>1. /\ channel' = channel /\ connected' = [connected EXCEPT ![x] = FALSE]
              /\ overtaken' = overtaken
          BY <4>2 DEF RequestFails, Disconnect
        <5> QED BY <5>1 DEF Only, Fades, Attended, AttendedNext
      <4> QED BY <4>1, <4>2, Zenon DEF ServerStep
    <3> QED BY <3>1, <1>RoleFades, Zenon
  <2> QED BY <2>2
<1>LeadsSame.
    ASSUME NEW m, NEW m2, NEW r, NEW e,
           m.isPrimaryAtBack = m2.isPrimaryAtBack,
           m.isPrimaryConnected = m2.isPrimaryConnected,
           m.tempRedundant = m2.tempRedundant,
           m.tempNonredundant = m2.tempNonredundant,
           m.pc = "recover" => e # Head(m.todo),
           m2.pc = "recover" => e # Head(m2.todo)
    PROVE  Leads(m, r, e) <=> Leads(m2, r, e)
  <2> USE <1>LeadsSame
  <2>1. FirstKept(m, r, e) <=> FirstKept(m2, r, e) BY Zenon DEF FirstKept
  <2> QED BY <2>1, Zenon DEF Leads
(* The steps between runs.                                                 *)
<1>RoleRest.
    ASSUME TypesInv, SilentInv, RoleInv,
           redundancy \/ maintainAfterError \/ Leave
    PROVE  RoleInv'
  <2> USE <1>RoleRest
  <2> DEFINE r == m_redundantEndpoints
             m == mrl'
             x == ep
  <2>.  /\ ListInv /\ TypeOK /\ EndpointTypes /\ mrl \in Holders
        /\ r \in Seq(Endpoints)
    BY TypesSplit, ListFacts, Zenon DEF TypesInv
  <2>.  /\ mrl.pc \in {"idle", "leave"} /\ r' = r
        /\ UNCHANGED <<channel, connected, overtaken>>
    BY Zenon DEF redundancy, maintainAfterError, Leave, lists, endpointVars, status,
                 others
  <2>.  mrl.pc \notin Busy /\ mrl.pc \notin Destroying /\ mrl.pc # "recover"
    BY DEF Busy, Destroying
  <2>.  Rests(mrl) /\ ~mrl.isPrimaryAtBack /\ mrl.tempRedundant = <<>>
        /\ mrl.tempNonredundant = <<>> /\ ~mrl.isPrimaryConnected
    BY RestFacts, Zenon DEF Rests
  <2>4. Members(mrl, r) = Range(r) BY MembersAtRest
  <2>.  m.pc # "recover" /\ m \in Holders /\ ~m.isPrimaryConnected /\ ~m.isPrimaryAtBack
        /\ m.tempRedundant = <<>> /\ m.tempNonredundant = <<>>
    <3>1. CASE redundancy \/ maintainAfterError
      <4>1. m = Begun(FALSE) BY <3>1, Zenon DEF redundancy, maintainAfterError
      <4> QED BY <4>1, BegunHolder, Zenon
    <3>3. CASE Leave /\ mrl.todo = <<>> BY <3>3, IdleHolder DEF Leave
    <3>.  CASE Leave /\ mrl.todo # <<>>
      <4>1. m = Following BY Zenon DEF Leave
      <4>2. /\ Following \in Holders /\ Following.pc = mrl.pc
            /\ SameCounts(Following, mrl)
            /\ Following.tempRedundant = mrl.tempRedundant
            /\ Following.tempNonredundant = mrl.tempNonredundant
        BY FollowingHolder, Zenon
      <4> QED BY <4>1, <4>2, Zenon DEF SameCounts
    <3> QED BY <3>1, <3>3
  <2>6. m.isPrimaryAtBack = mrl.isPrimaryAtBack
        /\ m.isPrimaryConnected = mrl.isPrimaryConnected
    BY HolderTypes
  <2>7. \A e : Leads(m, r, e) <=> Leads(mrl, r, e)
    <3> HIDE DEF m
    <3> QED BY <2>6, <1>LeadsSame, Zenon
  <2>8. \A e \in Members(m, r) : e \in Members(mrl, r)
    <3>1. Range(m.tempRedundant) = {} BY DEF Range
    <3>2. \A e \in Members(m, r) : e \in Range(r) BY <3>1, MembersAre, Zenon
    <3> QED BY <2>4, <3>2, Zenon
  <2>.  \A e \in Members(mrl', m_redundantEndpoints') :
          /\ e \in Members(mrl, m_redundantEndpoints)
          /\ Leads(mrl', m_redundantEndpoints', e)
               <=> Leads(mrl, m_redundantEndpoints, e)
    BY <2>7, <2>8, Zenon
  <2>10. CASE UNCHANGED <<listeners, receiver>>
    <3>1. PICK y \in Endpoints : Fades(y)
      BY <2>10, SomeEndpoint, <1>UnchangedFades, Zenon
    <3> QED BY <3>1, <1>RoleFades, Zenon
  <2>.   CASE Leave /\ mrl.todo # <<>>
    <3> DEFINE t == mrl.todo
    <3>1. unregisterDM(x) /\ mrl.pc = "leave" BY Zenon DEF Leave
    <3>.  x \in Endpoints /\ x \in Range(t)
      <4>1. x = Head(t) /\ t # <<>> /\ t \in Seq(Endpoints)
        BY HolderTypes DEF ep
      <4> HIDE DEF t, x
      <4> QED BY <4>1, RangeTail
    <3>3. x \in Range(r) => ~Attended(x)
      BY <3>1, Zenon DEF SilentInv, Absent
    <3> HIDE DEF x
    <3>4. \A e \in Endpoints : e # x => /\ listeners'[e] = listeners[e]
                                        /\ receiver'[e] = receiver[e]
      BY <3>1, UnregisterKeeps, Zenon
    <3>5. Only(x) BY <3>4, Zenon DEF Only, Attended, AttendedNext
    <3>6. x \in Members(mrl', m_redundantEndpoints') => RoleNext(x)
      <4>1. x \in Members(mrl', m_redundantEndpoints') => x \in Range(r)
        BY <2>4, Zenon
      <4> QED BY <3>3, <4>1, Zenon DEF RoleNext, Attended, AttendedNext
    <3> QED BY <3>5, <3>6, <1>RoleStep, Zenon
  <2>12. UNCHANGED <<listeners, receiver>> \/ (Leave /\ mrl.todo # <<>>)
    BY Zenon DEF redundancy, maintainAfterError, Leave, endpointVars
  <2> QED BY <2>10, <2>12
(* A failed ping disconnects its endpoint.                                 *)
<1>RolePing.
    ASSUME TypesInv, RoleInv, NEW x \in Endpoints, PingFails(x)
    PROVE  RoleInv'
  <2> USE <1>RolePing
  <2> DEFINE r == m_redundantEndpoints
             m == mrl'
  <2>0. /\ ListInv /\ mrl \in Holders /\ r \in Seq(Endpoints)
        /\ connected \in [Endpoints -> BOOLEAN]
    BY TypesSplit, ListFacts, EndpointFacts, Zenon DEF TypesInv
  <2>1. /\ mrl.pc = "idle" /\ r' = r /\ m = Fresh("leave", <<x>>)
        /\ connected' = [connected EXCEPT ![x] = FALSE]
        /\ UNCHANGED <<channel, overtaken, listeners, receiver>>
    BY Zenon DEF PingFails, Disconnect, lists, Fresh
  <2>2. mrl.pc \notin Busy /\ mrl.pc \notin Destroying /\ mrl.pc # "recover"
    BY <2>1 DEF Busy, Destroying
  <2>3. Rests(mrl) /\ ~mrl.isPrimaryAtBack /\ mrl.tempRedundant = <<>>
        /\ mrl.tempNonredundant = <<>> /\ ~mrl.isPrimaryConnected
    BY <2>0, <2>2, RestFacts, Zenon DEF Rests
  <2>4. m.pc # "recover" /\ ~m.isPrimaryConnected /\ ~m.isPrimaryAtBack
        /\ m.tempRedundant = <<>> /\ m.tempNonredundant = <<>> /\ m \in Holders
    BY <2>1, PingedList, FreshHolder
  <2>5. m.isPrimaryAtBack = mrl.isPrimaryAtBack
        /\ m.isPrimaryConnected = mrl.isPrimaryConnected
    BY <2>0, <2>3, <2>4, HolderTypes
  <2>6. \A e : Leads(m, r, e) <=> Leads(mrl, r, e)
    <3> HIDE DEF m
    <3> QED BY <2>2, <2>3, <2>4, <2>5, <1>LeadsSame, Zenon
  <2>7. \A e \in Members(m, r) : e \in Members(mrl, r)
    BY <2>2, <2>3, <2>4, MembersAre, Zenon
  <2>8. \A e \in Members(mrl', m_redundantEndpoints') :
          /\ e \in Members(mrl, m_redundantEndpoints)
          /\ Leads(mrl', m_redundantEndpoints', e)
               <=> Leads(mrl, m_redundantEndpoints, e)
    BY <2>1, <2>6, <2>7, Zenon
  <2>9. Fades(x) BY <2>0, <2>1 DEF Fades, Only, Attended, AttendedNext
  <2> QED BY <2>0, <2>2, <2>8, <2>9, <1>RoleFades, Zenon
(* The loop over the other endpoints, until one is added.                  *)
<1>RoleOffer.
    ASSUME TypesInv, SilentInv, FoundInv, RoleInv, Offer, ~Recover
    PROVE  RoleInv'
  <2> USE <1>RoleOffer
  <2> DEFINE r == m_redundantEndpoints
             m == mrl'
             x == ep
  <2>0. /\ ListInv /\ EndpointTypes /\ mrl \in Holders /\ Turns(mrl)
        /\ connected \in [Endpoints -> BOOLEAN] /\ channel \in [Endpoints -> Channels]
        /\ listeners \in [Endpoints -> Nat] /\ receiver \in [Endpoints -> Receivers]
    BY TypesSplit, ListFacts, EndpointFacts, Zenon DEF TypesInv
  <2>1. /\ mrl.pc \in Offering /\ m.pc \in Offering \cup {"promote"} /\ r' = r
        /\ SameCounts(m, mrl) /\ m.tempRedundant = mrl.tempRedundant
        /\ m.tempNonredundant = mrl.tempNonredundant
    BY <2>0, <1>OfferSame, Zenon
  <2>2. mrl.pc \notin Destroying /\ mrl.pc \in Busy
    BY <2>1 DEF Offering, Adding, Destroying, Busy
  <2>3. CASE Skip \/ OfferEnds
    <3>.  /\ mrl.pc = "offer"
          /\ UNCHANGED <<channel, connected, overtaken, listeners, receiver>>
      BY <2>3 DEF Skip, OfferEnds, Goes, Ends, endpointVars, status, others
    <3>2. m.pc # "recover"
      <4>1. CASE Skip
        <5>1. m = Following /\ mrl.todo # <<>> BY <4>1, Zenon DEF Skip, Goes
        <5>2. Following.pc = mrl.pc BY <2>0, <5>1, FollowingHolder, Zenon
        <5> QED BY <5>1, <5>2
      <4>2. CASE OfferEnds BY <2>0, <4>2 DEF OfferEnds, Holders
      <4> QED BY <2>3, <4>1, <4>2
    <3>3. mrl.pc # "recover" OBVIOUS
    <3>4. \A e : Leads(m, r, e) <=> Leads(mrl, r, e)
      <4> HIDE DEF m
      <4> QED BY <2>1, <3>2, <3>3, <1>LeadsSame, Zenon DEF SameCounts
    <3>5. \A e \in Members(m, r) : e \in Members(mrl, r)
      BY <2>1, <3>2, MembersAre, Zenon
    <3>6. PICK y \in Endpoints : Fades(y) BY SomeEndpoint, <1>UnchangedFades, Zenon
    <3>7. \A e \in Members(mrl', m_redundantEndpoints') :
            /\ e \in Members(mrl, m_redundantEndpoints)
            /\ Leads(mrl', m_redundantEndpoints', e)
                 <=> Leads(mrl, m_redundantEndpoints, e)
      BY <2>1, <3>4, <3>5, Zenon
    <3> QED BY <2>0, <2>2, <3>6, <3>7, <1>RoleFades, Zenon
  <2>4. CASE ~(Skip \/ OfferEnds)
    <3>1. mrl.pc \in Adding \/ Goes("offer")
      BY <2>4, Zenon DEF Offer, RegisterFails, Register, Join, Started, RecoverFails,
                  RecoverCqsFails, Adding
    <3>2. mrl.pc \in Offering /\ mrl.todo # <<>> /\ ~mrl.isRedundancySatisfied
      BY <2>0, <3>1, OfferedFacts, Zenon
    <3>3. /\ x \notin Range(r) /\ x \notin Range(mrl.tempRedundant) /\ x \in Endpoints
      BY <2>0, <3>2, OfferPlace, Zenon
    <3>4. ~mrl.isPrimaryAtBack BY <2>2, <3>2, Zenon DEF FoundInv
    <3>5. m.pc = "recover" => Head(m.todo) = x /\ (Register \/ Started)
      <4>1. CASE Register \/ Join \/ Started
        BY <2>0, <4>1, Zenon DEF Register, Join, Started, Holders, ep
      <4>2. CASE RegisterFails \/ RecoverFails \/ RecoverCqsFails
        <5>1. PICK fatal \in BOOLEAN : m = Failed(fatal)
          BY <4>2, Zenon DEF RegisterFails, RecoverFails, RecoverCqsFails
        <5>2. Failed(fatal).pc = "offer" BY <2>0, <3>2, FailedHolder, Zenon
        <5> QED BY <5>1, <5>2
      <4> QED BY <2>4, <4>1, <4>2, Zenon DEF Offer
    <3>6. ASSUME NEW e, e # x PROVE Leads(m, r, e) <=> Leads(mrl, r, e)
      <4>1. Head(mrl.todo) = x BY DEF ep
      <4>2. /\ m.pc = "recover" => e # Head(m.todo)
            /\ mrl.pc = "recover" => e # Head(mrl.todo)
        BY <3>5, <3>6, <4>1
      <4>3. /\ m.isPrimaryAtBack = mrl.isPrimaryAtBack
            /\ m.isPrimaryConnected = mrl.isPrimaryConnected
        BY <2>1, Zenon DEF SameCounts
      <4> HIDE DEF m, x
      <4> QED BY <2>1, <4>2, <4>3, <1>LeadsSame, Zenon
    <3>7. \A e \in Members(m, r) : e = x \/ e \in Members(mrl, r)
      <4> HIDE DEF x
      <4> QED BY <2>1, <3>5, MembersAre, Zenon
    <3>8. x \in Members(m, r) => m.pc = "recover"
      BY <2>1, <3>3, MembersAre, Zenon
    <3>9. \A e \in Members(mrl', m_redundantEndpoints') :
            \/ e = x
            \/ /\ e \in Members(mrl, m_redundantEndpoints)
               /\ Leads(mrl', m_redundantEndpoints', e)
                    <=> Leads(mrl, m_redundantEndpoints, e)
      BY <2>1, <3>6, <3>7, Zenon
    <3>10. Only(x)
      <4>.  CASE RecoverFails \/ RecoverCqsFails
        <5>.  channel' = channel /\ ((UNCHANGED <<listeners, receiver>>) \/ unregisterDM(x))
          BY DEF RecoverFails, RecoverCqsFails
        <5>1. overtaken' = overtaken BY DEF RecoverFails, RecoverCqsFails, others
        <5>2. PICK f \in BOOLEAN : RequestError(ep, f)
          BY Zenon DEF RecoverFails, RecoverCqsFails
        <5>3. RequestError(x, f) BY <5>2
        <5> HIDE DEF x
        <5>4. \A e \in Endpoints : e # x => connected'[e] = connected[e]
          BY <2>0, <3>3, <5>3, ErrorLoses, Zenon
        <5>5. \A e \in Endpoints : e # x => /\ listeners'[e] = listeners[e]
                                            /\ receiver'[e] = receiver[e]
          <6>1. CASE unregisterDM(x)
            BY <2>0, <3>3, <6>1, UnregisterKeeps, Zenon
          <6> QED BY <6>1
        <5> QED BY <5>1, <5>4, <5>5, Zenon DEF Only, Attended, AttendedNext
      <4>2. CASE RegisterFails
        <5>1. /\ connected' = [connected EXCEPT ![x] = FALSE]
              /\ UNCHANGED <<channel, overtaken, listeners, receiver>>
          BY <4>2 DEF RegisterFails, others
        <5> HIDE DEF x
        <5> QED BY <2>0, <5>1 DEF Only, Attended, AttendedNext
      <4>3. CASE Register \/ Join \/ Started
        <5> DEFINE c == IF AsPrimary THEN "primary" ELSE "secondary"
        <5>1. /\ connected' = connected \/ connected' = [connected EXCEPT ![x] = TRUE]
              /\ channel' = channel \/ channel' = [channel EXCEPT ![x] = c]
              /\ listeners' = listeners
                 \/ listeners' = [listeners EXCEPT ![x] = listeners[x] + 1]
              /\ receiver' = receiver \/ receiver' = [receiver EXCEPT ![x] = Reading]
          BY <4>3 DEF Register, Join, Started, status, Reading
        <5>2. overtaken' \in {overtaken, overtaken \cup {x}, overtaken \ {x}}
          BY <4>3, Zenon DEF Register, Join, Started, others
        <5> HIDE DEF c, x
        <5>3. \A e : e # x => (e \in overtaken' <=> e \in overtaken) BY <5>2
        <5> QED BY <2>0, <5>1, <5>3 DEF Only, Attended, AttendedNext
      <4> QED BY <2>4, <4>2, <4>3, Zenon DEF Offer
    <3>11. m.pc = "recover" => RoleNext(x)
      <4>1. CASE Register
        <5>1. CASE listeners[x] = 0
          <6>1. m.pc = "join" BY <2>0, <4>1, <5>1 DEF Register, Holders
          <6> QED BY <6>1
        <5>.  CASE listeners[x] # 0
          <6>1. listeners' = [listeners EXCEPT ![x] = listeners[x] + 1]
            BY <4>1 DEF Register
          <6> HIDE DEF x
          <6>2. listeners'[x] # 1 BY <2>0, <3>3, <6>1
          <6> QED BY <6>2 DEF RoleNext
        <5> QED BY <5>1
      <4>2. CASE Started
        <5>.  mrl.pc = "start" /\ channel' = channel /\ m = [mrl EXCEPT !.pc = "recover"]
          BY <4>2 DEF Started
        <5>2. channel[x] \in {IF AsPrimary THEN "primary" ELSE "secondary", "broken"}
          BY <2>2 DEF SilentInv, Registering
        <5>3. Leads(m, r, x) <=> AsPrimary
          <6>1. ~FirstKept(m, r, x)
            <7>1. r \in Seq(Endpoints) BY <2>0, ListFacts, Zenon
            <7>2. Range(r) = {r[i] : i \in 1..Len(r)} BY <7>1, SeqFacts
            <7>3. \A j \in 1..Len(r) : r[j] \in Range(r) BY <7>2
            <7> QED BY <3>3, <7>3, Zenon DEF FirstKept
          <6>2. /\ ~m.isPrimaryAtBack /\ m.isPrimaryConnected = mrl.isPrimaryConnected
                /\ m.secondaryCount = mrl.secondaryCount
            BY <2>1, <3>4, Zenon DEF SameCounts
          <6>3. m.pc = "recover" /\ Head(m.todo) = x
            BY <2>0 DEF Holders, ep
          <6> QED BY <6>1, <6>2, <6>3, Zenon DEF Leads, AsPrimary
        <5>4. channel'[x] # "broken" => (channel'[x] = "primary" <=> AsPrimary)
          BY <5>2
        <5> QED BY <2>1, <5>3, <5>4, Zenon DEF RoleNext
      <4> QED BY <3>5, <4>1, <4>2
    <3>12. x \in Members(mrl', m_redundantEndpoints') => RoleNext(x)
      BY <2>1, <3>8, <3>11, Zenon
    <3> HIDE DEF x
    <3> QED BY <2>0, <2>2, <3>3, <3>9, <3>10, <3>12, <1>RoleStep, Zenon
  <2> QED BY <2>3, <2>4
(* Who is first among those that stay.                                     *)
<1>NoneFirst.
    ASSUME NEW m, NEW r \in Seq(Endpoints), m.pc # "scan", ~Found(m, r)
    PROVE  /\ \A e : ~FirstKept(m, r, e)
           /\ \A e \in Range(r) : e \in Range(m.tempNonredundant)
  <2> USE <1>NoneFirst
  <2>1. Examined(m, r) = Range(r) BY Zenon DEF Examined
  <2>2. \A e \in Range(r) : e \in Range(m.tempNonredundant)
    BY <2>1, Zenon DEF Found
  <2>3. Range(r) = {r[i] : i \in 1..Len(r)} BY SeqFacts
  <2>4. \A j \in 1..Len(r) : r[j] \in Range(r) BY <2>3
  <2> QED BY <2>2, <2>4, Zenon DEF FirstKept
<1>FirstIsTurn.
    ASSUME ListInv, Goes("scan"), ~Found(mrl, m_redundantEndpoints)
    PROVE  \A e : FirstKept(mrl, m_redundantEndpoints, e) <=> e = ep
  <2> USE <1>FirstIsTurn
  <2> DEFINE r == m_redundantEndpoints
             k == Len(r) - Len(mrl.todo)
             tn == mrl.tempNonredundant
             x == ep
             ex == Examined(mrl, r)
  <2>0. mrl \in Holders /\ mrl.pc = "scan" /\ mrl.todo # <<>> BY ScanFacts, Zenon
  <2>1. Gone.pc = "scan" /\ Gone.todo = Tail(mrl.todo)
    BY <2>0, GoneHolder, Zenon
  <2>.  /\ k \in Nat /\ k + 1 \in 1..Len(r) /\ x = r[k + 1]
        /\ \A e : e \in ex <=> \E i \in 1..k : e = r[i]
        /\ x \notin ex /\ \A e \in Range(tn) : e \in ex
    BY <2>1, <1>ScanPlace, Zenon
  <2>3. \A e \in ex : e \in Range(tn) BY Zenon DEF Found
  <2>4. Len(r) \in Nat BY ListFacts, SeqFacts
  <2> HIDE DEF k, r, x, ex, tn
  <2>5. \A i \in 1..k : r[i] \in Range(tn) BY <2>3, Zenon
  <2>6. x \notin Range(tn) BY Zenon
  <2>7. ASSUME NEW j \in 1..Len(r), r[j] \notin Range(tn),
               \A i \in 1..(j - 1) : r[i] \in Range(tn)
        PROVE  r[j] = x
    <3>1. ~(j <= k) BY <2>5, <2>7
    <3>2. ~(j > k + 1)
      <4> SUFFICES ASSUME j > k + 1 PROVE FALSE OBVIOUS
      <4>1. k + 1 \in 1..(j - 1) BY <2>4
      <4> QED BY <2>6, <2>7, <4>1, Zenon
    <3>3. j = k + 1 BY <2>4, <3>1, <3>2
    <3> QED BY <3>3
  <2>8. \E j \in 1..Len(r) : /\ x = r[j] /\ x \notin Range(tn)
                             /\ \A i \in 1..(j - 1) : r[i] \in Range(tn)
    <3>1. \A i \in 1..((k + 1) - 1) : r[i] \in Range(tn)
      <4>1. (k + 1) - 1 = k OBVIOUS
      <4> QED BY <2>5, <4>1, Zenon
    <3> QED BY <2>6, <3>1, Zenon
  <2> QED BY <2>7, <2>8, Zenon DEF FirstKept, r, tn, x
<1>FirstStays.
    ASSUME ListInv, Goes("scan"), Found(mrl, m_redundantEndpoints), NEW e, e # ep
    PROVE  FirstKept(Gone, m_redundantEndpoints, e)
             <=> FirstKept(mrl, m_redundantEndpoints, e)
  <2> USE <1>FirstStays
  <2> DEFINE r == m_redundantEndpoints
             k == Len(r) - Len(mrl.todo)
             tn == mrl.tempNonredundant
             tn2 == Gone.tempNonredundant
             x == ep
             ex == Examined(mrl, r)
  <2>0. mrl \in Holders /\ mrl.pc = "scan" /\ mrl.todo # <<>> BY ScanFacts, Zenon
  <2>.  /\ Gone.pc = "scan" /\ Gone.todo = Tail(mrl.todo)
        /\ \A y : y \in Range(tn2) <=> y \in Range(tn) \/ y = x
    BY <2>0, <1>GoneRange, Zenon
  <2>.  /\ k \in Nat /\ k + 1 \in 1..Len(r) /\ x = r[k + 1]
        /\ \A y : y \in ex <=> \E i \in 1..k : y = r[i]
        /\ x \notin ex /\ \A y \in Range(tn) : y \in ex
    BY <1>ScanPlace, Zenon
  <2>3. PICK y \in ex : y \notin Range(tn) BY Zenon DEF Found
  <2>4. Len(r) \in Nat BY ListFacts, SeqFacts
  <2>5. e # x BY Zenon
  <2> HIDE DEF k, r, x, ex, tn, tn2
  <2>6. PICK i0 \in 1..k : y = r[i0] BY <2>3, Zenon
  <2>7. \A i \in 1..k : r[i] # x BY Zenon
  <2>8. ASSUME NEW j \in 1..Len(r), e = r[j], e \notin Range(tn2),
               \A i \in 1..(j - 1) : r[i] \in Range(tn2)
        PROVE  e \notin Range(tn) /\ \A i \in 1..(j - 1) : r[i] \in Range(tn)
    <3>1. r[i0] \notin Range(tn2) BY <2>3, <2>6, <2>7, Zenon
    <3>2. ~(i0 \in 1..(j - 1)) BY <2>8, <3>1, Zenon
    <3>3. j - 1 <= k BY <2>4, <2>6, <3>2
    <3>4. \A i \in 1..(j - 1) : i \in 1..k BY <2>4, <3>3
    <3> QED BY <2>7, <2>8, <3>4, Zenon
  <2>9. ASSUME NEW j \in 1..Len(r), e = r[j], e \notin Range(tn),
               \A i \in 1..(j - 1) : r[i] \in Range(tn)
        PROVE  e \notin Range(tn2) /\ \A i \in 1..(j - 1) : r[i] \in Range(tn2)
    BY <2>5, <2>9, Zenon
  <2> QED BY <2>8, <2>9, Zenon DEF FirstKept, r, tn, tn2
(* A server that confirms is the primary, unless its channel broke.        *)
<1>MadeRole.
    ASSUME EndpointTypes, NEW x \in Endpoints, sendMakePrimaryMesg(x, TRUE),
           channel[x] # "none"
    PROVE  channel'[x] # "broken" => channel'[x] = "primary"
  <2> USE <1>MadeRole
  <2>1. channel \in [Endpoints -> Channels] BY EndpointFacts
  <2>2. channel' = MadePrimary(x) BY DEF sendMakePrimaryMesg
  <2> QED BY <2>1, <2>2 DEF MadePrimary, Channels
(* The loop over the redundant endpoints.                                  *)
<1>RoleScan.
    ASSUME TypesInv, SilentInv, FoundInv, RoleInv, Scan
    PROVE  RoleInv'
  <2> USE <1>RoleScan
  <2> DEFINE r == m_redundantEndpoints
             tn == mrl.tempNonredundant
             m == mrl'
             x == ep
  <2>0. ListInv /\ EndpointTypes /\ mrl \in Holders /\ r \in Seq(Endpoints)
    BY TypesSplit, ListFacts, Zenon DEF TypesInv
  <2>1. mrl.pc = "scan" /\ r' = r
    BY DEF Scan, ScanFirst, ScanPromote, ScanSecondary, Select, Goes, Ends, lists
  <2>2. mrl.pc \in Busy /\ mrl.pc \notin Destroying /\ mrl.pc # "recover"
    BY <2>1 DEF Busy, Destroying
  <2>3. mrl.isPrimaryConnected /\ ~mrl.isPrimaryAtBack <=> Found(mrl, r)
    BY <2>2, Zenon DEF FoundInv
  <2>4. CASE Select
    <3>.  /\ m.pc = "offer" /\ m.isPrimaryConnected = mrl.isPrimaryConnected
          /\ m.tempNonredundant = tn /\ m.tempRedundant = mrl.tempRedundant
          /\ m.isPrimaryAtBack = mrl.isPrimaryAtBack
          /\ UNCHANGED <<channel, connected, overtaken, listeners, receiver>>
      BY <2>0, <2>4 DEF Select, Holders, endpointVars, status, others
    <3>2. m.pc # "recover" OBVIOUS
    <3>3. \A e : Leads(m, r, e) <=> Leads(mrl, r, e)
      <4> HIDE DEF m
      <4> QED BY <2>2, <3>2, <1>LeadsSame, Zenon
    <3>4. \A e \in Members(m, r) : e \in Members(mrl, r)
      BY <3>2, MembersAre, Zenon
    <3>5. PICK y \in Endpoints : Fades(y) BY SomeEndpoint, <1>UnchangedFades, Zenon
    <3>6. \A e \in Members(mrl', m_redundantEndpoints') :
            /\ e \in Members(mrl, m_redundantEndpoints)
            /\ Leads(mrl', m_redundantEndpoints', e)
                 <=> Leads(mrl, m_redundantEndpoints, e)
      BY <2>1, <3>3, <3>4, Zenon
    <3> QED BY <2>0, <2>2, <3>5, <3>6, <1>RoleFades, Zenon
  <2>5. CASE ~Select
    <3>1. Goes("scan") /\ (m = Gone \/ Scanned)
      BY <2>0, <2>5, ScanFirstInv, ScanSecondaryInv, ScanPromoteInv, Zenon
         DEF Scan, ScanFirst, ScanPromote, ScanSecondary
    <3>2. /\ mrl.todo # <<>> /\ ~mrl.isPrimaryAtBack /\ mrl.tempRedundant = <<>>
      BY <2>0, <3>1, ScanFacts, Zenon
    <3>3. /\ Gone.pc = "scan" /\ Gone.todo = Tail(mrl.todo)
          /\ Gone.isPrimaryConnected = mrl.isPrimaryConnected
          /\ Gone.isPrimaryAtBack = mrl.isPrimaryAtBack
          /\ Gone.tempRedundant = <<>> /\ Gone.tempNonredundant = Append(tn, x)
          /\ \A e : e \in Range(Gone.tempNonredundant) <=> e \in Range(tn) \/ e = x
      BY <2>0, <2>1, <3>2, <1>GoneRange, Zenon DEF SameCounts
    <3>4. x \in Endpoints /\ x \in Range(r) /\ x \notin Range(tn)
      <4>1. LET k == Len(r) - Len(mrl.todo)
            IN  /\ k + 1 \in 1..Len(r) /\ ep = r[k + 1] /\ ep \in Endpoints
                /\ ep \notin Examined(mrl, r)
                /\ \A e \in Range(mrl.tempNonredundant) : e \in Examined(mrl, r)
        BY <2>0, <3>1, <3>3, <1>ScanPlace, Zenon
      <4>2. Range(r) = {r[i] : i \in 1..Len(r)} BY <2>0, SeqFacts
      <4>3. \A j \in 1..Len(r) : r[j] \in Range(r) BY <4>2
      <4> QED BY <4>1, <4>3, Zenon
    <3>5. x \in Members(mrl, r) BY <3>4, MembersAre, Zenon
    <3>6. Gone.tempNonredundant # <<>>
      BY <3>3, EmptyRange, Zenon
    <3>7. Only(x)
      <4>.  CASE ScanPromote
        <5>1. PICK ok \in BOOLEAN : sendMakePrimaryMesg(x, ok)
          BY Zenon DEF ScanPromote
        <5>2. UNCHANGED <<overtaken, listeners, receiver>> BY DEF ScanPromote, others
        <5> HIDE DEF x
        <5> QED BY <2>0, <3>4, <5>1, <5>2, MakePrimaryLoses, Zenon DEF Loses
      <4>2. CASE ~ScanPromote
        <5>1. UNCHANGED <<channel, connected, overtaken, listeners, receiver>>
          BY <2>5, <4>2 DEF Scan, ScanFirst, ScanSecondary, endpointVars, status, others
        <5> QED BY <5>1 DEF Only, Attended, AttendedNext
      <4> QED BY <4>2
    <3>8. ~Found(mrl, r) => \A e : FirstKept(mrl, r, e) <=> e = x
      BY <2>0, <3>1, <1>FirstIsTurn, Zenon
    <3>9. CASE m = Gone
      <4>1. \A e \in Members(m, r) : e # x /\ e \in Members(mrl, r)
        <5>1. Range(m.tempRedundant) = {} BY <3>3, <3>9 DEF Range
        <5>2. m.pc # "recover" BY <3>3, <3>9
        <5> QED BY <3>3, <3>9, <5>1, <5>2, MembersAre, Zenon
      <4>2. ASSUME NEW e, e # x PROVE Leads(m, r, e) <=> Leads(mrl, r, e)
        <5>1. Leads(mrl, r, e) <=> /\ FirstKept(mrl, r, e)
                                   /\ mrl.isPrimaryConnected \/ tn = <<>>
          BY <2>2, <3>2, Zenon DEF Leads
        <5>2. Leads(m, r, e) <=> FirstKept(Gone, r, e) /\ mrl.isPrimaryConnected
          <6>1. Gone.pc # "recover" BY <3>3
          <6> QED BY <3>2, <3>3, <3>6, <3>9, <6>1, Zenon DEF Leads
        <5>.  CASE Found(mrl, r)
          <6>1. FirstKept(Gone, r, e) <=> FirstKept(mrl, r, e)
            BY <2>0, <3>1, <4>2, <1>FirstStays, Zenon
          <6> QED BY <2>3, <5>1, <5>2, <6>1, Zenon
        <5>4. CASE ~Found(mrl, r)
          BY <2>3, <3>2, <3>8, <4>2, <5>1, <5>2, <5>4, Zenon
        <5> QED BY <5>4
      <4>3. \A e \in Members(mrl', m_redundantEndpoints') :
              /\ e # x /\ e \in Members(mrl, m_redundantEndpoints)
              /\ Leads(mrl', m_redundantEndpoints', e)
                   <=> Leads(mrl, m_redundantEndpoints, e)
        BY <2>1, <4>1, <4>2, Zenon
      <4> HIDE DEF x
      <4> QED BY <2>0, <2>2, <3>4, <3>7, <4>3, <1>RoleStep, Zenon
    <3>10. CASE Scanned
      <4>1. /\ m.pc = "scan" /\ m.tempRedundant = <<>> /\ m.tempNonredundant = tn
            /\ m.isPrimaryConnected /\ ~m.isPrimaryAtBack
        BY <3>10, Zenon DEF Scanned
      <4>2. m.pc # "recover" BY <4>1
      <4>3. \A e \in Members(m, r) : e \in Members(mrl, r)
        BY <3>2, <4>1, <4>2, MembersAre, Zenon
      <4>4. \A e : FirstKept(m, r, e) <=> FirstKept(mrl, r, e)
        BY <4>1, Zenon DEF FirstKept
      <4>5. \A e : Leads(m, r, e) <=> FirstKept(mrl, r, e)
        BY <4>1, <4>2, <4>4, Zenon DEF Leads
      <4>6. \A e : Leads(mrl, r, e) <=> /\ FirstKept(mrl, r, e)
                                        /\ mrl.isPrimaryConnected \/ tn = <<>>
        BY <2>2, <3>2, Zenon DEF Leads
      <4>7. \A e : e # x => (Leads(m, r, e) <=> Leads(mrl, r, e))
        <5>1. CASE Found(mrl, r) BY <2>3, <4>5, <4>6, <5>1, Zenon
        <5>2. CASE ~Found(mrl, r) BY <3>8, <4>5, <4>6, <5>2, Zenon
        <5> QED BY <5>1, <5>2
      <4>8. RoleNext(x)
        <5>1. CASE ScanPromote
          <6>1. PICK ok \in BOOLEAN :
                  /\ sendMakePrimaryMesg(x, ok)
                  /\ ~ok => mrl' = Gone
            BY <5>1, Zenon DEF ScanPromote
          <6>2. ~mrl.isPrimaryConnected BY <5>1 DEF ScanPromote
          <6>3. m # Gone BY <3>3, <4>1, <6>2
          <6>4. sendMakePrimaryMesg(x, TRUE) BY <6>1, <6>3, Zenon
          <6>5. channel[x] # "none" BY <2>2, <3>5, Zenon DEF SilentInv, Read
          <6>6. Leads(m, r, x) BY <2>3, <3>8, <4>5, <6>2, Zenon
          <6> HIDE DEF x
          <6>7. channel'[x] # "broken" => channel'[x] = "primary"
            BY <2>0, <3>4, <6>4, <6>5, <1>MadeRole, Zenon
          <6> QED BY <2>1, <6>6, <6>7, Zenon DEF RoleNext
        <5>2. CASE ~ScanPromote
          <6>1. UNCHANGED <<channel, connected, overtaken, listeners>>
            BY <2>5, <5>2 DEF Scan, ScanFirst, ScanSecondary, endpointVars, status, others
          <6>2. mrl.isPrimaryConnected \/ tn = <<>>
            <7>1. CASE ScanSecondary BY <7>1 DEF ScanSecondary
            <7>2. CASE ScanFirst
              <8>1. mrl.todo = r BY <7>2 DEF ScanFirst
              <8>2. TakenFrom(tn, r, Len(r) - Len(mrl.todo))
                BY <2>0, <3>1, ScanFacts, Zenon DEF Scanning
              <8>3. Len(r) - Len(mrl.todo) = 0 BY <2>0, <8>1
              <8>4. tn \in Seq(Endpoints) BY <2>0, HolderTypes, Zenon
              <8> HIDE DEF r, tn
              <8>5. \A i \in 1..Len(tn) : \E j \in 1..0 : tn[i] = r[j]
                BY <8>2, <8>3, Zenon DEF TakenFrom
              <8>6. Len(tn) = 0 BY <8>4, <8>5
              <8> QED BY <8>4, <8>6, SeqFacts
            <7> QED BY <2>5, <5>2, <7>1, <7>2, Zenon DEF Scan
          <6>3. Leads(m, r, x) <=> Leads(mrl, r, x) BY <4>5, <4>6, <6>2, Zenon
          <6>4. Role(x) BY <2>2, <3>5, Zenon DEF RoleInv
          <6> HIDE DEF x
          <6> QED BY <2>1, <6>1, <6>3, <6>4, Zenon DEF Role, RoleNext, Attended, AttendedNext
        <5> QED BY <5>1, <5>2
      <4>9. \A e \in Members(mrl', m_redundantEndpoints') :
              \/ e = x
              \/ /\ e \in Members(mrl, m_redundantEndpoints)
                 /\ Leads(mrl', m_redundantEndpoints', e)
                      <=> Leads(mrl, m_redundantEndpoints, e)
        BY <2>1, <4>3, <4>7, Zenon
      <4> HIDE DEF x
      <4> QED BY <2>0, <2>2, <3>4, <3>7, <4>8, <4>9, <1>RoleStep, Zenon
    <3> QED BY <3>1, <3>9, <3>10
  <2> QED BY <2>4, <2>5
(* An endpoint is added: as the primary at the back, or behind the first   *)
(* that stays.                                                             *)
<1>RoleRecover.
    ASSUME TypesInv, FoundInv, RoleInv, Recover
    PROVE  RoleInv'
  <2> USE <1>RoleRecover
  <2> DEFINE r == m_redundantEndpoints
             tr == mrl.tempRedundant
             m == mrl'
             x == ep
  <2>.  /\ ListInv /\ mrl \in Holders /\ Turns(mrl) /\ r \in Seq(Endpoints)
    BY TypesSplit, ListFacts, Zenon DEF TypesInv
  <2>.  mrl.pc = "recover" /\ r' = r
        /\ UNCHANGED <<channel, connected, overtaken, listeners, receiver>>
    BY DEF Recover, lists, endpointVars, status, others
  <2>.  /\ m.pc = "offer" /\ m.tempRedundant = Append(tr, x)
        /\ m.tempNonredundant = mrl.tempNonredundant
        /\ m.isPrimaryConnected <=> mrl.isPrimaryConnected \/ AsPrimary
        /\ m.isPrimaryAtBack <=> mrl.isPrimaryAtBack \/ AsPrimary
    BY RecoverInv, Zenon DEF Recovered
  <2>.  /\ mrl.pc \in Busy /\ mrl.pc \in Offering /\ mrl.pc \in Adding
        /\ mrl.pc # "scan" /\ m.pc # "recover" /\ mrl.pc \notin Destroying
    BY DEF Offering, Adding, Busy, Destroying
  <2>.  ~mrl.isPrimaryAtBack /\ (mrl.isPrimaryConnected <=> Found(mrl, r))
    BY Zenon DEF Turns, FoundInv
  <2>5. /\ \A e : e \in Range(Append(tr, x)) <=> e \in Range(tr) \/ e = x
        /\ Last(Append(tr, x)) = x
    <3>1. tr \in Seq(Endpoints) BY HolderTypes, Zenon
    <3>2. x \in Endpoints BY AddingTurn
    <3> HIDE DEF tr, x
    <3>3. Range(Append(tr, x)) = Range(tr) \cup {x} BY <3>1, <3>2, RangeAppend
    <3>4. Last(Append(tr, x)) = x BY <3>1, <3>2 DEF Last
    <3> QED BY <3>3, <3>4
  <2>6. x = Head(mrl.todo) BY DEF ep
  <2>7. \A e \in Members(m, r) : e \in Members(mrl, r)
    <3> HIDE DEF x
    <3> QED BY <2>5, <2>6, MembersAre, Zenon
  <2>8. ASSUME NEW e PROVE Leads(m, r, e) <=> Leads(mrl, r, e)
    <3>1. FirstKept(m, r, e) <=> FirstKept(mrl, r, e) BY Zenon DEF FirstKept
    <3>2. Leads(mrl, r, e) <=>
            \/ FirstKept(mrl, r, e)
                 /\ (mrl.isPrimaryConnected \/ mrl.tempNonredundant = <<>>)
            \/ AsPrimary /\ e = x
      BY <2>6, Zenon DEF Leads, AsPrimary
    <3>.  CASE AsPrimary
      <4>1. ~mrl.isPrimaryConnected BY DEF AsPrimary
      <4>2. ~FirstKept(mrl, r, e) BY <4>1, <1>NoneFirst, Zenon
      <4>3. Leads(m, r, e) <=> e = x BY <2>5, Zenon DEF Leads
      <4> QED BY <3>2, <4>2, <4>3, Zenon
    <3>.  CASE ~AsPrimary
      <4>1. ~m.isPrimaryAtBack /\ (m.isPrimaryConnected <=> mrl.isPrimaryConnected)
        BY Zenon
      <4>2. Leads(m, r, e) <=>
              FirstKept(mrl, r, e)
                /\ (mrl.isPrimaryConnected \/ mrl.tempNonredundant = <<>>)
        BY <3>1, <4>1, Zenon DEF Leads
      <4> QED BY <3>2, <4>2, Zenon
    <3> QED OBVIOUS
  <2>9. PICK y \in Endpoints : Fades(y) BY SomeEndpoint, <1>UnchangedFades, Zenon
  <2>10. \A e \in Members(mrl', m_redundantEndpoints') :
           /\ e \in Members(mrl, m_redundantEndpoints)
           /\ Leads(mrl', m_redundantEndpoints', e)
                <=> Leads(mrl, m_redundantEndpoints, e)
    BY <2>7, <2>8, Zenon
  <2> QED BY <2>9, <2>10, <1>RoleFades, Zenon
(* What a run adds is new, and comes once.                                 *)
<1>AddedOnce.
    ASSUME ListInv, mrl.pc = "promote"
    PROVE  /\ mrl.tempRedundant \in Seq(Endpoints)
           /\ IsInjective(mrl.tempRedundant)
           /\ \A e \in Range(mrl.tempRedundant) : e \notin Range(m_redundantEndpoints)
  <2> USE <1>AddedOnce
  <2> DEFINE r == m_redundantEndpoints
             n == m_nonredundantEndpoints
             tr == mrl.tempRedundant
  <2>.  /\ r \in Seq(Endpoints) /\ n \in Seq(Endpoints) /\ mrl \in Holders
        /\ Partition(r, n) /\ Promoting(mrl, r, n)
    BY DEF ListInv, HolderInv
  <2>2. /\ TakenFrom(tr, n, Len(n)) /\ IsInjective(n)
        /\ Range(r) \cap Range(n) = {}
    BY Zenon DEF Promoting, Partition
  <2>3. tr \in Seq(Endpoints) BY HolderTypes, Zenon
  <2>4. Len(n) \in Nat /\ Len(n) <= Len(n) OBVIOUS
  <2> HIDE DEF r, n, tr
  <2>5. IsInjective(tr) /\ Range(tr) \subseteq Range(n)
    BY <2>2, <2>3, <2>4, TakenFacts, Zenon
  <2> QED BY <2>2, <2>3, <2>5 DEF r, tr
<1>RolePromote.
    ASSUME TypesInv, SilentInv, FoundInv, RoleInv, Promote
    PROVE  RoleInv'
  <2> USE <1>RolePromote
  <2> DEFINE r == m_redundantEndpoints
             tr == mrl.tempRedundant
             m == mrl'
             x == Last(tr)
  <2>0. ListInv /\ EndpointTypes /\ mrl \in Holders /\ r \in Seq(Endpoints)
    BY TypesSplit, ListFacts, Zenon DEF TypesInv
  <2>1. /\ mrl.pc = "promote" /\ m.pc = "promote" /\ r' = r
        /\ tr \in Seq(Endpoints) /\ tr # <<>>
        /\ ~mrl.isPrimaryConnected /\ ~mrl.isPrimaryAtBack
        /\ m.tempNonredundant = mrl.tempNonredundant
        /\ UNCHANGED <<listeners, receiver>>
    BY <2>0, <1>PromoteHolders, Zenon
  <2>2. PICK ok \in BOOLEAN :
          /\ sendMakePrimaryMesg(x, ok)
          /\ ok => /\ m.isPrimaryConnected /\ m.isPrimaryAtBack
                   /\ m.tempRedundant = tr
          /\ ~ok => /\ ~m.isPrimaryConnected /\ ~m.isPrimaryAtBack
                    /\ m.tempRedundant = Front(tr)
    BY <2>0, <1>PromoteHolders, Zenon
  <2>3. /\ mrl.pc \in Busy /\ mrl.pc # "scan" /\ mrl.pc # "recover"
        /\ m.pc # "recover" /\ m.pc # "scan" /\ mrl.pc \notin Destroying
    BY <2>1 DEF Busy, Destroying
  <2>4. ~Found(mrl, r) BY <2>1, <2>3, Zenon DEF FoundInv
  <2>5. /\ \A e : ~FirstKept(mrl, r, e)
        /\ \A e \in Range(r) : e \in Range(mrl.tempNonredundant)
    BY <2>0, <2>3, <2>4, <1>NoneFirst, Zenon
  <2>6. \A e : ~Leads(mrl, r, e) BY <2>1, <2>3, <2>5, Zenon DEF Leads
  <2>7. \A e : ~FirstKept(m, r, e) BY <2>1, <2>5, Zenon DEF FirstKept
  <2>8. /\ x \in Endpoints /\ Range(tr) = Range(Front(tr)) \cup {x} /\ x \in Range(tr)
        /\ x \notin Range(Front(tr))
    <3>1. IsInjective(tr) BY <2>0, <2>1, <1>AddedOnce
    <3> DEFINE f == Front(tr)
               n == Len(tr)
    <3>2. /\ x \in Endpoints /\ f \in Seq(Endpoints) /\ Len(f) = n - 1
          /\ x = tr[n] /\ \A i \in 1..(n - 1) : f[i] = tr[i]
          /\ x \in Range(tr) /\ Range(tr) = Range(f) \cup {x}
      BY <2>1, FrontLast, Zenon
    <3>3. n \in Nat /\ n # 0 /\ \A i, j \in 1..n : tr[i] = tr[j] => i = j
      BY <2>1, <3>1, SeqFacts
    <3> HIDE DEF x, f, tr, n
    <3>4. Range(f) = {f[i] : i \in 1..Len(f)} BY <3>2, SeqFacts
    <3>5. x \notin Range(f)
      <4> SUFFICES ASSUME NEW i \in 1..(n - 1), x = f[i] PROVE FALSE BY <3>2, <3>4
      <4>1. i \in 1..n /\ n \in 1..n /\ i # n BY <3>3
      <4> QED BY <3>2, <3>3, <4>1, Zenon
    <3> QED BY <3>2, <3>5 DEF f
  <2>9. Only(x)
    <3>1. overtaken' = overtaken BY DEF Promote, others
    <3> HIDE DEF x
    <3> QED BY <2>0, <2>1, <2>2, <2>8, <3>1, MakePrimaryLoses, Zenon DEF Loses
  <2>.   \A e : e \in Members(mrl, r) <=> e \in Range(tr)
    BY <2>3, <2>5, MembersAre, Zenon
  <2>11. \A e : e \in Members(m, r) <=> e \in Range(m.tempRedundant)
    BY <2>1, <2>3, <2>5, MembersAre, Zenon
  <2>.   CASE ok
    <3>1. m.tempRedundant = tr /\ m.isPrimaryAtBack BY <2>2
    <3>2. \A e : Leads(m, r, e) <=> e = x BY <2>3, <2>7, <3>1, Zenon DEF Leads
    <3>3. sendMakePrimaryMesg(x, TRUE) BY <2>2, Zenon
    <3>4. channel[x] # "none" BY <2>3, <2>8, Zenon DEF SilentInv, Read
    <3>5. channel'[x] # "broken" => channel'[x] = "primary"
      <4> HIDE DEF x
      <4> QED BY <2>0, <2>8, <3>3, <3>4, <1>MadeRole, Zenon
    <3>6. RoleNext(x)
      <4> HIDE DEF x
      <4> QED BY <2>1, <3>2, <3>5, Zenon DEF RoleNext
    <3>7. \A e \in Members(mrl', m_redundantEndpoints') :
            \/ e = x
            \/ /\ e \in Members(mrl, m_redundantEndpoints)
               /\ Leads(mrl', m_redundantEndpoints', e)
                    <=> Leads(mrl, m_redundantEndpoints, e)
      BY <2>1, <2>6, <2>11, <3>1, <3>2, Zenon
    <3> HIDE DEF x
    <3> QED BY <2>0, <2>3, <2>8, <2>9, <3>6, <3>7, <1>RoleStep, Zenon
  <2>13. CASE ~ok
    <3>1. /\ m.tempRedundant = Front(tr) /\ ~m.isPrimaryAtBack
      BY <2>2, <2>13
    <3>2. \A e : ~Leads(m, r, e) BY <2>3, <2>7, <3>1, Zenon DEF Leads
    <3>3. \A e \in Members(m, r) : e # x /\ e \in Members(mrl, r)
      BY <2>8, <2>11, <3>1, Zenon
    <3>4. \A e \in Members(mrl', m_redundantEndpoints') :
            /\ e # x /\ e \in Members(mrl, m_redundantEndpoints)
            /\ Leads(mrl', m_redundantEndpoints', e)
                 <=> Leads(mrl, m_redundantEndpoints, e)
      BY <2>1, <2>6, <3>2, <3>3, Zenon
    <3> HIDE DEF x
    <3> QED BY <2>0, <2>3, <2>8, <2>9, <3>4, <1>RoleStep, Zenon
  <2> QED BY <2>13
(* Between two runs the first endpoint leads.                              *)
<1>LeadsAtRest.
    ASSUME NEW m, Rests(m), ~m.isPrimaryAtBack, m.pc \notin Busy,
           NEW r \in Seq(Endpoints), NEW e
    PROVE  Leads(m, r, e) <=> r # <<>> /\ e = r[1]
  <2> USE <1>LeadsAtRest
  <2>1. m.tempNonredundant = <<>> /\ m.pc # "recover" BY DEF Rests, Busy
  <2>2. \A x : x \notin Range(m.tempNonredundant) BY <2>1 DEF Range
  <2>3. Leads(m, r, e) <=> FirstKept(m, r, e) BY <2>1, Zenon DEF Leads
  <2>4. FirstKept(m, r, e) <=>
          \E j \in 1..Len(r) : e = r[j] /\ \A i \in 1..(j - 1) : FALSE
    BY <2>2, Zenon DEF FirstKept
  <2>5. ASSUME NEW j \in 1..Len(r), \A i \in 1..(j - 1) : FALSE PROVE j = 1
    <3>1. Len(r) \in Nat BY SeqFacts
    <3> SUFFICES ASSUME j # 1 PROVE FALSE OBVIOUS
    <3>2. 1 \in 1..(j - 1) BY <3>1
    <3> QED BY <2>5, <3>2
  <2>6. r # <<>> => 1 \in 1..Len(r) /\ \A i \in 1..(1 - 1) : FALSE
    BY SeqFacts
  <2>7. \A j \in 1..Len(r) : r # <<>> OBVIOUS
  <2> QED BY <2>3, <2>4, <2>5, <2>6, <2>7, Zenon
(* There is one first endpoint.                                            *)
<1>OneFirst.
    ASSUME NEW m, NEW r \in Seq(Endpoints), NEW e, NEW f,
           FirstKept(m, r, e), FirstKept(m, r, f)
    PROVE  e = f
  <2> USE <1>OneFirst
  <2> DEFINE T == Range(m.tempNonredundant)
  <2>1. PICK j \in 1..Len(r) : e = r[j] /\ e \notin T /\ \A i \in 1..(j - 1) : r[i] \in T
    BY Zenon DEF FirstKept
  <2>2. PICK k \in 1..Len(r) : f = r[k] /\ f \notin T /\ \A i \in 1..(k - 1) : r[i] \in T
    BY Zenon DEF FirstKept
  <2> HIDE DEF T
  <2>.  Len(r) \in Nat BY SeqFacts
  <2>4. j < k => j \in 1..(k - 1) OBVIOUS
  <2>5. k < j => k \in 1..(j - 1) OBVIOUS
  <2>6. j = k \/ j < k \/ k < j OBVIOUS
  <2> QED BY <2>1, <2>2, <2>4, <2>5, <2>6, Zenon
(* The lists are rearranged so that the primary comes first.               *)
<1>RoleRearrange.
    ASSUME TypesInv, FoundInv, RoleInv, Rearrange
    PROVE  RoleInv'
  <2> USE <1>RoleRearrange
  <2> DEFINE r == m_redundantEndpoints
             n == m_nonredundantEndpoints
             tr == mrl.tempRedundant
             tn == mrl.tempNonredundant
             left == removeEndpointsInOrder(r, tn)
             new == left \o tr
             q == m_redundantEndpoints'
             m == mrl'
  <2>0. /\ ListInv /\ mrl \in Holders /\ Turns(mrl) /\ r \in Seq(Endpoints)
    BY TypesSplit, ListFacts, Zenon DEF TypesInv
  <2>1. /\ mrl.pc = "promote" /\ ~Promotes /\ m = Fresh("leave", tn)
        /\ UNCHANGED <<channel, connected, overtaken, listeners, receiver>>
        /\ q = IF mrl.isPrimaryConnected /\ mrl.isPrimaryAtBack
               THEN BackToFront(new) ELSE new
    BY DEF Rearrange, Fresh, endpointVars, status, others
  <2>2. /\ ListInv' /\ Range(q) = (Range(r) \ Range(tn)) \cup Range(tr)
    BY <2>0, RearrangeInv, Zenon
  <2>3. m.pc = "leave" /\ ~m.isPrimaryAtBack
    <3>1. tn \in Seq(Endpoints) BY <2>0, HolderTypes, Zenon
    <3> HIDE DEF tn
    <3> QED BY <2>1, <3>1, FreshHolder
  <2>4. /\ mrl.pc \notin Destroying /\ m.pc \notin Busy /\ mrl.pc # "recover"
        /\ mrl.pc \in Busy /\ mrl.pc # "scan"
    BY <2>1, <2>3 DEF Destroying, Busy
  <2>5. Rests(m) /\ q \in Seq(Endpoints) BY <2>2, <2>4, Zenon DEF ListInv, HolderInv
  <2>6. Members(m, q) = Range(q)
    <3> HIDE DEF m, q
    <3> QED BY <2>4, <2>5, MembersAtRest
  <2>7. \A e \in Members(m, q) : e \in Members(mrl, r)
    BY <2>2, <2>6, MembersAre, Zenon
  <2>8. \A e : Leads(m, q, e) <=> q # <<>> /\ e = q[1]
    <3> HIDE DEF m, q
    <3> QED BY <2>3, <2>4, <2>5, <1>LeadsAtRest, Zenon
  <2>9. /\ left \in Seq(Endpoints) /\ FirstLeft(r, tn, left) /\ tr \in Seq(Endpoints)
        /\ new \in Seq(Endpoints) /\ IsInjective(new)
        /\ Range(new) = (Range(r) \ Range(tn)) \cup Range(tr)
        /\ Range(left) = Range(r) \ Range(tn)
    BY <2>0, <2>1, RearrangedLists, Zenon DEF Partition
  <2>10. ASSUME mrl.isPrimaryAtBack, NEW e PROVE Leads(m, q, e) <=> Leads(mrl, r, e)
    <3>1. mrl.isPrimaryConnected /\ tr # <<>> BY <2>0, <2>10, Zenon DEF Turns
    <3>2. q = BackToFront(new) BY <2>1, <2>10, <3>1, Zenon
    <3>3. new # <<>> /\ Last(new) = Last(tr)
      <4> HIDE DEF left, tr
      <4>1. Len(tr) \in Nat /\ Len(tr) # 0 /\ Len(left) \in Nat BY <2>9, <3>1, SeqFacts
      <4>2. Len(new) = Len(left) + Len(tr) BY <2>9
      <4>3. new[Len(left) + Len(tr)] = tr[Len(tr)] BY <2>9, <4>1
      <4> QED BY <4>1, <4>2, <4>3 DEF Last
    <3>4. Len(q) = Len(new) /\ q[1] = Last(new)
      <4> HIDE DEF new, q
      <4> QED BY <2>9, <3>2, <3>3, BackToFrontFacts, Zenon
    <3>5. q # <<>>
      <4> HIDE DEF new, q
      <4>1. Len(new) # 0 BY <2>9, <3>3, SeqFacts, Zenon
      <4> QED BY <2>5, <3>4, <4>1, SeqFacts, Zenon
    <3>6. Leads(mrl, r, e) <=> e = Last(tr) BY <2>4, <2>10, Zenon DEF Leads
    <3> QED BY <2>8, <3>3, <3>4, <3>5, <3>6, Zenon
  <2>11. ASSUME ~mrl.isPrimaryAtBack, mrl.isPrimaryConnected, NEW e
         PROVE  Leads(m, q, e) <=> Leads(mrl, r, e)
    <3>1. q = new BY <2>1, <2>11, Zenon
    <3>2. Found(mrl, r) BY <2>4, <2>11, Zenon DEF FoundInv
    <3>3. Range(left) = Range(r) \ Range(tn) BY <2>9, Zenon
    <3>4. left # <<>>
      <4>1. PICK x : x \in Range(r) /\ x \notin Range(tn)
        BY <2>4, <3>2, Zenon DEF Found, Examined
      <4>2. x \in Range(left) BY <3>3, <4>1
      <4> HIDE DEF left
      <4> QED BY <4>2 DEF Range
    <3>5. q # <<>> /\ q[1] = left[1]
      <4> HIDE DEF left, tr
      <4> QED BY <2>9, <3>1, <3>4
    <3>6. FirstKept(mrl, r, left[1])
      BY <2>9, <3>4, Zenon DEF FirstKept, FirstLeft
    <3>7. Leads(mrl, r, e) <=> FirstKept(mrl, r, e)
      BY <2>4, <2>11, Zenon DEF Leads
    <3>8. FirstKept(mrl, r, e) <=> e = left[1]
      <4> HIDE DEF left
      <4> QED BY <2>0, <3>6, <1>OneFirst
    <3> QED BY <2>8, <3>5, <3>7, <3>8, Zenon
  <2>12. ASSUME ~mrl.isPrimaryConnected PROVE Range(q) = {}
    <3>1. tr = <<>> BY <2>1, <2>12 DEF Promotes
    <3>2. Range(tr) = {} BY <3>1 DEF Range
    <3>3. ~Found(mrl, r) BY <2>4, <2>12, Zenon DEF FoundInv
    <3>4. \A e \in Range(r) : e \in Range(tn) BY <2>0, <2>4, <3>3, <1>NoneFirst, Zenon
    <3> QED BY <2>2, <3>2, <3>4
  <2>13. PICK y \in Endpoints : Fades(y) BY <2>1, SomeEndpoint, <1>UnchangedFades, Zenon
  <2>14. \A e \in Members(mrl', m_redundantEndpoints') :
           /\ e \in Members(mrl, m_redundantEndpoints)
           /\ Leads(mrl', m_redundantEndpoints', e)
                <=> Leads(mrl, m_redundantEndpoints, e)
    <3>1. ASSUME NEW e \in Members(m, q) PROVE Leads(m, q, e) <=> Leads(mrl, r, e)
      <4>1. e \in Range(q) BY <2>6, Zenon
      <4>2. mrl.isPrimaryConnected BY <2>12, <4>1, Zenon
      <4> QED BY <2>10, <2>11, <4>2, Zenon
    <3> QED BY <2>7, <3>1, Zenon
  <2> QED BY <2>0, <2>4, <2>13, <2>14, <1>RoleFades, Zenon
<1>RoleInvNext.
    ASSUME TypesInv, SilentInv, FoundInv, RoleInv, [Next]_vars
    PROVE  RoleInv'
  <2> USE <1>RoleInvNext
  <2>1. CASE destroy \/ DestroyStep
    <3>1. mrl'.pc \in Destroying BY <2>1, Destroyed
    <3> QED BY <3>1, Zenon DEF RoleInv
  <2>2. CASE Monitor \/ UNCHANGED vars
    <3>.  UNCHANGED <<mrl, m_redundantEndpoints, channel, connected, listeners,
                      receiver, overtaken>>
      BY <2>2 DEF Monitor, Untouched, vars, lists, status
    <3>2. CASE mrl.pc \in Destroying BY <3>2 DEF RoleInv
    <3>3. CASE mrl.pc \notin Destroying
      <4>1. PICK x \in Endpoints : Fades(x)
        BY SomeEndpoint, <1>UnchangedFades, Zenon
      <4>2. ListInv BY DEF TypesInv
      <4> QED BY <3>3, <4>1, <4>2, <1>RoleFades, Zenon
    <3> QED BY <3>2, <3>3
  <2> QED BY <2>1, <2>2, <1>RoleScan, <1>RoleOffer, <1>RoleRecover, <1>RolePromote, <1>RoleRearrange,
             <1>RoleRest, <1>RolePing, <1>RoleReceivers, <1>RoleServers, Zenon
          DEF Next, maintainRedundancyLevel
<1>1. Init => FoundInv /\ RoleInv
  <2> SUFFICES ASSUME Init PROVE FoundInv /\ RoleInv OBVIOUS
  <2>1. RoleInv BY SilentInit, Zenon DEF RoleInv
  <2> DEFINE r == m_redundantEndpoints
  <2>2. r = <<>> /\ mrl = Begun(TRUE) BY DEF Init
  <2>3. r \in Seq(Endpoints) BY <2>2
  <2>.  mrl.pc = "scan" /\ mrl.todo = r /\ ~mrl.isPrimaryConnected
        /\ ~mrl.isPrimaryAtBack
    BY <2>2, <2>3, BegunHolder, Zenon
  <2>5. \A e : e \notin Examined(mrl, r)
    <3> DEFINE k == Len(r) - Len(mrl.todo)
    <3>0. Len(r) \in Nat BY <2>3
    <3>1. k = 0 BY <3>0
    <3>2. Examined(mrl, r) = {r[i] : i \in 1..k} BY Zenon DEF Examined
    <3> HIDE DEF k, r
    <3> QED BY <3>1, <3>2
  <2> QED BY <2>1, <2>5, Zenon DEF FoundInv, Found
<1>2. TypesInv /\ FoundInv /\ [Next]_vars => FoundInv' BY <1>FoundNext
<1>3. TypesInv /\ SilentInv /\ FoundInv /\ RoleInv /\ [Next]_vars => RoleInv'
  BY <1>RoleInvNext
<1>4. TypesInv /\ RoleInv => PrimaryLeads
  <2> DEFINE r == m_redundantEndpoints
  <2> SUFFICES ASSUME TypesInv, RoleInv, Free, NEW i \in DOMAIN r,
                      Attended(r[i]), channel[r[i]] # "broken", listeners[r[i]] = 1
               PROVE  channel[r[i]] = "primary" <=> i = 1
    BY Zenon DEF PrimaryLeads, Attended
  <2>.  mrl.pc \notin Busy /\ mrl.pc \notin Destroying /\ mrl.pc # "closed"
    BY DEF Free, Busy, Destroying
  <2>.  /\ Rests(mrl) /\ Turns(mrl) /\ r \in Seq(Endpoints) /\ IsInjective(r)
    BY ListFacts, Zenon DEF TypesInv, Partition
  <2>3. ~mrl.isPrimaryAtBack BY Zenon DEF Rests, Turns
  <2>4. Members(mrl, r) = Range(r) BY MembersAtRest
  <2>5. r[i] \in Range(r) BY Zenon DEF Range
  <2>6. channel[r[i]] = "primary" <=> Leads(mrl, r, r[i])
    BY <2>4, <2>5, Zenon DEF RoleInv, Role
  <2>7. Leads(mrl, r, r[i]) <=> r # <<>> /\ r[i] = r[1]
    <3> HIDE DEF r
    <3> QED BY <2>3, <1>LeadsAtRest, Zenon
  <2> HIDE DEF r
  <2>8. r # <<>> /\ (r[i] = r[1] <=> i = 1) BY SeqFacts
  <2> QED BY <2>6, <2>7, <2>8, Zenon
<1> QED BY <1>1, <1>2, <1>3, <1>4, SilentInvHolds, TypesInvHolds, PTL DEF Spec

=============================================================================
