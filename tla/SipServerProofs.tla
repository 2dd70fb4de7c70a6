-------------------------- MODULE SipServerProofs --------------------------
(* Proofs about SipServer and CallLog, for any set of datagrams, any size   *)
(* of the receive buffer and of the ring.  The invariant ties the variable  *)
(* into which sip_handler_on_read parses every datagram to the datagram     *)
(* taken last, and each place of the ring to the number of its entry; where *)
(* an extension stands in an address is a fact about sequences of any       *)
(* length.                                                                  *)
EXTENDS SipServer, WellFoundedInduction, TLAPS

\* m is a request that sip_validate_message lets pass, parsed from datagram d.
Asked(m, d) ==
  /\ m.peer = d.peer /\ m.method = d.method
  /\ d.code = 0 /\ d.method \in Methods
  /\ \A name \in Kept : m.head[name] # <<>> => Says(d, name, m.head[name])
  /\ \A name \in Kept \ {"Via"} : m.head[name] # <<>>

Ring ==
  /\ callLogIndex \in 0..CallLogMax /\ logged \in Nat /\ callLogIndex <= logged
  /\ logged > 0 => callLogIndex > 0
  /\ logged <= MaxLogged
  /\ callLog \in [Places -> 0..MaxLogged]
  /\ \A i \in Places : callLog[i] = Latest(i)

SipInv ==
  /\ buffer \in Seq(Datagrams) /\ Len(buffer) <= MaxBuffer
  /\ pending \in BOOLEAN /\ failed \in BOOLEAN
  /\ pc \in {"wait", "read", "route"}
  /\ last \in Datagrams \cup {Nothing}
  /\ DOMAIN msg.head = Kept
  /\ pc = "route" => Asked(msg, last) /\ last.method = "INVITE"
  /\ RepliesMatch /\ NoStrayReplies /\ NoneStranded
  /\ Ring

-----------------------------------------------------------------------------
(* A set of numbers that is not empty has a least one: induction, as a fact *)
(* about sets.                                                              *)
LEMMA LeastNumber ==
  ASSUME NEW S \in SUBSET Nat, S # {}
  PROVE  \E n \in S : \A m \in S : n <= m
<1>1. PICK x \in S : \A y \in S : ~(<<y, x>> \in OpToRel(<, Nat))
  BY WFMin, NatLessThanWellFounded, Zenon
<1>2. \A y \in S : ~(y < x)
  BY <1>1 DEF OpToRel
<1>3. QED
  BY <1>2

(* A set of line numbers has a last one.                                    *)
LEMMA MaxInSet ==
  ASSUME NEW n \in Nat, NEW S, S \subseteq 1..n, S # {}
  PROVE  Max(S) \in S /\ \A y \in S : y <= Max(S)
<1> DEFINE T == {n - x : x \in S}
<1>1. T \subseteq Nat /\ T # {}
  <2>1. \A x \in S : n - x \in Nat
    OBVIOUS
  <2>2. PICK x \in S : TRUE
    OBVIOUS
  <2>3. n - x \in T
    OBVIOUS
  <2>4. QED
    BY <2>1, <2>3
<1>2. PICK m \in T : \A y \in T : m <= y
  <2> HIDE DEF T
  <2>1. QED
    BY <1>1, LeastNumber
<1>3. PICK x \in S : m = n - x
  OBVIOUS
<1>4. ASSUME NEW y \in S PROVE x >= y
  <2>1. n - y \in T
    OBVIOUS
  <2>2. n - x <= n - y
    BY <1>2, <1>3, <2>1
  <2>3. QED
    BY <2>2
<1>5. QED
  BY <1>3, <1>4 DEF Max

(* sip_parse_message and sip_validate_message: what a request says is what  *)
(* its own datagram says, for the message is cleared first.                 *)
LEMMA RequestAsked ==
  ASSUME buffer \in Seq(Datagrams), Request
  PROVE  /\ last' \in Datagrams /\ last' = Head(buffer)
         /\ buffer' \in Seq(Datagrams) /\ Len(buffer') <= Len(buffer)
         /\ DOMAIN msg'.head = Kept
         /\ Asked(msg', last')
<1> DEFINE d == Head(buffer)
<1>1. buffer # <<>> /\ buffer' = Tail(buffer) /\ last' = d
  BY DEF Request, Receive
<1>2. d \in Datagrams /\ buffer' \in Seq(Datagrams) /\ Len(buffer') <= Len(buffer)
  BY <1>1
<1>3. DatagramType(d)
  BY <1>2, DatagramsAssumption
<1>4. Valid(msg') /\ ~IsResponse(msg')
  BY DEF Request
<1>5. d.method # "broken"
  <2> SUFFICES ASSUME d.method = "broken" PROVE FALSE
    OBVIOUS
  <2>1. msg' = Empty(msg.peer)
    BY DEF Request, Receive, Cleared
  <2>2. QED
    BY <1>4, <2>1 DEF Valid, Empty
<1>6. msg' = ParsedInto(Empty(msg.peer), d)
  BY <1>5 DEF Request, Receive, Cleared
<1>7. /\ msg'.peer = d.peer /\ msg'.method = d.method /\ msg'.code = d.code
      /\ DOMAIN msg'.head = Kept
      /\ \A name \in Kept : msg'.head[name] =
           IF Found(d, name) = {} THEN <<>> ELSE d.lines[Max(Found(d, name))].text
  BY <1>6 DEF ParsedInto, Empty
<1>8. d.code = 0 /\ d.method \in Methods /\ Complete(msg')
  BY <1>3, <1>4, <1>5, <1>7 DEF Valid, IsResponse, DatagramType
<1>9. ASSUME NEW name \in Kept, msg'.head[name] # <<>>
      PROVE  Says(d, name, msg'.head[name])
  <2>1. Found(d, name) # {}
    BY <1>7, <1>9
  <2>2. Found(d, name) \subseteq 1..Len(d.lines) /\ Len(d.lines) \in Nat
    BY <1>3 DEF Found, DatagramType
  <2>3. PICK i \in Found(d, name) : i = Max(Found(d, name)) /\ \A j \in Found(d, name) : j <= i
    BY <2>1, <2>2, MaxInSet
  <2>4. msg'.head[name] = d.lines[i].text
    BY <1>7, <2>1, <2>3
  <2>5. i \in DOMAIN d.lines /\ d.lines[i].name = name /\ (d.cut => i < Len(d.lines))
    <3>1. i \in DOMAIN d.lines /\ d.lines[i].name = name /\ (d.cut => i # Len(d.lines))
      BY <2>3, Zenon DEF Found
    <3>2. i \in 1..Len(d.lines)
      BY <2>2, <2>3, Zenon
    <3>3. QED
      BY <2>2, <3>1, <3>2
  <2>6. ASSUME NEW j \in DOMAIN d.lines, j > i, d.lines[j].name = name
        PROVE  d.cut /\ j = Len(d.lines)
    <3>1. j \notin Found(d, name)
      BY <2>2, <2>3, <2>6
    <3>2. QED
      BY <2>6, <3>1 DEF Found
  <2>7. QED
    BY <2>4, <2>5, <2>6 DEF Says
<1>10. QED
  BY <1>1, <1>2, <1>7, <1>8, <1>9 DEF Asked, Complete

(* sip_generate_response and sip_dispatch: what is sent belongs to the      *)
(* request, if there is anything to send.                                   *)
LEMMA SendAnswers ==
  ASSUME NEW m, NEW d, NEW statuses, Asked(m, d), Send(m, statuses), last' = d,
         DOMAIN statuses = {} \/ d.method # "ACK"
  PROVE  RepliesMatch' /\ NoStrayReplies'
<1>1. PICK sent \in SUBSET DOMAIN statuses : replies' = [k \in sent |-> Response(m, statuses[k])]
  BY DEF Send
<1>2. RepliesMatch'
  <2> SUFFICES ASSUME NEW k \in DOMAIN replies'
               PROVE  /\ replies'[k].peer = d.peer
                      /\ \A name \in Kept : replies'[k].head[name] # <<"unknown">> =>
                           Says(d, name, replies'[k].head[name])
    BY DEF RepliesMatch, Says
  <2>1. replies'[k] = Response(m, statuses[k])
    BY <1>1
  <2>2. /\ replies'[k].peer = m.peer
        /\ \A name \in Kept : replies'[k].head[name] =
             IF m.head[name] = <<>> THEN <<"unknown">> ELSE m.head[name]
    BY <2>1 DEF Response
  <2>3. QED
    BY <2>2 DEF Asked
<1>3. NoStrayReplies'
  <2> SUFFICES ASSUME DOMAIN replies' # {}
               PROVE  /\ d.code = 0 /\ d.method \in Methods \ {"ACK"}
                      /\ \A name \in Kept \ {"Via"} : \E i \in DOMAIN d.lines :
                           d.lines[i].name = name /\ d.lines[i].text # <<>>
    BY DEF NoStrayReplies
  <2>1. d.method # "ACK"
    BY <1>1
  <2>2. QED
    BY <2>1 DEF Asked, Says
<1>4. QED
  BY <1>2, <1>3

-----------------------------------------------------------------------------
(* log_call: the index wraps, and every place keeps its latest entry.       *)
LEMMA LogCallRing ==
  ASSUME Ring, LogCall, logged < MaxLogged
  PROVE  Ring'
<1> USE CallLogMaxAssumption, BufferAssumption DEF Places
<1>1. /\ callLogIndex \in 0..CallLogMax /\ logged \in Nat /\ callLogIndex <= logged
      /\ logged > 0 => callLogIndex > 0
  BY DEF Ring
<1>2. NextPlace = IF callLogIndex = CallLogMax THEN 1 ELSE callLogIndex + 1
  <2>1. CASE callLogIndex = CallLogMax
    BY <1>1, <2>1 DEF NextPlace
  <2>2. CASE callLogIndex < CallLogMax
    BY <1>1, <2>2 DEF NextPlace
  <2>3. QED
    BY <1>1, <2>1, <2>2
<1>3. /\ callLogIndex' = NextPlace /\ logged' = logged + 1
      /\ callLog' = [callLog EXCEPT ![NextPlace] = logged + 1]
  BY DEF LogCall
<1>4. NextPlace \in Places
  BY <1>1, <1>2
<1>5. callLog' \in [Places -> 0..MaxLogged]
  BY <1>1, <1>3, <1>4 DEF Ring
<1>6. ASSUME NEW i \in Places PROVE callLog'[i] = Latest(i)'
  <2>1. callLog[i] = Latest(i)
    BY DEF Ring
  <2>2. callLog'[i] = IF i = NextPlace THEN logged + 1 ELSE callLog[i]
    BY <1>3, <1>4 DEF Ring
  <2>3. CASE callLogIndex = CallLogMax
    BY <1>1, <1>2, <1>3, <2>1, <2>2, <2>3 DEF Latest
  <2>4. CASE callLogIndex # CallLogMax
    BY <1>1, <1>2, <1>3, <2>1, <2>2, <2>4 DEF Latest
  <2>5. QED
    BY <2>3, <2>4
<1>7. QED
  BY <1>1, <1>2, <1>3, <1>5, <1>6 DEF Ring

(* An entry written less than CALL_LOG_MAX entries ago is in its place.     *)
LEMMA RingHolds == ASSUME Ring PROVE RingHoldsLatest
<1> USE CallLogMaxAssumption DEF Places
<1>1. /\ callLogIndex \in 0..CallLogMax /\ logged \in Nat /\ callLogIndex <= logged
  BY DEF Ring
<1>2. ASSUME NEW e \in 1..logged, e + CallLogMax > logged
      PROVE  \E i \in Places : callLog[i] = e
  <2>1. CASE e > logged - callLogIndex
    <3>1. callLogIndex - (logged - e) \in Places
      BY <1>1, <2>1
    <3>2. Latest(callLogIndex - (logged - e)) = e
      BY <1>1, <2>1 DEF Latest
    <3>3. QED
      BY <3>1, <3>2 DEF Ring
  <2>2. CASE e <= logged - callLogIndex
    <3>1. e - logged + callLogIndex + CallLogMax \in Places
      BY <1>1, <1>2, <2>2
    <3>2. Latest(e - logged + callLogIndex + CallLogMax) = e
      BY <1>1, <1>2, <2>2 DEF Latest
    <3>3. QED
      BY <3>1, <3>2 DEF Ring
  <2>3. QED
    BY <1>1, <2>1, <2>2
<1>3. QED
  BY <1>1, <1>2 DEF Ring, RingHoldsLatest

-----------------------------------------------------------------------------
(* The server starts with an empty buffer and an empty ring.                *)
LEMMA InitSipInv == Init => SipInv
<1> SUFFICES ASSUME Init PROVE SipInv
  OBVIOUS
<1>1. Ring
  BY CallLogMaxAssumption, BufferAssumption DEF Init, LogInit, Ring, Places, Latest
<1>2. buffer \in Seq(Datagrams) /\ Len(buffer) <= MaxBuffer
  BY BufferAssumption DEF Init
<1>3. DOMAIN msg.head = Kept
  BY DEF Init, Empty
<1>4. RepliesMatch /\ NoStrayReplies
  <2>1. DOMAIN replies = {}
    BY DEF Init
  <2>2. QED
    BY <2>1 DEF RepliesMatch, NoStrayReplies
<1>5. QED
  BY <1>1, <1>2, <1>3, <1>4 DEF Init, SipInv, NoneStranded

(* The callback takes a datagram.                                           *)
LEMMA HandleSipInv ==
  ASSUME SipInv, Discarded \/ OtherRequest \/ InviteIncomplete \/ InviteRouted
  PROVE  SipInv'
<1>1. /\ pc = "read" /\ buffer # <<>> /\ buffer' = Tail(buffer) /\ last' = Head(buffer)
      /\ UNCHANGED <<pending, failed, callLog, callLogIndex, logged>>
  BY DEF Discarded, OtherRequest, InviteIncomplete, InviteRouted, Request, Receive, logVars
<1>2. /\ buffer' \in Seq(Datagrams) /\ Len(buffer') <= MaxBuffer /\ last' \in Datagrams
      /\ pending' \in BOOLEAN /\ failed' \in BOOLEAN
  <2>1. buffer \in Seq(Datagrams) /\ Len(buffer) <= MaxBuffer /\ MaxBuffer \in Nat
    BY BufferAssumption DEF SipInv
  <2>2. QED
    BY <1>1, <2>1 DEF SipInv
<1>3. Ring'
  BY <1>1 DEF SipInv, Ring, Latest, Places
<1>4. CASE Discarded
  <2>1. pc' = "read" /\ DOMAIN replies' = {} /\ DOMAIN msg'.head = Kept
    BY <1>4 DEF Discarded, Loop, Receive, Cleared, Empty, ParsedInto
  <2>2. RepliesMatch' /\ NoStrayReplies'
    BY <2>1 DEF RepliesMatch, NoStrayReplies
  <2>3. QED
    BY <1>2, <1>3, <2>1, <2>2 DEF SipInv, NoneStranded
<1>5. CASE InviteRouted
  <2>1. pc' = "route" /\ DOMAIN replies' = {} /\ msg'.method = "INVITE"
    BY <1>5 DEF InviteRouted
  <2>2. DOMAIN msg'.head = Kept /\ Asked(msg', last')
    BY <1>5, RequestAsked DEF InviteRouted, SipInv
  <2>3. RepliesMatch' /\ NoStrayReplies'
    BY <2>1 DEF RepliesMatch, NoStrayReplies
  <2>4. QED
    BY <1>2, <1>3, <2>1, <2>2, <2>3 DEF SipInv, NoneStranded, Asked
<1>6. CASE OtherRequest \/ InviteIncomplete
  <2>1. DOMAIN msg'.head = Kept /\ Asked(msg', last')
    BY <1>6, RequestAsked DEF OtherRequest, InviteIncomplete, SipInv
  <2>2. pc' = "read"
    BY <1>6 DEF OtherRequest, InviteIncomplete, Loop
  <2>3. msg'.method = last'.method
    BY <2>1 DEF Asked
  <2>4. RepliesMatch' /\ NoStrayReplies'
    <3>1. CASE OtherRequest
      <4>1. DOMAIN Statuses("ACK") = {}
        BY DEF Statuses
      <4>2. Send(msg', Statuses(msg'.method)) /\
            (DOMAIN Statuses(msg'.method) = {} \/ last'.method # "ACK")
        BY <2>3, <3>1, <4>1 DEF OtherRequest
      <4>3. QED
        BY <2>1, <4>2, SendAnswers
    <3>2. CASE InviteIncomplete
      <4>1. Send(msg', <<400>>) /\ last'.method # "ACK"
        BY <2>3, <3>2 DEF InviteIncomplete
      <4>2. QED
        BY <2>1, <4>1, SendAnswers
    <3>3. QED
      BY <1>6, <3>1, <3>2
  <2>5. QED
    BY <1>2, <1>3, <2>1, <2>2, <2>4 DEF SipInv, NoneStranded
<1>7. QED
  BY <1>4, <1>5, <1>6

(* Every step keeps the invariant.                                          *)
LEMMA NextSipInv == SipInv /\ [Next]_vars => SipInv'
<1> SUFFICES ASSUME SipInv, [Next]_vars PROVE SipInv'
  OBVIOUS
<1> USE DEF SipInv, NoneStranded
<1>1. ASSUME UNCHANGED <<last, replies>> PROVE RepliesMatch' /\ NoStrayReplies'
  BY <1>1 DEF RepliesMatch, NoStrayReplies, Says
<1>2. ASSUME UNCHANGED logVars PROVE Ring'
  BY <1>2 DEF logVars, Ring, Latest, Places
<1>3. ASSUME NEW d \in Datagrams, Arrive(d) PROVE SipInv'
  <2>1. buffer' \in Seq(Datagrams) /\ Len(buffer') <= MaxBuffer
    BY <1>3, BufferAssumption DEF Arrive
  <2>2. QED
    BY <1>1, <1>2, <1>3, <2>1 DEF Arrive
<1>4. CASE EpollWait \/ Drained \/ ReceiveFails
  BY <1>1, <1>2, <1>4 DEF EpollWait, Drained, ReceiveFails, sockVars
<1>5. CASE RouteLogs
  <2>1. Ring'
    BY <1>5, LogCallRing DEF RouteLogs
  <2>2. QED
    BY <1>1, <1>5, <2>1 DEF RouteLogs, sockVars
<1>6. CASE RouteReturns
  <2>1. Asked(msg, last) /\ last' = last /\ last.method # "ACK"
    BY <1>6 DEF RouteReturns
  <2>2. RepliesMatch' /\ NoStrayReplies'
    <3>1. ASSUME NEW code \in RouteCodes, Send(msg, <<100, Outcome(code)>>)
          PROVE  RepliesMatch' /\ NoStrayReplies'
      BY <2>1, <3>1, SendAnswers
    <3>2. ASSUME Send(msg, <<Failure>>) PROVE RepliesMatch' /\ NoStrayReplies'
      BY <2>1, <3>2, SendAnswers
    <3>3. QED
      BY <1>6, <3>1, <3>2 DEF RouteReturns
  <2>3. QED
    BY <1>2, <1>6, <2>2 DEF RouteReturns, sockVars, Loop
<1>7. CASE UNCHANGED vars
  BY <1>1, <1>2, <1>7 DEF vars, sockVars
<1>8. QED
  BY <1>3, <1>4, <1>5, <1>6, <1>7, HandleSipInv DEF Next, Handle, Overflow

(* The invariant holds in every state of the server.                        *)
THEOREM SipInvariance == Spec => []SipInv
  BY InitSipInv, NextSipInv, PTL DEF Spec

(* The bounds of the buffer and of the ring's index.                        *)
THEOREM SipTypes == Spec => []TypeOK
<1>1. SipInv => TypeOK
  BY DEF SipInv, Ring, TypeOK
<1>2. QED
  BY <1>1, SipInvariance, PTL

(* sip_generate_response: no response repeats a header of an earlier        *)
(* datagram or goes to its sender, whatever arrives in whatever order.      *)
THEOREM RepliesCorrect == Spec => []RepliesMatch
<1>1. SipInv => RepliesMatch
  BY DEF SipInv
<1>2. QED
  BY <1>1, SipInvariance, PTL

(* sip_dispatch: nothing but a complete request is ever answered.           *)
THEOREM StrayUnanswered == Spec => []NoStrayReplies
<1>1. SipInv => NoStrayReplies
  BY DEF SipInv
<1>2. QED
  BY <1>1, SipInvariance, PTL

(* The edge-triggered socket: whatever is left in the buffer is reported,   *)
(* unless recvfrom failed.                                                  *)
THEOREM BufferReported == Spec => []NoneStranded
<1>1. SipInv => NoneStranded
  BY DEF SipInv
<1>2. QED
  BY <1>1, SipInvariance, PTL

(* log_call: the ring holds the latest CALL_LOG_MAX entries, for every size *)
(* of the ring and however often it wrapped.                                *)
THEOREM RingCorrect == Spec => []RingHoldsLatest
<1>1. SipInv => RingHoldsLatest
  BY RingHolds DEF SipInv
<1>2. QED
  BY <1>1, SipInvariance, PTL

-----------------------------------------------------------------------------
(* sip_extract_uri_user.  A token has one first place.                      *)
LEMMA FirstOne ==
  ASSUME NEW text, NEW token, NEW from \in Nat, NEW p \in from..Len(text),
         Len(text) \in Nat, text[p] = token, \A j \in from..(p - 1) : text[j] # token
  PROVE  FirstOf(text, token, from) = {p}
BY DEF FirstOf

(* ... and is where it is looked for.                                       *)
LEMMA FirstThere ==
  ASSUME NEW text, NEW token, NEW from \in Nat, Len(text) \in Nat,
         NEW p \in FirstOf(text, token, from)
  PROVE  /\ p \in from..Len(text) /\ text[p] = token
         /\ FirstOf(text, token, from) = {p}
<1>1. p \in from..Len(text) /\ text[p] = token /\ \A j \in from..(p - 1) : text[j] # token
  BY DEF FirstOf
<1>2. QED
  BY <1>1, FirstOne

(* A scheme has one first place, too.                                       *)
LEMMA SchemeOne ==
  ASSUME NEW text, NEW scheme, NEW p \in 2..Len(text), Len(text) \in Nat,
         IsScheme(text, scheme, p), \A j \in 2..(p - 1) : ~IsScheme(text, scheme, j)
  PROVE  SchemeColon(text, scheme) = {p}
BY DEF SchemeColon

(* The greatest of one number.                                              *)
LEMMA MaxOfOne ==
  ASSUME NEW n \in Int
  PROVE  Max({n}) = n
BY DEF Max

(* The address is the rest of the value from its start on.                  *)
LEMMA AddressPlace ==
  ASSUME NEW text \in Seq(STRING)
  PROVE  /\ AddressStart(text) \in 1..(Len(text) + 1)
         /\ Len(Address(text)) = Len(text) + 1 - AddressStart(text)
         /\ \A k \in 1..Len(Address(text)) : Address(text)[k] = text[AddressStart(text) + k - 1]
<1> DEFINE open == FirstOf(text, "<", 1)
           start == AddressStart(text)
<1>1. Len(text) \in Nat
  OBVIOUS
<1>2. start \in 1..(Len(text) + 1)
  <2>1. CASE open = {}
    BY <1>1, <2>1 DEF AddressStart
  <2>2. CASE open # {}
    <3>1. PICK p \in open : TRUE
      BY <2>2
    <3>2. open = {p} /\ p \in 1..Len(text)
      BY <1>1, <3>1, FirstThere
    <3>3. start = p + 1
      BY <2>2, <3>2, MaxOfOne DEF AddressStart
    <3>4. QED
      BY <1>1, <3>2, <3>3
  <2>3. QED
    BY <2>1, <2>2
<1> HIDE DEF start
<1>3. Address(text) = SubSeq(text, start, Len(text))
  BY DEF Address, start
<1>4. QED
  BY <1>1, <1>2, <1>3 DEF start

(* The parser starts behind the scheme of the address.                      *)
LEMMA StartFound ==
  ASSUME NEW text \in Seq(STRING), HasUser(text)
  PROVE  /\ UserStart(text) = AddressStart(text) + 2
         /\ AddressStart(text) + 3 <= Len(text)
<1> DEFINE n == Len(text)
<1>1. PICK s : s = AddressStart(text)
  OBVIOUS
<1>2. /\ n \in Nat /\ s \in 1..(n + 1) /\ s + 3 <= n
      /\ Address(text)[1] = text[s] /\ Address(text)[2] = text[s + 1]
  <2>1. /\ s \in 1..(n + 1) /\ Len(Address(text)) = n + 1 - s /\ n \in Nat
        /\ \A k \in 1..Len(Address(text)) : Address(text)[k] = text[s + k - 1]
    BY <1>1, AddressPlace
  <2>2. Len(Address(text)) >= 4
    BY <2>1 DEF HasUser, NamedUser
  <2> HIDE DEF n
  <2>3. 1 \in 1..Len(Address(text)) /\ 2 \in 1..Len(Address(text))
    BY <2>1, <2>2
  <2>4. Address(text)[1] = text[s + 1 - 1] /\ Address(text)[2] = text[s + 2 - 1]
    BY <2>1, <2>3
  <2>5. QED
    BY <2>1, <2>2, <2>4
<1>3. /\ text[s] \in {"sip", "SIP"} /\ text[s + 1] = ":"
      /\ \A i \in 2..s : ~IsScheme(text, "sip", i) /\ ~IsScheme(text, "SIP", i)
      /\ text[s] = "SIP" => \A i \in 2..n : ~IsScheme(text, "sip", i)
  BY <1>1, <1>2 DEF HasUser, OnlyScheme
<1>4. ASSUME NEW scheme \in {"sip", "SIP"}, text[s] = scheme
      PROVE  SchemeColon(text, scheme) = {s + 1}
  <2>1. PICK p \in 2..n : p = s + 1 /\ p - 1 = s
    BY <1>2
  <2>2. IsScheme(text, scheme, p) /\ \A j \in 2..(p - 1) : ~IsScheme(text, scheme, j)
    BY <1>3, <1>4, <2>1 DEF IsScheme
  <2>3. SchemeColon(text, scheme) = {p}
    BY <1>2, <2>2, SchemeOne, Zenon
  <2>4. QED
    BY <2>1, <2>3
<1>5. Max({s + 1}) + 1 = s + 2
  BY <1>2, MaxOfOne
<1>6. UserStart(text) = s + 2
  <2>1. CASE text[s] = "sip"
    BY <1>4, <1>5, <2>1 DEF UserStart
  <2>2. CASE text[s] = "SIP"
    <3>1. SchemeColon(text, "sip") = {}
      BY <1>3, <2>2 DEF SchemeColon
    <3>2. SchemeColon(text, "SIP") = {s + 1}
      BY <1>4, <2>2
    <3>3. QED
      BY <1>5, <3>1, <3>2 DEF UserStart
  <2>3. QED
    BY <1>3, <2>1, <2>2
<1>7. QED
  BY <1>1, <1>2, <1>6

(* The user of an address is found, whatever stands around it.              *)
LEMMA UserFound ==
  ASSUME NEW text \in Seq(STRING), HasUser(text)
  PROVE  UriUser(text) \in NamedUser(text) /\ UriUser(text) # <<>>
<1> DEFINE s == AddressStart(text)
           n == Len(text)
           a == Address(text)
<1>1. /\ s \in 1..(n + 1) /\ n \in Nat /\ Len(a) = n + 1 - s /\ a \in Seq(STRING)
      /\ \A k \in 1..Len(a) : a[k] = text[s + k - 1]
  BY AddressPlace DEF Address
<1>2. PICK e \in 4..Len(a) : a[e] = "@" /\ \A j \in 3..(e - 1) : a[j] \notin {"@", ">"}
  BY DEF HasUser, NamedUser
<1>3. SubSeq(a, 3, e - 1) \in NamedUser(text)
  BY <1>2 DEF NamedUser
<1>4. UserStart(text) = s + 2
  BY StartFound
<1> HIDE DEF s, n, a
<1>5. Ends(text, "@") = {s + e - 1}
  <2>1. s + e - 1 \in (s + 2)..n /\ text[s + e - 1] = "@" /\ s + 2 \in Nat
    BY <1>1, <1>2
  <2>2. ASSUME NEW j \in (s + 2)..(s + e - 1 - 1) PROVE text[j] # "@"
    <3>1. j - s + 1 \in 3..(e - 1) /\ j - s + 1 \in 1..Len(a) /\ s + (j - s + 1) - 1 = j
      BY <1>1, <1>2, <2>2
    <3>2. a[j - s + 1] = text[j]
      BY <1>1, <3>1
    <3>3. QED
      BY <1>2, <3>1, <3>2
  <2>3. FirstOf(text, "@", s + 2) = {s + e - 1}
    BY <1>1, <2>1, <2>2, FirstOne DEF n
  <2>4. QED
    BY <1>4, <2>3 DEF Ends
<1>6. UriUser(text) = SubSeq(text, s + 2, s + e - 2)
  <2>1. Max({s + e - 1}) = s + e - 1
    BY <1>1, <1>2, MaxOfOne
  <2>2. Ends(text, "@") # {}
    BY <1>5
  <2>3. UriUser(text) = SubSeq(text, UserStart(text), Max(Ends(text, "@")) - 1)
    BY <2>2, Zenon DEF UriUser
  <2>4. Max(Ends(text, "@")) - 1 = s + e - 2
    <3>1. Max(Ends(text, "@")) = s + e - 1
      BY <1>5, <2>1, Zenon
    <3>2. QED
      BY <1>1, <1>2, <3>1
  <2>5. QED
    BY <1>4, <2>3, <2>4, Zenon
<1> DEFINE u == SubSeq(text, s + 2, s + e - 2)
           v == SubSeq(a, 3, e - 1)
<1>7. u = v /\ u # <<>>
  <2>1. u \in Seq(STRING) /\ Len(u) = e - 3 /\ \A k \in 1..(e - 3) : u[k] = text[s + 2 + k - 1]
    BY <1>1, <1>2 DEF n
  <2>2. v \in Seq(STRING) /\ Len(v) = e - 3 /\ \A k \in 1..(e - 3) : v[k] = a[3 + k - 1]
    BY <1>1, <1>2
  <2> HIDE DEF u, v
  <2>3. ASSUME NEW k \in 1..(e - 3) PROVE u[k] = v[k]
    <3>1. 3 + k - 1 \in 1..Len(a) /\ s + (3 + k - 1) - 1 = s + 2 + k - 1
      BY <1>1, <1>2
    <3>2. a[3 + k - 1] = text[s + 2 + k - 1]
      BY <1>1, <3>1
    <3>3. QED
      BY <2>1, <2>2, <3>2
  <2>4. QED
    BY <1>2, <2>1, <2>2, <2>3
<1>8. QED
  BY <1>3, <1>6, <1>7 DEF a

(* What sip_parse_message leaves in the message, and that only an INVITE    *)
(* without a user is refused with 400.                                      *)
Heads == \A name \in Kept : msg.head[name] \in Seq(STRING)
Refused == (\E i \in DOMAIN replies : replies[i].status = 400) => Incomplete(msg)
UserInv == Heads /\ Refused

(* The header values of a message that was just parsed.                     *)
LEMMA ReceivedHeads ==
  ASSUME SipInv, Receive
  PROVE  Heads'
<1> DEFINE d == Head(buffer)
<1>1. d \in Datagrams
  BY DEF SipInv, Receive
<1>2. DatagramType(d)
  BY <1>1, DatagramsAssumption
<1>3. <<>> \in Seq(STRING)
  OBVIOUS
<1>4. CASE d.method = "broken"
  <2>1. msg' = Empty(msg.peer)
    BY <1>4 DEF Receive, Cleared
  <2>2. QED
    BY <1>3, <2>1 DEF Heads, Empty
<1>5. CASE d.method # "broken"
  <2>1. msg' = ParsedInto(Empty(msg.peer), d)
    BY <1>5 DEF Receive, Cleared
  <2>2. ASSUME NEW name \in Kept, Found(d, name) # {}
        PROVE  d.lines[Max(Found(d, name))].text \in Seq(STRING)
    <3>1. Found(d, name) \subseteq 1..Len(d.lines) /\ Len(d.lines) \in Nat
      BY <1>2 DEF Found, DatagramType
    <3>2. Max(Found(d, name)) \in 1..Len(d.lines)
      BY <2>2, <3>1, MaxInSet
    <3>3. QED
      BY <1>2, <3>2 DEF DatagramType
  <2>3. ASSUME NEW name \in Kept
        PROVE  msg'.head[name] = IF Found(d, name) = {} THEN <<>> ELSE d.lines[Max(Found(d, name))].text
    BY <2>1 DEF ParsedInto, Empty
  <2>4. QED
    BY <1>3, <2>2, <2>3 DEF Heads
<1>6. QED
  BY <1>4, <1>5

(* Each response carries one of the statuses it is sent with.               *)
LEMMA SentStatus ==
  ASSUME NEW m, NEW statuses, Send(m, statuses), NEW i \in DOMAIN replies'
  PROVE  i \in DOMAIN statuses /\ replies'[i].status = statuses[i]
BY DEF Send, Response

(* Every step keeps them.                                                   *)
LEMMA NextUserInv ==
  ASSUME SipInv, UserInv, [Next]_vars
  PROVE  UserInv'
<1>1. CASE UNCHANGED <<msg, replies>>
  BY <1>1 DEF UserInv, Heads, Refused, Incomplete
<1>2. CASE Discarded \/ InviteRouted
  <2>1. Heads'
    BY <1>2, ReceivedHeads DEF Discarded, InviteRouted, Request
  <2>2. DOMAIN replies' = {}
    BY <1>2 DEF Discarded, InviteRouted
  <2>3. QED
    BY <2>1, <2>2 DEF UserInv, Refused
<1>3. CASE OtherRequest
  <2>1. Heads'
    BY <1>3, ReceivedHeads DEF OtherRequest, Request
  <2>2. \A i \in DOMAIN Statuses(msg'.method) : Statuses(msg'.method)[i] # 400
    BY DEF Statuses
  <2>3. \A i \in DOMAIN replies' : replies'[i].status # 400
    BY <1>3, <2>2, SentStatus DEF OtherRequest
  <2>4. QED
    BY <2>1, <2>3 DEF UserInv, Refused
<1>4. CASE InviteIncomplete
  BY <1>4, ReceivedHeads DEF InviteIncomplete, Request, UserInv, Refused
<1>5. CASE RouteReturns
  <2>1. msg' = msg
    BY <1>5 DEF RouteReturns
  <2>2. \A i \in DOMAIN replies' : replies'[i].status # 400
    <3>1. ASSUME NEW code, Send(msg, <<100, Outcome(code)>>), NEW i \in DOMAIN replies'
          PROVE  replies'[i].status # 400
      <4>1. Outcome(code) # 400
        BY DEF Outcome, Ringing, Failure
      <4>2. i \in 1..2 /\ replies'[i].status = <<100, Outcome(code)>>[i]
        BY <3>1, SentStatus
      <4>3. QED
        BY <4>1, <4>2
    <3>2. ASSUME Send(msg, <<Failure>>), NEW i \in DOMAIN replies'
          PROVE  replies'[i].status # 400
      BY <3>2, SentStatus DEF Failure
    <3>3. QED
      BY <1>5, <3>1, <3>2 DEF RouteReturns
  <2>3. QED
    BY <2>1, <2>2 DEF UserInv, Heads, Refused
<1>6. QED
  BY <1>1, <1>2, <1>3, <1>4, <1>5
  DEF Next, Handle, Arrive, Overflow, EpollWait, RouteLogs, ReceiveFails, Drained, vars

(* sip_extract_uri_user: of an INVITE that names users the script is asked  *)
(* about these users, and it is not refused, for any display names,         *)
(* passwords, parameters and order of the headers.                          *)
THEOREM UsersAsked == Spec => []AskedForThem
<1>1. Init => UserInv
  <2>1. <<>> \in Seq(STRING)
    OBVIOUS
  <2>2. QED
    BY <2>1 DEF Init, UserInv, Heads, Refused, Empty
<1>2. UserInv => AskedForThem
  <2> SUFFICES ASSUME UserInv, \A name \in {"From", "To"} : HasUser(msg.head[name])
               PROVE  /\ \A name \in {"From", "To"} : UriUser(msg.head[name]) \in NamedUser(msg.head[name])
                      /\ ~\E i \in DOMAIN replies : replies[i].status = 400
    BY DEF AskedForThem
  <2>1. \A name \in {"From", "To"} : UriUser(msg.head[name]) \in NamedUser(msg.head[name])
                                      /\ UriUser(msg.head[name]) # <<>>
    BY UserFound DEF UserInv, Heads, Kept
  <2>2. ~Incomplete(msg)
    BY <2>1 DEF Incomplete
  <2>3. QED
    BY <2>1, <2>2 DEF UserInv, Refused
<1>3. SipInv /\ UserInv /\ [Next]_vars => UserInv'
  BY NextUserInv
<1>4. QED
  BY <1>1, <1>2, <1>3, SipInvariance, PTL DEF Spec

=============================================================================
