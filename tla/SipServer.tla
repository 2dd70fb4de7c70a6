----------------------------- MODULE SipServer -----------------------------
(* sip_handler_on_read as the event loop runs it: datagrams arrive in the   *)
(* receive buffer of the SIP socket; epoll reports an arrival once (the     *)
(* socket is registered edge-triggered); the callback takes one datagram    *)
(* after the other, parses, validates and dispatches it and sends the       *)
(* responses, until the buffer is empty or recvfrom fails.  The routing     *)
(* script writes its call log meanwhile; its answer is left open (Routing,  *)
(* SipCalls).                                                               *)
(*                                                                          *)
(* A datagram is a start line and header lines, a header value a sequence   *)
(* of tokens: the separators the parser looks for, and the words between    *)
(* them.  The message body, which nothing reads, and the truncation of      *)
(* values to their buffers are left out; no response outgrows its buffer.   *)
(* UDP loses, repeats and reorders: any datagram may arrive at any moment.  *)
EXTENDS CallLog, FiniteSetsExt, SipStatus

CONSTANTS
  Datagrams,   \* what may arrive, see DatagramType
  MaxBuffer,   \* the datagrams the receive buffer holds; the kernel drops others
  MaxLogged    \* bound of the entries written to the call log

Methods == {"INVITE", "ACK", "BYE", "CANCEL", "OPTIONS", "REFER", "REGISTER", "INFO"}
Kept == {"Via", "From", "To", "Call-ID", "CSeq"}  \* the headers a response repeats
RouteCodes == {"SUCCESS", "DEPT_FULL", "INVALID_DIGITS", "VOICEMAIL"}

DatagramType(d) ==
  /\ d.method \in Methods \cup {"UNKNOWN", "broken"}
  /\ d.code \in Nat /\ (d.code > 0 => d.method = "UNKNOWN")
  /\ Len(d.lines) \in Nat /\ DOMAIN d.lines = 1..Len(d.lines)
  /\ \A i \in DOMAIN d.lines : d.lines[i].text \in Seq(STRING)
  /\ d.cut \in BOOLEAN /\ (d.cut => d.lines # <<>>)

ASSUME DatagramsAssumption == \A d \in Datagrams : DatagramType(d)
ASSUME BufferAssumption == MaxBuffer \in Nat \ {0} /\ MaxLogged \in Nat

VARIABLES
  buffer,    \* the socket's receive buffer
  pending,   \* epoll_wait will report the socket
  pc,        \* "wait" (epoll_wait), "read" (the loop of on_read), "route" (in route_call)
  msg,       \* the sip_message_t of sip_handler_on_read
  failed,    \* the last call of on_read ended with an error of recvfrom
  last,      \* history: the datagram taken last
  replies    \* history: replies[k] is the k-th response to it, if it was sent

sockVars == <<buffer, pending, failed>>
vars == <<sockVars, pc, msg, last, replies, logVars>>

-----------------------------------------------------------------------------
(* sip_parse_message.  The start line is "broken" (no CRLF, too short, no   *)
(* space), a request with its method, "UNKNOWN" included, or a response     *)
(* with its code; atoi makes 0 of a code that is no number.                 *)

Empty(peer) ==
  [peer |-> peer, method |-> "UNKNOWN", code |-> 0, head |-> [name \in Kept |-> <<>>]]

\* memset of the message before the first line is read.
NotCleared(m) == m  \* faulty
Cleared(m) == Empty(m.peer)

\* The last line counts only if it ends in CRLF; of two headers with one name the
\* later stays.
Found(d, name) ==
  {i \in DOMAIN d.lines : d.lines[i].name = name /\ (d.cut => i # Len(d.lines))}

ParsedInto(m, d) ==
  [peer |-> d.peer, method |-> d.method, code |-> d.code,
   head |-> [name \in Kept |->
               IF Found(d, name) = {} THEN m.head[name] ELSE d.lines[Max(Found(d, name))].text]]

\* sip_validate_message; a response passes as it is.
Complete(m) == \A name \in Kept \ {"Via"} : m.head[name] # <<>>
HeadersUnchecked(m) == m.code > 0 \/ m.method # "UNKNOWN"  \* faulty
Valid(m) == m.code > 0 \/ (m.method # "UNKNOWN" /\ Complete(m))

\* sip_extract_uri_user: what lies between the scheme and the first '@', or the
\* first ':', or the first ';'; a closing '>' stays when none of them comes before it.
\* The scheme is a word and the ':' behind it, "sip" before "SIP" wherever they stand;
\* without either the user starts behind the first ':'.
FirstOf(text, token, from) == {i \in from..Len(text) : text[i] = token /\ \A j \in from..(i - 1) : text[j] # token}

IsScheme(text, scheme, i) == text[i - 1] = scheme /\ text[i] = ":"

\* The place of the ':' of the first scheme.
SchemeColon(text, scheme) ==
  {i \in 2..Len(text) : IsScheme(text, scheme, i) /\ \A j \in 2..(i - 1) : ~IsScheme(text, scheme, j)}

UserStart(text) ==
  IF SchemeColon(text, "sip") # {} THEN Max(SchemeColon(text, "sip")) + 1
  ELSE IF SchemeColon(text, "SIP") # {} THEN Max(SchemeColon(text, "SIP")) + 1
  ELSE IF FirstOf(text, ":", 1) # {} THEN Max(FirstOf(text, ":", 1)) + 1 ELSE 1

EndAnywhere(text, token) == FirstOf(text, token, 1)  \* faulty: before the scheme too
Ends(text, token) == FirstOf(text, token, UserStart(text))

UriUser(text) ==
  LET end == IF Ends(text, "@") # {} THEN Max(Ends(text, "@"))
             ELSE IF Ends(text, ":") # {} THEN Max(Ends(text, ":"))
             ELSE IF Ends(text, ";") # {} THEN Max(Ends(text, ";"))
             ELSE Len(text) + 1
  IN  SubSeq(text, UserStart(text), end - 1)

-----------------------------------------------------------------------------
(* sip_send_response: the headers of the request, with defaults for missing *)
(* ones; what sendto refuses is lost.                                       *)

Response(m, status) ==
  [peer |-> m.peer, status |-> status,
   head |-> [name \in Kept |-> IF m.head[name] = <<>> THEN <<"unknown">> ELSE m.head[name]]]

Send(m, statuses) ==
  \E sent \in SUBSET DOMAIN statuses : replies' = [k \in sent |-> Response(m, statuses[k])]

-----------------------------------------------------------------------------
Nothing == [peer |-> "nobody", method |-> "broken", code |-> 0, lines |-> <<>>, cut |-> FALSE]

Init ==
  /\ buffer = <<>> /\ pending = FALSE /\ failed = FALSE
  /\ pc = "wait"
  /\ msg = Empty("nobody") /\ last = Nothing /\ replies = <<>>
  /\ LogInit

Arrive(d) ==
  /\ Len(buffer) < MaxBuffer
  /\ buffer' = Append(buffer, d)
  /\ pending' = TRUE
  /\ UNCHANGED <<failed, pc, msg, last, replies, logVars>>

\* A datagram that finds the buffer full is dropped and wakes nobody: after an error
\* of recvfrom with a full buffer, the server hears nothing any more.
Overflow == Len(buffer) = MaxBuffer /\ UNCHANGED vars

EpollWait ==
  /\ pc = "wait" /\ pending
  /\ pc' = "read"
  /\ pending' = FALSE /\ failed' = FALSE
  /\ UNCHANGED <<buffer, msg, last, replies, logVars>>

OncePerEvent == "wait"  \* faulty: one datagram per event
Loop == "read"

\* recvfrom and sip_parse_message.
Receive ==
  /\ pc = "read" /\ buffer # <<>>
  /\ buffer' = Tail(buffer)
  /\ last' = Head(buffer)
  /\ msg' = IF Head(buffer).method = "broken" THEN Cleared(msg)
            ELSE ParsedInto(Cleared(msg), Head(buffer))
  /\ UNCHANGED <<pending, failed, logVars>>

IsResponse(m) == m.code > 0
Incomplete(m) == UriUser(m.head["From"]) = <<>> \/ UriUser(m.head["To"]) = <<>>

\* Malformed, incomplete, or a response.
Discarded ==
  /\ Receive
  /\ ~Valid(msg') \/ IsResponse(msg')
  /\ replies' = <<>>
  /\ pc' = Loop

Request == Receive /\ Valid(msg') /\ ~IsResponse(msg')

OtherRequest ==
  /\ Request /\ msg'.method # "INVITE"
  /\ Send(msg', Statuses(msg'.method))
  /\ pc' = Loop

InviteIncomplete ==
  /\ Request /\ msg'.method = "INVITE" /\ Incomplete(msg')
  /\ Send(msg', <<400>>)
  /\ pc' = Loop

InviteRouted ==
  /\ Request /\ msg'.method = "INVITE" /\ ~Incomplete(msg')
  /\ replies' = <<>>
  /\ pc' = "route"

RouteLogs ==
  /\ pc = "route" /\ logged < MaxLogged
  /\ LogCall
  /\ UNCHANGED <<sockVars, pc, msg, last, replies>>

\* lua_vm_call_route returns a code, or fails.
RouteReturns ==
  /\ pc = "route"
  /\ \/ \E code \in RouteCodes : Send(msg, <<100, Outcome(code)>>)
     \/ Send(msg, <<Failure>>)
  /\ pc' = Loop
  /\ UNCHANGED <<sockVars, msg, last, logVars>>

\* EAGAIN
Drained ==
  /\ pc = "read" /\ buffer = <<>>
  /\ pc' = "wait"
  /\ UNCHANGED <<sockVars, msg, last, replies, logVars>>

\* Any other error ends the loop, whatever the buffer holds.
ReceiveFails ==
  /\ pc = "read"
  /\ pc' = "wait"
  /\ failed' = TRUE
  /\ UNCHANGED <<buffer, pending, msg, last, replies, logVars>>

Handle ==
  \/ Discarded \/ OtherRequest \/ InviteIncomplete \/ InviteRouted
  \/ RouteReturns \/ Drained

Next ==
  \/ \E d \in Datagrams : Arrive(d)
  \/ Overflow
  \/ EpollWait \/ Handle \/ RouteLogs \/ ReceiveFails

Spec == Init /\ [][Next]_vars

(* The loop calls epoll_wait again and the callback goes on; the script     *)
(* returns.  Nothing is assumed of the network or of errors.                *)
FairSpec == Spec /\ WF_vars(EpollWait) /\ WF_vars(Handle)

-----------------------------------------------------------------------------
TypeOK ==
  /\ \A i \in DOMAIN buffer : buffer[i] \in Datagrams
  /\ Len(buffer) <= MaxBuffer
  /\ pending \in BOOLEAN /\ failed \in BOOLEAN
  /\ pc \in {"wait", "read", "route"}
  /\ last \in Datagrams \cup {Nothing}
  /\ DOMAIN msg.head = Kept
  /\ callLogIndex \in 0..CallLogMax /\ callLog \in [Places -> 0..MaxLogged]

\* What the header of a datagram says: its last complete line of that name.
Says(d, name, text) ==
  \E i \in DOMAIN d.lines :
    /\ d.lines[i].name = name /\ d.lines[i].text = text
    /\ d.cut => i < Len(d.lines)
    /\ \A j \in DOMAIN d.lines : j > i /\ d.lines[j].name = name => d.cut /\ j = Len(d.lines)

\* sip_generate_response: a response goes to the peer whose request was taken last
\* and repeats that request's own headers, never those of an earlier datagram, though
\* sip_handler_on_read parses them all into one variable.
RepliesMatch ==
  \A i \in DOMAIN replies :
    /\ replies[i].peer = last.peer
    /\ \A name \in Kept : replies[i].head[name] # <<"unknown">> =>
         Says(last, name, replies[i].head[name])

\* sip_dispatch: neither a response nor an ACK nor a datagram that lacks a needed
\* header is ever answered, so that two servers cannot keep answering each other.
NoStrayReplies ==
  DOMAIN replies # {} => /\ last.code = 0 /\ last.method \in Methods \ {"ACK"}
                         /\ \A name \in Kept \ {"Via"} : \E i \in DOMAIN last.lines :
                              last.lines[i].name = name /\ last.lines[i].text # <<>>

\* The address of a header value: what its '<' opens, or all of it.
AddressStart(text) ==
  LET open == FirstOf(text, "<", 1) IN IF open = {} THEN 1 ELSE Max(open) + 1

Address(text) == SubSeq(text, AddressStart(text), Len(text))

\* The scheme of the address is the one the parser takes: none comes before it, and
\* if it is in capitals none in lower case comes anywhere.
OnlyScheme(text, scheme) ==
  /\ \A i \in 2..AddressStart(text) : ~IsScheme(text, "sip", i) /\ ~IsScheme(text, "SIP", i)
  /\ scheme = "SIP" => \A i \in 2..Len(text) : ~IsScheme(text, "sip", i)

\* The user of <scheme:user@...>, a password or parameters of the user included.
NamedUser(text) ==
  {SubSeq(Address(text), 3, end - 1) : end \in
     {i \in 4..Len(Address(text)) : Address(text)[i] = "@"
                                     /\ \A j \in 3..(i - 1) : Address(text)[j] \notin {"@", ">"}}}

HasUser(text) ==
  /\ NamedUser(text) # {}
  /\ Address(text)[1] \in {"sip", "SIP"} /\ Address(text)[2] = ":"
  /\ OnlyScheme(text, Address(text)[1])

\* sip_extract_uri_user: of an INVITE whose From and To name users the script is asked
\* about these users, and it is not refused as incomplete, whatever display names and
\* parameters stand around them, with or without a '@', ':' or ';' of their own.
AskedForThem ==
  LET Users == \A name \in {"From", "To"} : HasUser(msg.head[name])
  IN  /\ pc = "route" /\ Users =>
           \A name \in {"From", "To"} : UriUser(msg.head[name]) \in NamedUser(msg.head[name])
      /\ (\E i \in DOMAIN replies : replies[i].status = 400) => ~Users

\* The socket reports each arrival once: no datagram is left in the buffer with no
\* report to come, unless recvfrom failed before it.
NoneStranded == pc = "wait" /\ buffer # <<>> => pending \/ failed

-----------------------------------------------------------------------------
(* Statements that the code does not satisfy: TLC refutes each; no run is   *)
(* kept for them.                                                           *)

\* The callback returns to the loop, which has other sockets, idle connections and
\* el_stop to look at: sip_handler_on_read goes on as long as datagrams arrive.
CallbackReturns == pc = "read" ~> pc = "wait"

\* The user asked for is part of the address: of an address without '@' it is not,
\* the '>' and what follows up to the next separator belong to it.
BareUsersFound ==
  pc = "route" => \A name \in {"From", "To"} :
                    \A i \in DOMAIN UriUser(msg.head[name]) : UriUser(msg.head[name])[i] # ">"
=============================================================================
