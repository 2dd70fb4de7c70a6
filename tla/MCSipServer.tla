---------------------------- MODULE MCSipServer ----------------------------
(* Requests and responses of two peers, well-formed and damaged ones.       *)
EXTENDS SipServer

Line(name, text) == [name |-> name, text |-> text]
Message(peer, method, lines) ==
  [peer |-> peer, method |-> method, code |-> 0, lines |-> lines, cut |-> FALSE]

Plain(user) == <<"sip", ":", user, "@", "h">>
Named(user) == <<"a", "@", "b", "<", "sip", ":", user, "@", "h", ":", "5060", ">", ";", "tag">>
WithPassword(user) == <<"a", ":", "<", "SIP", ":", user, ":", "word", ";", "ext", "@", "h", ">">>
WithHeader(user) == <<"<", "sip", ":", user, "@", "h", ">", ";", "by", "sip", ":", "x", "@", "h">>
Bare(user) == <<"<", "sip", ":", user, ">", ";", "tag">>
Head4(id, from, to) ==
  <<Line("Via", <<id>>), Line("From", from), Line("To", to), Line("Call-ID", <<id>>),
    Line("CSeq", <<id>>)>>

Invite1 == Message("p", "INVITE", Head4("c1", Named("1001"), Plain("2001")))
Invite2 == Message("q", "INVITE",
  Head4("c2", Plain("9"), WithHeader("1")) \o <<Line("From", WithPassword("1002"))>>)
NoUser == Message("q", "INVITE", Head4("c3", <<"sip", ":", "@", "h">>, Plain("2001")))
NoAt == Message("p", "INVITE", Head4("c5", Bare("1001"), Plain("2001")))
Bye == Message("p", "BYE", Tail(Head4("c1", Named("1001"), Plain("2001"))))
Ack == Message("p", "ACK", Head4("c1", Named("1001"), Plain("2001")))

Strange == Message("q", "UNKNOWN", Head4("c2", Plain("9"), Plain("1")))
NoCallId == Message("q", "BYE", <<Line("From", Plain("9")), Line("To", Plain("1")), Line("CSeq", <<"c4">>)>>)
CutOff == [Bye EXCEPT !.cut = TRUE]
Garbage == Message("q", "broken", <<>>)
Ok == [Message("q", "UNKNOWN", Head4("c2", Plain("9"), Plain("1"))) EXCEPT !.code = 200]

MCDatagrams == {Invite1, Invite2, NoUser, NoAt, Bye, Ack, Strange, NoCallId, CutOff, Garbage, Ok}
=============================================================================
