------------------------------ MODULE SipCalls ------------------------------
(* What a caller hears over SIP of the routing script's answers: every      *)
(* INVITE whose From and To hold numbers is one call of route_call          *)
(* (SipServer says which those are), and its final status is the Outcome of *)
(* the script's code.  The handler keeps no dialog or transaction, so that  *)
(* an INVITE that is repeated is routed again like a new one: Routing's     *)
(* Next allows every call at any moment.                                    *)
EXTENDS Routing, SipStatus

Status == Outcome(answer'.code)

\* By day an external caller is refused (486, 480, 404 or 500) only for a key whose
\* department is offline, or when no agent of that department, of the common desk or of
\* a department on the overflow list is idle: the script finds whoever is free, and
\* sip_handle_invite knows every code it uses.
RefusalJustified ==
  [][open /\ Outside /\ Answered /\ Status >= 400 =>
       LET wanted == answer'.digits.of
       IN  /\ answer'.digits.kind = "key"
           /\ \/ Online(wanted) = {}
              \/ \A d \in {wanted, Support} \cup Range(config.overflow_priority) : IdleOf(d) = {}]_vars

-----------------------------------------------------------------------------
(* A statement of the docs that the code does not satisfy: TLC refutes it;  *)
(* no run is kept for it.                                                   *)

\* Whom the script transfers is put through: an answer that names an agent or
\* the common desk is followed by ringing, at night (README, "transfer to the duty
\* agent") and for a department that is offline (route.lua, "transferred to the
\* desk") too.
TransfersRing ==
  [][Outside /\ Answered /\ answer'.target \in Agents \cup {Support} /\ answer'.code # "QUEUED" =>
       Status = Ringing]_vars
=============================================================================
