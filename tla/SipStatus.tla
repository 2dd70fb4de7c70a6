----------------------------- MODULE SipStatus -----------------------------
(* The tables of sip_handler.c: the final status sip_handle_invite sends    *)
(* for each code of the routing script, and the statuses sip_dispatch sends *)
(* for every other method.                                                  *)

Ringing == 180
Failure == 500

\* Faulty: the case of ROUTE_RESULT_FALLBACK_AGENT is missing.
FallbackForgotten(code) ==
  CASE code \in {"SUCCESS", "QUEUED", "TIMEOUT_RETRY", "INVALID_KEY_RETRY"} -> Ringing
    [] code \in {"DEPT_FULL", "AGENT_OFFLINE"} -> 486
    [] code = "INVALID_DIGITS" -> 404
    [] code \in {"NIGHT_MODE", "VOICEMAIL"} -> 480
    [] OTHER -> Failure

Outcome(code) ==
  CASE code \in {"SUCCESS", "QUEUED", "FALLBACK_AGENT", "TIMEOUT_RETRY", "INVALID_KEY_RETRY"} -> Ringing
    [] code \in {"DEPT_FULL", "AGENT_OFFLINE"} -> 486
    [] code = "INVALID_DIGITS" -> 404
    [] code \in {"NIGHT_MODE", "VOICEMAIL"} -> 480
    [] OTHER -> Failure

\* sip_dispatch, for the methods other than INVITE; ACK is not answered.
Statuses(method) ==
  CASE method = "ACK" -> <<>>
    [] method \in {"BYE", "CANCEL", "OPTIONS", "REGISTER"} -> <<200>>
    [] method = "REFER" -> <<202>>
    [] OTHER -> <<405>>
=============================================================================
