---------------------------- MODULE MCEventLoop ----------------------------
(* EventLoop with a few slots: the SIP socket, a listener and its clients. *)
EXTENDS EventLoop
=============================================================================
