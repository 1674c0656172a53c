----------------------------- MODULE MCCCallbacks -----------------------------
(***************************************************************************)
(* Calls from inside the process callback of the C endpoint.               *)
(***************************************************************************)
EXTENDS CCallbackProperties, MCCEndpoint

\* Two numbers at a window's distance in two fragments, and a third with the
\* first of them regular.
CallbackDatagrams ==
  {Regular(H(s, 0, {0}), 1) : s \in {0, 4}}
  \cup UNION {{Fragment(s, 0, 2, H(s, 1, {0}), 3), Fragment(s, 1, 2, None, 1)} : s \in {0, 2}}

CallbackPackets == {Bytes(1)}

MCCallbacks == {{"send", "clear"}, {"send", "clear", "reset", "receive"}}
=============================================================================
