------------------------- MODULE CCallbackProperties --------------------------
(***************************************************************************)
(* What the C endpoint promises a process callback that calls it again.    *)
(***************************************************************************)
EXTENDS CCallbacks, CEndpointProperties

\* "packet_data: valid only for the duration of the call" (reliable.h:177): the
\* block a rebuilt packet is processed out of keeps its header and contents
\* until the callback returns, though the callback sends and clears acks.  One
\* that resets the endpoint or receives may have the block freed under it.
PayloadStays ==
  callback_may \subseteq {"send", "clear"} =>
    \A k \in DOMAIN calls :
      LET call == calls[k]
      IN  call.rebuilt =>
            /\ Live(endpoint.heap, call.block)
            /\ endpoint.heap[call.block].header = call.header
            /\ SubSeq(endpoint.heap[call.block].data, 1, Len(call.content)) = call.content
=============================================================================
