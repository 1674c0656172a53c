------------------------------ MODULE CCallbacks ------------------------------
(***************************************************************************)
(* The C endpoint with the callbacks apart: process_packet_function is     *)
(* called in the middle of reliable_endpoint_receive_packet and may call   *)
(* the endpoint again, which the port's `&mut self` forbids and C does     *)
(* not.  `calls` is the stack of receive_packet calls that are inside      *)
(* their callback.                                                         *)
(***************************************************************************)
EXTENDS CEndpoint

CONSTANTS
  Callbacks,   \* the callbacks to try: the calls each may make, among
               \* "send", "clear", "reset" and "receive"
  MaxDepth     \* bound on the calls inside each other

VARIABLES calls, callback_may

vars == <<endpoint, calls, callback_may>>

Call(h, s, content, rebuilt, block) ==
  [header |-> h, sequence |-> s, content |-> content, rebuilt |-> rebuilt, block |-> block]

May(operation) == calls = <<>> \/ operation \in callback_may

Top == calls[Len(calls)]

\* receive_packet, returning before the callback.
Receive(d) ==
  /\ May("receive")
  /\ ReceivePacket(d, "unused")
  /\ UNCHANGED calls

\* receive_packet up to the callback, for a regular packet.
RegularUpToCallback(d) ==
  /\ d.type = "regular" /\ Processes(endpoint, d.header, d.content)
  /\ endpoint' = Arrive(endpoint, d.header, d.content)
  /\ calls' = Append(calls, Call(d.header, d.header.sequence, d.content, FALSE, NULL))

\* Mutant: the entry is removed before the recursive call.
RebuiltUpToCallback_Removes(d) ==
  /\ d.type = "fragment" /\ Wanted(endpoint, d)
  /\ \E prepared \in Prepared(endpoint, d) :
       LET stored == Store(prepared, d)
           data == Reassembly!Find(stored.fragment_reassembly, d.sequence)
           packet == Rebuilt(stored, data)
       IN  /\ Complete(data) /\ Processes(stored, packet.header, packet.content)
           /\ endpoint' = Leave(Arrive(stored, packet.header, packet.content), d.sequence)
           /\ calls' = Append(calls, Call(packet.header, d.sequence, packet.content,
                                          TRUE, data.packet_data))

\* receive_packet up to the callback, for the packet that fragment d completes.
RebuiltUpToCallback(d) ==
  /\ d.type = "fragment" /\ Wanted(endpoint, d)
  /\ \E prepared \in Prepared(endpoint, d) :
       LET stored == Store(prepared, d)
           data == Reassembly!Find(stored.fragment_reassembly, d.sequence)
           packet == Rebuilt(stored, data)
       IN  /\ Complete(data) /\ Processes(stored, packet.header, packet.content)
           /\ endpoint' = Arrive(stored, packet.header, packet.content)
           /\ calls' = Append(calls, Call(packet.header, d.sequence, packet.content,
                                          TRUE, data.packet_data))

ReceiveUpToCallback(d) ==
  /\ May("receive") /\ Len(calls) < MaxDepth
  /\ RegularUpToCallback(d) \/ RebuiltUpToCallback(d)

\* The callback answers, and receive_packet goes on to its end.  The assert
\* after insert stops the program when the packet became stale meanwhile.
Return(answer) ==
  /\ calls # <<>>
  /\ answer = "accepted" =>
       Received!TestInsert(endpoint.received_packets, Top.sequence)   \* assert
  /\ endpoint' = Finish(endpoint, Top.header, Top.sequence, Top.rebuilt, answer)
  /\ calls' = SubSeq(calls, 1, Len(calls) - 1)

Send == May("send") /\ (\E content \in Packets : SendPacket(content)) /\ UNCHANGED calls

Clear == May("clear") /\ ClearAcks /\ UNCHANGED calls

ResetCall == May("reset") /\ Reset /\ UNCHANGED calls

CallInit == Init /\ calls = <<>> /\ callback_may \in Callbacks

CallNext ==
  /\ \/ \E d \in Datagrams : Receive(d) \/ ReceiveUpToCallback(d)
     \/ \E answer \in {"accepted", "rejected"} : Return(answer)
     \/ Send \/ Clear \/ ResetCall
  /\ UNCHANGED callback_may

CallSpec == CallInit /\ [][CallNext]_vars
=============================================================================
