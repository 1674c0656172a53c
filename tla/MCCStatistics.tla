---------------------------- MODULE MCCStatistics ----------------------------
(***************************************************************************)
(* The statistics against a history of what was sent and received in this  *)
(* life of the endpoint, by identity rather than by number.                *)
(***************************************************************************)
EXTENDS CStatistics

CONSTANTS
  Settings,   \* each with packet sizes, the ack_lists of received packets that find
              \* room, and bounds per life: max_time, max_sent and max_received
  MaxAhead    \* how many packets of the peer may be lost in a row

ASSUME AcksMayBeDropped ==   \* where the ack buffer fills up in the middle
  \A setting \in Settings : \A list \in setting.ack_lists :
    list # <<>> => SubSeq(list, 1, Len(list) - 1) \in setting.ack_lists

VARIABLES
  setting,    \* fixed at the start
  sent,       \* how many packets were sent, and the last of them
  received,   \* how far the window got, and what it holds
  measured    \* the round trips measured: slot of the history, and time taken

vars == <<setting, endpoint, sent, received, measured>>

\* Identities of the last size of count packets.
Recent(count, size) == {n \in 0 .. count - 1 : n >= count - size}

\* The packet n, and the recent ones before it.
With(log, n, packet, size) ==
  LET count == IF n < log.count THEN log.count ELSE n + 1
  IN  [count |-> count,
       packets |-> [k \in Recent(count, size) |->
                      IF k = n THEN packet
                      ELSE IF k \in DOMAIN log.packets THEN log.packets[k] ELSE None]]

Nothing == [count |-> 0, packets |-> <<>>]

MCInit ==
  /\ setting \in Settings
  /\ endpoint = Created /\ sent = Nothing /\ received = Nothing /\ measured = {}

Sends(bytes) ==
  /\ sent.count < setting.max_sent
  /\ SendPacket(bytes)
  /\ sent' = With(sent, sent.count, [time |-> endpoint.time, acked |-> FALSE,
                                     packet_bytes |-> PacketHeaderSize + bytes],
                  SentPacketsBufferSize)
  /\ UNCHANGED <<received, measured>>

\* The packets a list of numbers names, those of them not acked before.
Named(acks) ==
  {n \in DOMAIN sent.packets :
     ~sent.packets[n].acked /\ \E k \in DOMAIN acks : acks[k] = Uint16(n)}

\* Packet n of the peer, which is new or still in the window.
Receives(n, bytes, acks) ==
  /\ n \in DOMAIN received.packets \/ n - received.count \in 0 .. MaxAhead
  /\ AcceptPacket(Uint16(n), bytes, acks)
  /\ received' = With(received, n, [time |-> endpoint.time,
                                    packet_bytes |-> PacketHeaderSize + bytes],
                      ReceivedPacketsBufferSize)
  /\ sent' = [sent EXCEPT !.packets =
                [k \in DOMAIN @ |-> IF k \in Named(acks) THEN [@[k] EXCEPT !.acked = TRUE]
                                                        ELSE @[k]]]
  /\ measured' = measured \cup
       {<<Uint16(k) % RttHistorySize, endpoint.time - sent.packets[k].time>> : k \in Named(acks)}

ReceivesFragment(n) ==
  /\ n - received.count \in 0 .. MaxAhead
  /\ OpenFragment(Uint16(n))
  /\ received' = With(received, n, None, ReceivedPacketsBufferSize)
  /\ UNCHANGED <<sent, measured>>

\* Time does not run backwards.
Updates(time) == time >= endpoint.time /\ Update(time) /\ UNCHANGED <<sent, received, measured>>

Resets == Reset /\ sent' = Nothing /\ received' = Nothing /\ measured' = {}

MCNext ==
  /\ \/ \E bytes \in setting.sizes : Sends(bytes)
     \/ \E n \in 0 .. setting.max_received - 1, bytes \in setting.sizes,
           acks \in setting.ack_lists : Receives(n, bytes, acks)
     \/ \E n \in 0 .. setting.max_received - 1 : ReceivesFragment(n)
     \/ \E time \in 0 .. setting.max_time : Updates(time)
     \/ Resets
  /\ UNCHANGED setting

MCSpec == MCInit /\ [][MCNext]_vars

-----------------------------------------------------------------------------

\* The oldest half of the packets that fit a buffer of size entries, whether or
\* not there have been as many.
OldestHalf(log, size) ==
  {n \in DOMAIN log.packets :
     n < log.count - size + (size \div 2) /\ log.packets[n] # None}

\* The loss and the bandwidths are taken over the oldest half of each window,
\* "where packets have had enough time to be acked" (endpoint.rs:874): by
\* identity, so no packet of an earlier lap or an earlier life is counted, each
\* with its own time, size and ack.
SamplesAreOldestHalf ==
  /\ {Sent!Find(endpoint.sent_packets, s) : s \in SampledSent(endpoint)}
       = {sent.packets[n] : n \in OldestHalf(sent, SentPacketsBufferSize)}
  /\ SampledSent(endpoint) = {Uint16(n) : n \in OldestHalf(sent, SentPacketsBufferSize)}
  /\ {Received!Find(endpoint.received_packets, s) : s \in SampledReceived(endpoint)}
       = {received.packets[n] : n \in OldestHalf(received, ReceivedPacketsBufferSize)}
  /\ SampledReceived(endpoint)
       = {Uint16(n) : n \in OldestHalf(received, ReceivedPacketsBufferSize)}

\* Every rtt in the history was measured on a packet of this life, none is
\* negative (the assert at reliable.c:1349), and the smoothed rtt is within
\* those measured: it does not climb from zero when the first sample comes.
RttFromThisLife ==
  LET rtts == {m[2] : m \in measured}
  IN  /\ \A i \in DOMAIN endpoint.rtt_history :
           endpoint.rtt_history[i] # -1 => <<i, endpoint.rtt_history[i]>> \in measured
      /\ \A rtt \in rtts : rtt >= 0
      /\ IF rtts = {} THEN endpoint.stats.rtt = 0
                      ELSE endpoint.stats.rtt \in Min(rtts) .. Max(rtts)

\* The rtt and jitter views, each of its own pass over the history, agree: the
\* average is between the extremes, and the jitters are what lies between the
\* minimum and the average, and between the extremes; the deviation is bounded
\* by both distances of the average.
ViewsAgree ==
  LET stats == endpoint.stats
      sum == stats.rtt_avg[1]
      count == stats.rtt_avg[2]
      below == sum - stats.rtt_min * count     \* average over minimum, times count
      above == stats.rtt_max * count - sum
  IN  /\ below >= 0 /\ above >= 0
      /\ stats.jitter_avg = <<below, count>>
      /\ stats.jitter_max = stats.rtt_max - stats.rtt_min
      /\ stats.jitter_variance[1] * count * count <= below * above * stats.jitter_variance[2]

SingleAcks == {<<>>} \cup {<<s>> : s \in 0 .. SequenceModulus - 1}

\* A lap and one packet sent, acks of any two; a lap and one received, in any
\* order in the window; and round trips of up to two ticks.
Sending ==
  [sizes |-> {1}, max_time |-> 1, max_sent |-> SequenceModulus + 1, max_received |-> 1,
   ack_lists |-> SingleAcks \cup {<<s, Uint16(s - 1)>> : s \in 0 .. SequenceModulus - 1}]

Receiving ==
  [sizes |-> {1, 2}, max_time |-> 1, max_sent |-> 0, max_received |-> SequenceModulus + 1,
   ack_lists |-> {<<>>}]

RoundTrips ==
  [sizes |-> {1}, max_time |-> 2, max_sent |-> 4, max_received |-> 2, ack_lists |-> SingleAcks]

MCSettings == {Sending, Receiving, RoundTrips}
=============================================================================
