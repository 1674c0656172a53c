------------------------------ MODULE CStatistics ------------------------------
(***************************************************************************)
(* The statistics of an endpoint, as the C implementation keeps them       *)
(* (reliable_endpoint_update, src/wire-compat/c/reliable.c): rtt, jitter,  *)
(* packet loss and bandwidth, from the times and sizes kept with the       *)
(* packets sent and received.  CEndpoint models everything else.           *)
(*                                                                         *)
(* Numbers are integers: an average is a pair <<sum, count>>, a deviation  *)
(* is kept as its square, and exponential smoothing moves a value to any   *)
(* integer between where it is and where it is drawn, as some factor       *)
(* from 0 to 1 would.                                                      *)
(***************************************************************************)
EXTENDS Integers, Sequences, FiniteSetsExt, Functions

CONSTANTS
  SequenceModulus, SentPacketsBufferSize, ReceivedPacketsBufferSize,
  RttHistorySize,
  PacketHeaderSize,  \* packet_header_size
  Whole,             \* 100 percent
  Rate,              \* 8 / 1000, from bytes per second to kbps
  None

ASSUME BufferSizes == SentPacketsBufferSize > 0 /\ ReceivedPacketsBufferSize > 0

VARIABLE endpoint

Untouched(data) == data

Sent == INSTANCE CSequenceBuffer
  WITH NumEntries <- SentPacketsBufferSize, Empty <- None, Cleanup <- Untouched,
       ZeroData <- [time |-> 0, acked |-> FALSE, packet_bytes |-> 0]
Received == INSTANCE CSequenceBuffer
  WITH NumEntries <- ReceivedPacketsBufferSize, Empty <- None, Cleanup <- Untouched,
       ZeroData <- [time |-> 0, packet_bytes |-> 0]

Uint16(n) == n % SequenceModulus

\* rtt_history_buffer holds -1 where there is no sample.
Unsampled == [i \in 0 .. RttHistorySize - 1 |-> -1]

Zeroes ==
  [rtt |-> 0, rtt_min |-> 0, rtt_max |-> 0, rtt_avg |-> <<0, 1>>,
   jitter_avg |-> <<0, 1>>, jitter_max |-> 0, jitter_variance |-> <<0, 1>>,
   packet_loss |-> 0, sent_kbps |-> 0, received_kbps |-> 0, acked_kbps |-> 0]

Created ==
  [time |-> 0, sequence |-> 0, rtt_history |-> Unsampled, stats |-> Zeroes,
   sent_packets |-> Sent!Create, received_packets |-> Received!Create]

\* Where a smoothed value may go.
Smoothed(value, target) ==
  IF value <= target THEN value .. target ELSE target .. value

-----------------------------------------------------------------------------
(* Sending and receiving: what they leave for the statistics *)

SendPacket(bytes) ==
  /\ Sent!TestInsert(endpoint.sent_packets, endpoint.sequence)   \* assert
  /\ endpoint' = [endpoint EXCEPT
       !.sequence = Uint16(@ + 1),
       !.sent_packets =
         Sent!Write(Sent!Insert(@, endpoint.sequence), endpoint.sequence,
                    [time |-> endpoint.time, acked |-> FALSE,
                     packet_bytes |-> PacketHeaderSize + bytes])]

\* Mutant: the first sample is smoothed as well, from zero.
RttTowards_FromZero(rtt, sample) == Smoothed(rtt, sample)

\* The first sample that is not zero is taken as it is.
RttTowards(rtt, sample) ==
  IF rtt = 0 /\ sample > 0 THEN {sample} ELSE Smoothed(rtt, sample)

\* One packet acked, if it is tracked and was not acked before.
AckPacket(e, s) ==
  LET packet == Sent!Find(e.sent_packets, s)
      rtt == e.time - packet.time
  IN  IF Sent!Exists(e.sent_packets, s) /\ ~packet.acked
      THEN {[e EXCEPT !.sent_packets = Sent!Write(@, s, [packet EXCEPT !.acked = TRUE]),
                      !.rtt_history[s % RttHistorySize] = rtt,
                      !.stats.rtt = smoothed] : smoothed \in RttTowards(e.stats.rtt, rtt)}
      ELSE {e}

\* A packet is accepted, and acks those of the list.
AcceptPacket(s, bytes, acks) ==
  LET entry == [time |-> endpoint.time, packet_bytes |-> PacketHeaderSize + bytes]
      entered == [endpoint EXCEPT !.received_packets =
                    Received!Write(Received!Insert(@, s), s, entry)]
      after[n \in 0 .. Len(acks)] ==
        IF n = 0 THEN {entered} ELSE UNION {AckPacket(e, acks[n]) : e \in after[n - 1]}
  IN  /\ Received!TestInsert(endpoint.received_packets, s)
      /\ ~Received!Exists(endpoint.received_packets, s)
      /\ endpoint' \in after[Len(acks)]

\* The first fragment of a packet moves the window and enters nothing.
OpenFragment(s) ==
  /\ Received!Ahead(endpoint.received_packets, s)
  /\ endpoint' = [endpoint EXCEPT !.received_packets = Received!Advance(@, s)]

-----------------------------------------------------------------------------
(* reliable_endpoint_update *)

\* A sum over the samples in the history.
HistorySum(history, Value(_)) ==
  MapThenSumSet(LAMBDA i : Value(history[i]), {i \in DOMAIN history : history[i] >= 0})

Count(history) == Cardinality({i \in DOMAIN history : history[i] >= 0})

Average(history, Value(_)) ==
  IF Count(history) > 0 THEN <<HistorySum(history, Value), Count(history)>> ELSE <<0, 1>>

Samples(history) == {rtt \in Range(history) : rtt >= 0}

RttMin(history) == IF Samples(history) = {} THEN 0 ELSE Min(Samples(history))

RttMax(history) == Max({0} \cup Samples(history))

RttAvg(history) == LET Itself(rtt) == rtt IN Average(history, Itself)

\* Mutant: a sample of zero is taken for a missing one.
JitterAvg_SkipsZero(history) ==
  LET OverMin(rtt) == rtt - RttMin(history)
      count == Cardinality({i \in DOMAIN history : history[i] > 0})
  IN  IF count > 0 THEN <<HistorySum(history, OverMin), count>> ELSE <<0, 1>>

JitterAvg(history) ==
  LET OverMin(rtt) == rtt - RttMin(history) IN Average(history, OverMin)

JitterMax(history) == Max({0} \cup {rtt - RttMin(history) : rtt \in Samples(history)})

\* The mean square of the deviation from the average: numerator over Count^3.
JitterVariance(history) ==
  LET avg == RttAvg(history)
      Square(rtt) == (rtt * avg[2] - avg[1]) * (rtt * avg[2] - avg[1])
  IN  IF Count(history) > 0 THEN <<HistorySum(history, Square), avg[2] * avg[2] * avg[2]>>
                            ELSE <<0, 1>>

\* Mutant: the window's start is one too far.
BaseSequence_OffByOne(b, size) == Uint16(b.sequence - size + 1)

\* The uint32_t sum, cut to sixteen bits where it is used.
BaseSequence(b, size) == Uint16(b.sequence - size + 1 + (SequenceModulus - 1))

\* The numbers of the sampled half of a buffer that has size entries.
SampledNumbers(b, size) ==
  {Uint16(BaseSequence(b, size) + i) : i \in 0 .. (size \div 2) - 1}

SampledSent(e) ==
  {s \in SampledNumbers(e.sent_packets, SentPacketsBufferSize) : Sent!Exists(e.sent_packets, s)}

SampledReceived(e) ==
  {s \in SampledNumbers(e.received_packets, ReceivedPacketsBufferSize) :
     Received!Exists(e.received_packets, s)}

SampledAcked(e) == {s \in SampledSent(e) : Sent!Find(e.sent_packets, s).acked}

PacketLoss(e) ==
  IF SampledSent(e) = {} THEN {0}
  ELSE Smoothed(e.stats.packet_loss,
                (Cardinality(SampledSent(e) \ SampledAcked(e)) * Whole)
                  \div Cardinality(SampledSent(e)))

\* A bandwidth over the packets numbers give: left alone unless they span time.
Kbps(kbps, packets, numbers) ==
  LET times == {packets[s].time : s \in numbers}
      bytes == MapThenSumSet(LAMBDA s : packets[s].packet_bytes, numbers)
      finish_time == Max({0} \cup times)
  IN  IF times # {} /\ finish_time > Min(times)
      THEN Smoothed(kbps, (bytes * Rate) \div (finish_time - Min(times)))
      ELSE {kbps}

SentPackets(e, numbers) == [s \in numbers |-> Sent!Find(e.sent_packets, s)]

ReceivedPackets(e, numbers) == [s \in numbers |-> Received!Find(e.received_packets, s)]

\* The smoothed ones of the statistics.
Update(time) ==
  \E packet_loss \in PacketLoss(endpoint),
     sent_kbps \in Kbps(endpoint.stats.sent_kbps,
                        SentPackets(endpoint, SampledSent(endpoint)), SampledSent(endpoint)),
     received_kbps \in Kbps(endpoint.stats.received_kbps,
                            ReceivedPackets(endpoint, SampledReceived(endpoint)),
                            SampledReceived(endpoint)),
     acked_kbps \in Kbps(endpoint.stats.acked_kbps,
                         SentPackets(endpoint, SampledAcked(endpoint)), SampledAcked(endpoint)) :
    LET history == endpoint.rtt_history
    IN  endpoint' = [endpoint EXCEPT
          !.time = time,
          !.stats = [rtt |-> @.rtt, rtt_min |-> RttMin(history), rtt_max |-> RttMax(history),
                     rtt_avg |-> RttAvg(history), jitter_avg |-> JitterAvg(history),
                     jitter_max |-> JitterMax(history),
                     jitter_variance |-> JitterVariance(history),
                     packet_loss |-> packet_loss, sent_kbps |-> sent_kbps,
                     received_kbps |-> received_kbps, acked_kbps |-> acked_kbps]]

-----------------------------------------------------------------------------

\* reset keeps the time.
Reset ==
  endpoint' = [endpoint EXCEPT
    !.sequence = 0, !.rtt_history = Unsampled, !.stats = Zeroes,
    !.sent_packets = Sent!Reset(@), !.received_packets = Received!Reset(@)]
=============================================================================
