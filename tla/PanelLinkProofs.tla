---------------------------- MODULE PanelLinkProofs ----------------------------
(***************************************************************************)
(* Proofs about PanelLink, for any frames, buffer, number of frames and    *)
(* number of bytes lost.                                                   *)
(***************************************************************************)
EXTENDS PanelLink, SequenceTheorems, TLAPS

-----------------------------------------------------------------------------
(* The server and its port. *)

\* A write is late only if the device went after isConnected was asked.
PortInv ==
  /\ lateWrites \in Nat
  /\ pc \in {"open", "check", "write"}
  /\ portAlive => lateWrites = 0
  /\ pc = "open" => lateWrites = 0
  /\ pc = "write" => lateWrites = 0
  /\ lateWrites <= 1

\* No step of the Uno or of the line touches the port.
LEMMA UnoLeavesPort == Uno \/ Deliver \/ LoseByte => UNCHANGED portVars
  BY DEF Uno, Setup, NothingToRead, CheckSerial, ReadBytes, ReadTimeOut, Deliver, LoseByte,
         unoVars

\* Every step keeps what is said of the port.
LEMMA PortStep == PortInv /\ [Next]_vars => PortInv'
<1> SUFFICES ASSUME PortInv, [Next]_vars PROVE PortInv'
  OBVIOUS
<1> USE DEF PortInv
<1>1. CASE OpenPort
  BY <1>1 DEF OpenPort
<1>2. CASE IsConnected
  BY <1>2 DEF IsConnected
<1>3. CASE WriteFrame
  BY <1>3 DEF WriteFrame
<1>4. CASE WriteFails
  BY <1>4 DEF WriteFails
<1>5. CASE PortDies
  BY <1>5 DEF PortDies
<1>6. CASE UNCHANGED portVars
  BY <1>6 DEF portVars
<1>7. QED
  BY <1>1, <1>2, <1>3, <1>4, <1>5, <1>6, UnoLeavesPort
  DEF Next, SerialServer, vars

\* A port that has gone is written to once at most, however the server and the device
\* come together.
THEOREM GonePortIsLeft == Spec => []DeadPortIsLeft
<1>1. Init => PortInv
  BY DEF Init, PortInv
<1>2. PortInv => DeadPortIsLeft
  BY DEF PortInv, DeadPortIsLeft
<1>3. QED
  BY <1>1, <1>2, PortStep, PTL DEF Spec

-----------------------------------------------------------------------------
(* The bytes between the server and the Uno. *)

\* What the Uno has not read: its buffer, then the line.
Stream == rx \o wire

\* The j-th byte that the server has sent, lost ones included.
Sent(j) == <<((j - 1) \div 5) + 1, ((j - 1) % 5) + 1>>

\* The stream is what was sent after the first q frames, up to the last one.
FramesAfter(q, s, frames) ==
  /\ 5 * q + Len(s) = 5 * frames
  /\ \A k \in 1..Len(s) : s[k] = Sent(5 * q + k)

WholeFrames(s, frames) == \E q \in 0..frames : FramesAfter(q, s, frames)

\* The bytes of the n-th frame.
IsFrame(data, n) == \A i \in 1..5 : data[i] = <<n, i>>

\* A frame that was written.
WholeFrame(data, frames) == \E n \in 1..frames : IsFrame(data, n)

Pairs == Nat \X Nat

StreamInv ==
  /\ written \in Seq(Frames)
  /\ wire \in Seq(Pairs) /\ rx \in Seq(Pairs)
  /\ inStep \in BOOLEAN
  /\ inStep => WholeFrames(Stream, Len(written))
  /\ inStep /\ bytesRead = 5 => WholeFrame(simData, Len(written))

\* Where a byte of the whole output stands in its frame.
LEMMA SentInFrame ==
  ASSUME NEW q \in Nat, NEW i \in 1..5
  PROVE  Sent(5 * q + i) = <<q + 1, i>>
<1>1. 5 * q + i - 1 = 5 * q + (i - 1) /\ i - 1 \in 0..4
  OBVIOUS
<1>2. (5 * q + i - 1) \div 5 = q /\ (5 * q + i - 1) % 5 = i - 1
  BY <1>1
<1>3. QED
  BY <1>2 DEF Sent

\* The stream grows by the frame that is written.
LEMMA FrameAppended ==
  ASSUME NEW S, NEW frames \in Nat, NEW s \in Seq(S), WholeFrames(s, frames),
         NEW frame \in Seq(S), Len(frame) = 5,
         IsFrame(frame, frames + 1)
  PROVE  WholeFrames(s \o frame, frames + 1)
<1>1. PICK q \in 0..frames : FramesAfter(q, s, frames)
  BY DEF WholeFrames
<1>2. /\ q \in Nat /\ Len(s) \in Nat
      /\ 5 * q + Len(s) = 5 * frames
      /\ \A k \in 1..Len(s) : s[k] = Sent(5 * q + k)
  BY <1>1, LenProperties DEF FramesAfter
<1> DEFINE t == s \o frame
<1>3. /\ Len(t) = Len(s) + 5
      /\ \A k \in 1..Len(s) + 5 : t[k] = IF k <= Len(s) THEN s[k] ELSE frame[k - Len(s)]
  <2>1. /\ Len(t) = Len(s) + Len(frame)
        /\ \A k \in 1..Len(s) + Len(frame) :
             t[k] = IF k <= Len(s) THEN s[k] ELSE frame[k - Len(s)]
    BY Zenon, ConcatProperties
  <2> HIDE DEF t
  <2>2. QED
    BY <2>1
<1> HIDE DEF t
<1>4. /\ 5 * q + Len(t) = 5 * (frames + 1)
      /\ \A k \in Nat : 5 * q + k = 5 * frames + (k - Len(s))
  <2>1. q \in Nat /\ Len(s) \in Nat /\ 5 * q + Len(s) = 5 * frames
    BY <1>2
  <2>2. Len(t) = Len(s) + 5
    BY <1>3
  <2>3. 5 * q + Len(t) = 5 * (frames + 1)
    BY <2>1, <2>2
  <2>4. \A k \in Nat : 5 * q + k = 5 * frames + (k - Len(s))
    BY <2>1
  <2>5. QED
    BY <2>3, <2>4
<1>5. ASSUME NEW k \in 1..Len(t) PROVE t[k] = Sent(5 * q + k)
  <2>1. CASE k <= Len(s)
    <3>1. k \in 1..Len(s) /\ t[k] = s[k]
      BY <1>2, <1>3, <2>1
    <3>2. QED
      BY <1>2, <3>1
  <2>2. CASE ~(k <= Len(s))
    <3>1. k - Len(s) \in 1..5
      BY <1>2, <1>3, <2>2
    <3>2. t[k] = frame[k - Len(s)]
      BY <1>2, <1>3, <2>2
    <3>3. 5 * q + k = 5 * frames + (k - Len(s))
      <4>1. k \in Nat
        BY <1>2, <1>3
      <4>2. QED
        BY <1>4, <4>1, Zenon
    <3>4. QED
      BY <3>1, <3>2, <3>3, SentInFrame DEF IsFrame
  <2>3. QED
    BY <2>1, <2>2
<1>6. FramesAfter(q, t, frames + 1)
  BY <1>4, <1>5 DEF FramesAfter
<1>7. q \in 0..frames + 1
  OBVIOUS
<1>8. QED
  BY <1>6, <1>7, Zenon DEF WholeFrames, t

\* The first five bytes of the stream are a frame, and the rest is whole again.
LEMMA FrameRead ==
  ASSUME NEW S, NEW frames \in Nat, NEW s \in Seq(S), WholeFrames(s, frames), Len(s) >= 5,
         NEW rest \in Seq(S), Len(rest) = Len(s) - 5,
         \A k \in 1..Len(rest) : rest[k] = s[k + 5]
  PROVE  WholeFrame(s, frames) /\ WholeFrames(rest, frames)
<1>1. PICK q \in 0..frames : FramesAfter(q, s, frames)
  BY DEF WholeFrames
<1>2. /\ q \in Nat /\ Len(s) \in Nat
      /\ 5 * q + Len(s) = 5 * frames
      /\ \A k \in 1..Len(s) : s[k] = Sent(5 * q + k)
  BY <1>1, LenProperties DEF FramesAfter
<1>3. q + 1 \in 1..frames
  BY <1>2
<1>4. ASSUME NEW i \in 1..5 PROVE s[i] = <<q + 1, i>>
  <2>1. i \in 1..Len(s)
    BY <1>2
  <2>2. QED
    BY <1>2, <2>1, SentInFrame
<1>5. WholeFrame(s, frames)
  BY <1>3, <1>4 DEF WholeFrame, IsFrame
<1>6. ASSUME NEW k \in 1..Len(rest) PROVE rest[k] = Sent(5 * (q + 1) + k)
  <2>1. k + 5 \in 1..Len(s) /\ 5 * q + (k + 5) = 5 * (q + 1) + k
    BY <1>2
  <2>2. QED
    BY <1>2, <2>1
<1>7. FramesAfter(q + 1, rest, frames)
  <2>1. 5 * (q + 1) + Len(rest) = 5 * frames
    BY <1>2
  <2>2. QED
    BY <1>6, <2>1 DEF FramesAfter
<1>8. QED
  BY <1>3, <1>5, <1>7 DEF WholeFrames

\* An empty stream is whole: nothing is missing from its frames.
LEMMA NothingIsWhole ==
  ASSUME NEW frames \in Nat
  PROVE  WholeFrames(<<>>, frames)
  BY DEF WholeFrames, FramesAfter

\* A byte that comes in moves from the line to the buffer, and the stream is the same.
LEMMA ByteDelivered ==
  ASSUME NEW S, NEW r \in Seq(S), NEW w \in Seq(S), w # <<>>
  PROVE  /\ Append(r, Head(w)) \in Seq(S) /\ Tail(w) \in Seq(S)
         /\ Append(r, Head(w)) \o Tail(w) = r \o w
<1>1. Head(w) \in S /\ Tail(w) \in Seq(S)
  BY HeadTailProperties
<1>2. Append(r, Head(w)) \in Seq(S) /\ Append(r, Head(w)) = r \o <<Head(w)>>
  BY <1>1, AppendProperties, AppendIsConcat
<1>3. <<Head(w)>> \in Seq(S) /\ w = <<Head(w)>> \o Tail(w)
  <2>1. 1 \in 1..Len(w) /\ Len(w) \in 1..Len(w)
    BY EmptySeq
  <2>2. SubSeq(w, 1, Len(w)) = <<w[1]>> \o SubSeq(w, 1 + 1, Len(w))
    BY <2>1, SubSeqRecursiveFirst
  <2>3. SubSeq(w, 1, Len(w)) = w /\ Tail(w) = SubSeq(w, 2, Len(w))
    BY SubSeqFull, TailIsSubSeq
  <2>4. Head(w) = w[1]
    OBVIOUS
  <2>5. QED
    BY <1>1, <2>2, <2>3, <2>4
<1>4. (r \o <<Head(w)>>) \o Tail(w) = r \o (<<Head(w)>> \o Tail(w))
  BY <1>1, <1>3, ConcatAssociative
<1>5. QED
  BY <1>1, <1>2, <1>3, <1>4

Rest(r) == SubSeq(r, 6, Len(r))

\* What a stream is made of when five bytes are taken from it.
LeavesRest(rest, stream) ==
  /\ Len(rest) = Len(stream) - 5
  /\ \A k \in 1..Len(rest) : rest[k] = stream[k + 5]
TakesFive(data, stream) == \A i \in 1..5 : data[i] = stream[i]

\* readBytes takes the first five bytes of the stream and leaves the rest.
LEMMA FiveBytesTaken ==
  ASSUME NEW S, NEW r \in Seq(S), NEW w \in Seq(S), Len(r) >= 5
  PROVE  /\ Rest(r) \in Seq(S) /\ Rest(r) \o w \in Seq(S)
         /\ LeavesRest(Rest(r) \o w, r \o w)
         /\ TakesFive(SubSeq(r, 1, 5), r \o w)
<1> DEFINE rest == Rest(r)
<1>1. Len(r) \in Nat /\ Len(w) \in Nat
  BY LenProperties
<1>2. /\ rest \in Seq(S)
      /\ Len(rest) = Len(r) - 5
      /\ \A k \in 1..Len(r) - 5 : rest[k] = r[k + 5]
  <2>1. \A i \in 6..Len(r) : r[i] \in S
    BY <1>1, ElementOfSeq
  <2>2. PICK last \in Int : last = Len(r)
    BY <1>1
  <2>3. /\ SubSeq(r, 6, last) \in Seq(S)
        /\ Len(SubSeq(r, 6, last)) = IF 6 <= last THEN last - 6 + 1 ELSE 0
        /\ \A k \in 1..last - 6 + 1 : SubSeq(r, 6, last)[k] = r[6 + k - 1]
    BY <2>1, <2>2, SubSeqProperties
  <2>4. rest = SubSeq(r, 6, last)
    BY <2>2 DEF Rest
  <2> HIDE DEF rest
  <2>5. /\ rest \in Seq(S)
        /\ Len(rest) = IF 6 <= last THEN last - 6 + 1 ELSE 0
        /\ \A k \in 1..last - 6 + 1 : rest[k] = r[6 + k - 1]
    BY <2>3, <2>4, Zenon
  <2>6. QED
    BY <1>1, <2>2, <2>5
<1>3. \A i \in 1..5 : SubSeq(r, 1, 5)[i] = r[i]
  <2>1. \A i \in 1..5 : r[i] \in S
    BY <1>1, ElementOfSeq
  <2>2. \A i \in 1..5 - 1 + 1 : SubSeq(r, 1, 5)[i] = r[1 + i - 1]
    BY <2>1, SubSeqProperties
  <2>3. QED
    BY <2>2
<1> HIDE DEF rest
<1>4. /\ r \o w \in Seq(S) /\ rest \o w \in Seq(S)
      /\ Len(r \o w) = Len(r) + Len(w)
      /\ Len(rest \o w) = Len(rest) + Len(w)
      /\ \A k \in 1..Len(r) + Len(w) :
           (r \o w)[k] = IF k <= Len(r) THEN r[k] ELSE w[k - Len(r)]
      /\ \A k \in 1..Len(rest) + Len(w) :
           (rest \o w)[k] = IF k <= Len(rest) THEN rest[k] ELSE w[k - Len(rest)]
  BY <1>2, ConcatProperties, Zenon
<1>5. ASSUME NEW k \in 1..Len(rest) + Len(w) PROVE (rest \o w)[k] = (r \o w)[k + 5]
  <2>1. k + 5 \in 1..Len(r) + Len(w)
    BY <1>1, <1>2
  <2>2. CASE k <= Len(rest)
    BY <1>1, <1>2, <1>4, <2>1, <2>2
  <2>3. CASE ~(k <= Len(rest))
    <3>1. k - Len(rest) = (k + 5) - Len(r) /\ ~(k + 5 <= Len(r))
      BY <1>1, <1>2, <2>3
    <3>2. (rest \o w)[k] = w[k - Len(rest)]
      BY <1>4, <2>3
    <3>3. (r \o w)[k + 5] = w[(k + 5) - Len(r)]
      BY <1>4, <2>1, <3>1
    <3>4. QED
      BY <3>1, <3>2, <3>3
  <2>4. QED
    BY <2>2, <2>3
<1>6. \A i \in 1..5 : SubSeq(r, 1, 5)[i] = (r \o w)[i]
  BY <1>1, <1>3, <1>4
<1>7. LeavesRest(rest \o w, r \o w)
  BY <1>1, <1>2, <1>4, <1>5 DEF LeavesRest
<1>8. TakesFive(SubSeq(r, 1, 5), r \o w)
  BY <1>6, Zenon DEF TakesFive
<1>9. QED
  BY <1>2, <1>4, <1>7, <1>8, Zenon DEF rest

\* At first no byte is on its way.
LEMMA StreamInit == Init => StreamInv
<1>1. <<>> \in Seq(Frames) /\ <<>> \in Seq(Pairs) /\ Len(<<>>) = 0
  BY EmptySeq
<1>2. <<>> \o <<>> = <<>>
  BY <1>1, ConcatEmptySeq
<1>3. WholeFrames(<<>>, 0)
  BY NothingIsWhole
<1>4. QED
  BY <1>1, <1>2, <1>3 DEF Init, StreamInv, Stream

\* Every step keeps the bytes on their way in frames.
LEMMA StreamStep == StreamInv /\ [Next]_vars => StreamInv'
<1> SUFFICES ASSUME StreamInv, [Next]_vars PROVE StreamInv'
  OBVIOUS
<1>t. /\ written \in Seq(Frames) /\ Len(written) \in Nat
      /\ wire \in Seq(Pairs) /\ rx \in Seq(Pairs)
      /\ Len(wire) \in Nat /\ Len(rx) \in Nat
      /\ inStep \in BOOLEAN
  BY LenProperties DEF StreamInv
<1>s. rx \o wire \in Seq(Pairs)
  BY <1>t, ConcatProperties
<1>1. CASE WriteFrame
  <2> DEFINE n == Len(written) + 1
             frame == [i \in 1..5 |-> <<n, i>>]
  <2>1. /\ written' \in Seq(Frames) /\ Len(written') = n
        /\ wire' = wire \o frame
        /\ UNCHANGED <<rx, inStep, bytesRead, simData>>
    <3>1. PICK f \in Frames : written' = Append(written, f)
      BY <1>1 DEF WriteFrame
    <3>2. written' \in Seq(Frames) /\ Len(written') = n
      BY <1>t, <3>1, AppendProperties
    <3>3. QED
      BY <1>1, <3>2 DEF WriteFrame, bufSize, unoVars, lossVars
  <2>2. frame \in Seq(Pairs) /\ Len(frame) = 5 /\ IsFrame(frame, n)
    BY <1>t DEF IsFrame, Pairs
  <2> HIDE DEF frame
  <2>3. wire' \in Seq(Pairs) /\ rx' \in Seq(Pairs) /\ rx' \o wire' = (rx \o wire) \o frame
    <3>1. /\ wire \o frame \in Seq(Pairs)
          /\ rx \o (wire \o frame) = (rx \o wire) \o frame
      <4>1. wire \o frame \in Seq(Pairs)
        BY <1>t, <2>2, ConcatProperties, Zenon
      <4>2. (rx \o wire) \o frame = rx \o (wire \o frame)
        BY <1>t, <2>2, ConcatAssociative
      <4>3. QED
        BY <4>1, <4>2, Zenon
    <3>2. QED
      BY <1>t, <2>1, <3>1, Zenon
  <2>4. ASSUME inStep PROVE WholeFrames(rx' \o wire', n)
    <3>1. WholeFrames(rx \o wire, Len(written))
      BY <2>4 DEF StreamInv, Stream
    <3>2. QED
      BY <1>t, <1>s, <2>2, <2>3, <3>1, FrameAppended
  <2>5. ASSUME inStep, bytesRead = 5 PROVE WholeFrame(simData, n)
    BY <1>t, <2>5 DEF StreamInv, WholeFrame
  <2>6. QED
    BY <1>t, <2>1, <2>3, <2>4, <2>5 DEF StreamInv, Stream
<1>2. CASE PortDies
  <2>1. PICK kept \in 0..Len(wire) : /\ wire' = SubSeq(wire, 1, kept)
                                     /\ inStep' = (inStep /\ kept = Len(wire))
    BY <1>2 DEF PortDies
  <2>2. UNCHANGED <<written, rx, bytesRead, simData>>
    BY <1>2 DEF PortDies, unoVars
  <2>3. wire' \in Seq(Pairs)
    BY <1>t, <2>1, ElementOfSeq, SubSeqProperties
  <2>4. inStep' => wire' = wire /\ inStep
    BY <1>t, <2>1, SubSeqFull
  <2>5. QED
    BY <1>t, <2>1, <2>2, <2>3, <2>4 DEF StreamInv, Stream
<1>3. CASE Deliver
  <2>1. wire # <<>> /\ wire' = Tail(wire) /\ UNCHANGED <<written, bytesRead, simData>>
    BY <1>3 DEF Deliver, portVars, unoVars
  <2>2. wire' \in Seq(Pairs)
    BY <1>t, <2>1, HeadTailProperties
  <2>3. CASE rx' = Append(rx, Head(wire)) /\ UNCHANGED inStep
    <3>1. /\ Append(rx, Head(wire)) \in Seq(Pairs)
          /\ Append(rx, Head(wire)) \o Tail(wire) = rx \o wire
      BY <1>t, <2>1, ByteDelivered, Zenon
    <3>2. rx' \in Seq(Pairs) /\ rx' \o wire' = rx \o wire
      BY <2>1, <2>3, <3>1, Zenon
    <3>3. QED
      BY <1>t, <2>1, <2>2, <2>3, <3>2 DEF StreamInv, Stream
  <2>4. CASE inStep' = FALSE /\ UNCHANGED rx
    BY <1>t, <2>1, <2>2, <2>4 DEF StreamInv
  <2>5. QED
    BY <1>3, <2>3, <2>4 DEF Deliver, lossVars
<1>4. CASE LoseByte
  <2>1. wire # <<>> /\ wire' = Tail(wire) /\ inStep' = FALSE /\ UNCHANGED <<written, rx>>
    BY <1>4 DEF LoseByte, portVars
  <2>2. wire' \in Seq(Pairs)
    BY <1>t, <2>1, HeadTailProperties
  <2>3. QED
    BY <1>t, <2>1, <2>2 DEF StreamInv
<1>5. CASE ReadBytes
  <2> DEFINE rest == Rest(rx)
  <2>1. /\ Len(rx) >= 5 /\ simData' = SubSeq(rx, 1, 5) /\ rx' = rest
        /\ UNCHANGED <<written, wire, inStep>>
    BY <1>5 DEF Rest, ReadBytes, bufSize, portVars, lossVars
  <2>2. /\ rest \in Seq(Pairs) /\ rest \o wire \in Seq(Pairs)
        /\ Len(rest \o wire) = Len(rx \o wire) - 5
        /\ \A k \in 1..Len(rest \o wire) : (rest \o wire)[k] = (rx \o wire)[k + 5]
        /\ \A i \in 1..5 : SubSeq(rx, 1, 5)[i] = (rx \o wire)[i]
    <3>1. rx \in Seq(Pairs) /\ wire \in Seq(Pairs) /\ Len(rx) >= 5
      BY <1>t, <2>1
    <3>2. /\ Rest(rx) \in Seq(Pairs) /\ Rest(rx) \o wire \in Seq(Pairs)
          /\ LeavesRest(Rest(rx) \o wire, rx \o wire)
          /\ TakesFive(SubSeq(rx, 1, 5), rx \o wire)
      BY <3>1, FiveBytesTaken
    <3>3. QED
      BY <3>2, Zenon DEF LeavesRest, TakesFive
  <2> HIDE DEF rest
  <2>3. ASSUME inStep
        PROVE  WholeFrame(rx \o wire, Len(written)) /\ WholeFrames(rest \o wire, Len(written))
    <3>1. WholeFrames(rx \o wire, Len(written))
      BY <2>3 DEF StreamInv, Stream
    <3>2. Len(rx \o wire) >= 5
      BY <1>t, <2>1, ConcatProperties
    <3>3. QED
      BY <1>t, <1>s, <2>2, <3>1, <3>2, FrameRead
  <2>4. inStep => WholeFrame(simData', Len(written))
    BY <2>1, <2>2, <2>3 DEF WholeFrame, IsFrame
  <2>5. QED
    BY <1>t, <2>1, <2>2, <2>3, <2>4 DEF StreamInv, Stream
<1>6. CASE ReadTimeOut
  <2>1. /\ Len(rx) < 5 /\ wire = <<>> /\ rx' = <<>> /\ bytesRead' = Len(rx) /\ inStep' = TRUE
        /\ UNCHANGED <<written, wire>>
    BY <1>6 DEF ReadTimeOut, bufSize, portVars
  <2>2. rx' \in Seq(Pairs) /\ rx' \o wire' = <<>>
    BY <2>1, EmptySeq, ConcatEmptySeq
  <2>3. WholeFrames(<<>>, Len(written))
    BY <1>t, NothingIsWhole
  <2>4. bytesRead' # 5
    <3>1. PICK l \in Nat : l = Len(rx)
      BY <1>t
    <3>2. l < 5 /\ bytesRead' = l
      BY <2>1, <3>1
    <3>3. l # 5
      BY <3>2
    <3>4. QED
      BY <3>2, <3>3, Zenon
  <2>5. QED
    BY <1>t, <2>1, <2>2, <2>3, <2>4 DEF StreamInv, Stream
<1>7. CASE UNCHANGED <<written, wire, rx, simData, bytesRead, inStep>>
  BY <1>7 DEF StreamInv, Stream
<1>8. QED
  BY <1>1, <1>2, <1>3, <1>4, <1>5, <1>6, <1>7
  DEF Next, SerialServer, Uno, OpenPort, IsConnected, WriteFails, Setup, NothingToRead,
      CheckSerial, vars, portVars, unoVars, lossVars

\* The bytes on their way are those of whole frames, as long as the Uno is in step.
THEOREM StreamInvariant == Spec => []StreamInv
BY StreamInit, StreamStep, PTL DEF Spec

\* What the Uno takes for a frame is one, however many frames are sent, as long as it is
\* in step; and a read that times out brings it back into step.
THEOREM ReadFramesAreWhole == Spec => []FramesInStep
<1>1. StreamInv => FramesInStep
  BY DEF StreamInv, FramesInStep, WholeFrame, IsFrame, bufSize
<1>2. QED
  BY <1>1, StreamInvariant, PTL


-----------------------------------------------------------------------------
(* The types of the bytes, of the servos and of the lights. *)

\* The bytes of the first n frames.
BytesOf(n) == (1..n) \X (1..5)

\* The Uno and the line hold bytes of frames that were written.
BytesInv ==
  /\ written \in Seq(Frames)
  /\ wire \in Seq(BytesOf(Len(written)))
  /\ rx \in Seq(BytesOf(Len(written))) /\ Len(rx) <= BufferSize
  /\ simData \in [1..5 -> BytesOf(Len(written)) \cup {NoByte}]

FlagsInv ==
  /\ pc \in {"open", "check", "write"}
  /\ connected \in BOOLEAN /\ portAlive \in BOOLEAN
  /\ uno \in {"setup", "loop", "reading"}
  /\ attached \subseteq Servos
  /\ bytesRead \in 0..5
  /\ inStep \in BOOLEAN /\ lost \in Nat /\ lateWrites \in Nat
  /\ lost = 0 => inStep
  /\ uno = "setup" => bytesRead = 0 /\ angle = [s \in Servos |-> 0]

OutputsInv ==
  /\ angle \in [Servos -> Byte]
  /\ servo \in [Servos -> 0..MaxAngle]
  /\ led \in [Leds -> [state : {"OFF", "ON", "BLINK"}, counter : 0..BlinkPeriod - 1,
                       on : BOOLEAN]]

TypeInv == BytesInv /\ FlagsInv /\ OutputsInv

\* A servo stands at the angle that is remembered for it, if it may stand there.
Holding(s) ==
  s \in attached /\ MinAngle[s] <= angle[s] /\ angle[s] <= MaxAngle => servo[s] = angle[s]

AllSensible(frames) == \A n \in 1..Len(frames) : LegalFlaps(frames[n]) \/ NoFlaps(frames[n])
Flapless(frames) == \E n \in 1..Len(frames) : NoFlaps(frames[n])

\* So does the flap servo, but for the angle that no flap positions are remembered as.
FlapHolding == Holding("flap") \/ (angle["flap"] = MinAngle["flap"] /\ Flapless(written))

LightsShown ==
  /\ landingGearPos \in {0, 100} => led["gear"].on = (landingGearPos = 100)
  /\ Value(simData[5]) \in {0, 1} => led["parking"].on = (Value(simData[5]) = 1)

\* The angles remembered are those of the frame read last.
ShownInv ==
  /\ Holding("trim")
  /\ lost = 0 /\ AllSensible(written) => FlapHolding
  /\ bytesRead = 5 =>
       /\ angle["trim"] = convertTrimAngle(trimPos)
       /\ lost = 0 /\ AllSensible(written) /\ flapCnt # 0 =>
            convertFlapAngles(flapCnt, flapPos) = {angle["flap"]}
       /\ LightsShown


-----------------------------------------------------------------------------
(* Angles. *)

\* The quotients that the two tables of angles come to.
LEMMA Quotients ==
  ASSUME NEW x \in Int
  PROVE  /\ 19976 <= x /\ x <= 48536 => 49 <= x \div 400 /\ x \div 400 <= 121
         /\ 23000 <= x /\ x <= 45400 => 57 <= x \div 400 /\ x \div 400 <= 113
         /\ x \div 400 \in Int
OBVIOUS

\* A trim angle fits into a char; it is one the servo may take when the trim is a percentage.
LEMMA TrimAngle ==
  ASSUME NEW trim \in Int, -128 <= trim, trim <= 127
  PROVE  /\ convertTrimAngle(trim) \in Int
         /\ 49 <= convertTrimAngle(trim) /\ convertTrimAngle(trim) <= 121
         /\ -100 <= trim /\ trim <= 100 =>
              57 <= convertTrimAngle(trim) /\ convertTrimAngle(trim) <= 113
<1> DEFINE n == (100 - trim) * (MaxAngle - 57) + 57 * 200
           x == 2 * n + 200
<1>1. n = (100 - trim) * 56 + 11400
  BY DEF MaxAngle
<1>2. /\ n \in Int /\ 0 <= n /\ x \in Int /\ x = 2 * n + 200
      /\ 19976 <= x /\ x <= 48536
      /\ -100 <= trim /\ trim <= 100 => 23000 <= x /\ x <= 45400
  <2> HIDE DEF n
  <2>1. QED
    BY <1>1
<1>3. convertTrimAngle(trim) = Round(n, 200)
  BY Zenon DEF convertTrimAngle
<1> HIDE DEF n, x
<1>4. Round(n, 200) = x \div 400
  <2>1. Abs(n) = n /\ Abs(200) = 200 /\ ~(n < 0) /\ ~(200 < 0)
    BY <1>2 DEF Abs
  <2>2. 2 * Abs(n) + Abs(200) = x /\ 2 * Abs(200) = 400
    BY <1>2, <2>1
  <2>3. Round(n, 200) = (2 * Abs(n) + Abs(200)) \div (2 * Abs(200))
    BY <2>1 DEF Round
  <2>4. QED
    BY <2>2, <2>3, Zenon
<1>5. QED
  BY <1>2, <1>3, <1>4, Quotients

\* A rounded quotient is an integer.
LEMMA RoundType ==
  ASSUME NEW n \in Int, NEW d \in Int, d # 0
  PROVE  Round(n, d) \in Int
<1>1. Abs(n) \in Nat /\ Abs(d) \in Nat \ {0}
  BY DEF Abs
<1>2. 2 * Abs(n) + Abs(d) \in Int /\ 2 * Abs(d) \in Nat \ {0}
  BY <1>1
<1> DEFINE a == 2 * Abs(n) + Abs(d)
           b == 2 * Abs(d)
<1>3. a \div b \in Int
  <2> HIDE DEF a, b
  <2>1. a \in Int /\ b \in Nat \ {0}
    BY <1>2 DEF a, b
  <2>2. QED
    BY <2>1
<1>4. QED
  BY <1>3 DEF Round

\* A quotient less than the end of the range.
LEMMA QuotientBound ==
  ASSUME NEW a \in Nat, NEW b \in Nat \ {0}, NEW m \in Nat, a < (m + 1) * b
  PROVE  a \div b \in 0..m
<1> DEFINE q == a \div b
<1>1. q \in Nat /\ q * b <= a
  OBVIOUS
<1> HIDE DEF q
<1>2. ASSUME q > m PROVE FALSE
  <2>1. PICK r \in Nat : q = (m + 1) + r
    <3>1. q - (m + 1) \in Nat /\ q = (m + 1) + (q - (m + 1))
      BY <1>1, <1>2
    <3>2. QED
      BY <3>1
  <2>2. q * b = (m + 1) * b + r * b
    BY <2>1
  <2>3. r * b \in Nat /\ (m + 1) * b \in Nat
    OBVIOUS
  <2>4. QED
    BY <1>1, <2>2, <2>3
<1>3. QED
  BY <1>1, <1>2 DEF q

\* The flap angle of a frame that makes sense is one and within the range of the servo.
LEMMA FlapAngle ==
  ASSUME NEW cnt \in Int, NEW pos \in Int
  PROVE  /\ convertFlapAngles(cnt, pos) \subseteq Int
         /\ cnt > 0 /\ pos \in 0..cnt =>
              \E a \in 64..113 : convertFlapAngles(cnt, pos) = {a}
<1>1. MaxAngle - MinAngle["flap"] = 49 /\ MinAngle["flap"] = 64
  BY DEF MaxAngle, MinAngle
<1>2. CASE cnt = 0
  <2>1. convertFlapAngles(cnt, pos) = {cast + MinAngle["flap"] : cast \in UndefinedCasts}
    BY <1>2, Zenon DEF convertFlapAngles
  <2>2. QED
    BY <1>1, <1>2, <2>1 DEF UndefinedCasts
<1>3. CASE cnt # 0
  <2>1. convertFlapAngles(cnt, pos) = {Round(pos * 49, cnt) + 64}
    BY <1>1, <1>3, Zenon DEF convertFlapAngles
  <2>2. Round(pos * 49, cnt) \in Int
    BY <1>3, RoundType
  <2>3. ASSUME cnt > 0, pos \in 0..cnt PROVE Round(pos * 49, cnt) \in 0..49
    <3> DEFINE a == 2 * (pos * 49) + cnt
               b == 2 * cnt
    <3>1. a \in Nat /\ b \in Nat \ {0} /\ a < (49 + 1) * b
      BY <2>3
    <3>2. Round(pos * 49, cnt) = a \div b
      BY <2>3 DEF Round, Abs
    <3> HIDE DEF a, b
    <3>3. a \div b \in 0..49
      BY <3>1, QuotientBound
    <3>4. QED
      BY <3>2, <3>3, Zenon
  <2>4. cnt > 0 /\ pos \in 0..cnt => Round(pos * 49, cnt) + 64 \in 64..113
    BY <2>3
  <2>5. QED
    BY <2>1, <2>2, <2>4
<1>4. QED
  BY <1>2, <1>3

\* A char keeps the angles that fit into it.
LEMMA CharType ==
  ASSUME NEW n \in Int
  PROVE  ToChar(n) \in Byte /\ (-128 <= n /\ n <= 127 => ToChar(n) = n)
BY DEF ToChar, Byte

\* Without flap positions either outcome of the cast is remembered as the lowest angle.
LEMMA NoFlapAngle ==
  ASSUME NEW pos, NEW a \in convertFlapAngles(0, pos)
  PROVE  a \in Int /\ ToChar(a) = 64 /\ (a \in Byte => a = 64)
<1>1. a = 0 + 64 \/ a = -32768 + 64
  BY DEF convertFlapAngles, UndefinedCasts, MinAngle
<1>2. QED
  BY <1>1 DEF ToChar, Byte


-----------------------------------------------------------------------------
(* The values of the bytes. *)

\* The i-th value of `data`, by what `frames` holds.
ValueOf(data, frames, i) ==
  IF data[i] = NoByte THEN 0 ELSE frames[data[i][1]][data[i][2]]

\* A signed byte as a number.
LEMMA ByteRange ==
  ASSUME NEW x \in Byte
  PROVE  x \in Int /\ -128 <= x /\ x <= 127
BY DEF Byte

\* What the Uno works on are the values of its five bytes.
LEMMA ValuesNow ==
  /\ trimPos = ValueOf(simData, written, 1)
  /\ flapCnt = ValueOf(simData, written, 2)
  /\ flapPos = ValueOf(simData, written, 3)
  /\ landingGearPos = ValueOf(simData, written, 4)
  /\ Value(simData[5]) = ValueOf(simData, written, 5)
BY Zenon DEF ValueOf, trimPos, flapCnt, flapPos, landingGearPos, Value

\* The same after a step.
LEMMA ValuesNext ==
  /\ trimPos' = ValueOf(simData', written', 1)
  /\ flapCnt' = ValueOf(simData', written', 2)
  /\ flapPos' = ValueOf(simData', written', 3)
  /\ landingGearPos' = ValueOf(simData', written', 4)
  /\ Value(simData[5])' = ValueOf(simData', written', 5)
BY Zenon DEF ValueOf, trimPos, flapCnt, flapPos, landingGearPos, Value

\* The value of a byte, sent or never received, is a signed byte.
LEMMA ValueType ==
  ASSUME NEW frames \in Seq(Frames), NEW i \in 1..5,
         NEW data \in [1..5 -> BytesOf(Len(frames)) \cup {NoByte}]
  PROVE  /\ ValueOf(data, frames, i) \in Int
         /\ -128 <= ValueOf(data, frames, i) /\ ValueOf(data, frames, i) <= 127
<1>1. CASE data[i] = NoByte
  BY <1>1 DEF ValueOf
<1>2. CASE data[i] # NoByte
  <2>1. data[i] \in BytesOf(Len(frames))
    BY <1>2
  <2>2. data[i][1] \in 1..Len(frames) /\ data[i][2] \in 1..5
    BY <2>1 DEF BytesOf
  <2>3. frames[data[i][1]] \in [1..5 -> Byte]
    BY <2>2, PanelAssumption
  <2>4. frames[data[i][1]][data[i][2]] \in Byte
    BY <2>2, <2>3
  <2>5. ValueOf(data, frames, i) = frames[data[i][1]][data[i][2]]
    BY <1>2 DEF ValueOf
  <2>6. QED
    BY <2>4, <2>5, ByteRange, Zenon
<1>3. QED
  BY <1>1, <1>2

\* A frame more does not change the values of the bytes of earlier ones.
LEMMA ValueKept ==
  ASSUME NEW frames \in Seq(Frames), NEW more \in Seq(Frames), NEW i \in 1..5,
         NEW data \in [1..5 -> BytesOf(Len(frames)) \cup {NoByte}],
         \A n \in 1..Len(frames) : more[n] = frames[n]
  PROVE  ValueOf(data, more, i) = ValueOf(data, frames, i)
<1>1. data[i] # NoByte => data[i][1] \in 1..Len(frames)
  <2>1. data[i] # NoByte => data[i] \in BytesOf(Len(frames))
    OBVIOUS
  <2>2. QED
    BY <2>1 DEF BytesOf
<1>2. QED
  BY <1>1 DEF ValueOf

-----------------------------------------------------------------------------
(* Servos and lights. *)

\* UpdateServo remembers the angle, and writes it when it may.
LEMMA ServoMoved ==
  ASSUME OutputsInv, NEW wanted, UpdateServos(wanted), NEW s \in Servos,
         wanted[s] \in Int
  PROVE  /\ angle'[s] \in Byte /\ servo'[s] \in 0..MaxAngle
         /\ -128 <= wanted[s] /\ wanted[s] <= 127 => angle'[s] = wanted[s]
         /\ -128 <= wanted[s] /\ wanted[s] <= 127 /\ Holding(s) /\ UNCHANGED attached =>
              Holding(s)'
         /\ /\ -128 <= wanted[s] /\ wanted[s] <= 127
            /\ wanted[s] # angle[s] /\ UNCHANGED attached
            => Holding(s)'
<1>1. /\ angle'[s] = IF wanted[s] # angle[s] THEN ToChar(wanted[s]) ELSE angle[s]
      /\ servo'[s] = IF wanted[s] # angle[s] /\ ServoAccepts(s, wanted[s])
                     THEN wanted[s] ELSE servo[s]
  BY Zenon DEF UpdateServos
<1>2. angle[s] \in Byte /\ servo[s] \in 0..MaxAngle
  BY DEF OutputsInv
<1>3. angle'[s] \in Byte
  BY <1>1, <1>2, CharType
<1>4. servo'[s] \in 0..MaxAngle
  <2>1. MinAngle[s] \in Nat
    BY DEF Servos, MinAngle
  <2>2. ServoAccepts(s, wanted[s]) => wanted[s] \in 0..MaxAngle
    BY <2>1 DEF ServoAccepts, MaxAngle
  <2>3. QED
    BY <1>1, <1>2, <2>2
<1>5. -128 <= wanted[s] /\ wanted[s] <= 127 => angle'[s] = wanted[s]
  BY <1>1, CharType
<1>6. ASSUME -128 <= wanted[s], wanted[s] <= 127, Holding(s), UNCHANGED attached
      PROVE  Holding(s)'
  <2>1. angle'[s] = wanted[s]
    BY <1>5, <1>6
  <2>2. SUFFICES ASSUME s \in attached, MinAngle[s] <= wanted[s], wanted[s] <= MaxAngle
                 PROVE  servo'[s] = wanted[s]
    BY <1>6, <2>1, Zenon DEF Holding, MinAngle, MaxAngle
  <2>3. ServoAccepts(s, wanted[s])
    BY <2>2, Zenon DEF ServoAccepts
  <2>4. wanted[s] = angle[s] => servo[s] = angle[s]
    BY <1>6, <2>2, Zenon DEF Holding
  <2>5. QED
    BY <1>1, <2>3, <2>4
<1>7. ASSUME -128 <= wanted[s], wanted[s] <= 127, wanted[s] # angle[s], UNCHANGED attached
      PROVE  Holding(s)'
  <2>1. angle'[s] = wanted[s]
    BY <1>5, <1>7
  <2>2. SUFFICES ASSUME s \in attached, MinAngle[s] <= wanted[s], wanted[s] <= MaxAngle
                 PROVE  servo'[s] = wanted[s]
    BY <1>7, <2>1, Zenon DEF Holding, MinAngle, MaxAngle
  <2>3. ServoAccepts(s, wanted[s])
    BY <2>2, Zenon DEF ServoAccepts
  <2>4. QED
    BY <1>1, <1>7, <2>3, Zenon
<1>8. QED
  BY <1>3, <1>4, <1>5, <1>6, <1>7

LedStates == {"OFF", "ON", "BLINK"}
LedType == [state : LedStates, counter : 0..BlinkPeriod - 1, on : BOOLEAN]

\* An update turns a light on or off as its state says, unless it blinks.
LEMMA LedUpdated ==
  ASSUME NEW l \in LedType, NEW state \in LedStates
  PROVE  /\ LedUpdate(l, state) \in LedType
         /\ state # "BLINK" => LedUpdate(l, state).on = (state = "ON")
<1>1. BlinkPeriod \in Nat /\ BlinkPeriod > 1
  BY PanelAssumption
<1> DEFINE start == IF state = "BLINK" /\ l.state # "BLINK" THEN 0 ELSE l.counter
           counter == IF state = "BLINK" THEN (start + 1) % BlinkPeriod ELSE start
           on == state = "ON" \/ (state = "BLINK" /\ counter < BlinkPeriod \div 2)
<1>2. LedUpdate(l, state) = [state |-> state, counter |-> counter, on |-> on]
  BY Zenon DEF LedUpdate
<1>3. counter \in 0..BlinkPeriod - 1
  <2>1. start \in 0..BlinkPeriod - 1
    BY <1>1 DEF LedType
  <2> HIDE DEF start
  <2>2. (start + 1) % BlinkPeriod \in 0..BlinkPeriod - 1
    BY <1>1, <2>1
  <2>3. QED
    BY <2>1, <2>2
<1>4. on \in BOOLEAN /\ (state # "BLINK" => on = (state = "ON"))
  <2> HIDE DEF counter
  <2>1. QED
    BY Zenon
<1> HIDE DEF counter, on
<1>5. QED
  BY <1>2, <1>3, <1>4 DEF LedType


\* After an update the lights are those of the frame.
LEMMA LightsUpdated ==
  ASSUME OutputsInv, UpdateLed
  PROVE  /\ led' \in [Leds -> LedType]
         /\ LightsShown'
<1>1. PICK parking \in ParkingLightStates' :
        led' = [parking |-> LedUpdate(led["parking"], parking),
                gear    |-> LedUpdate(led["gear"], GearLightState')]
  BY Zenon DEF UpdateLed
<1>2. led["parking"] \in LedType /\ led["gear"] \in LedType
  BY DEF OutputsInv, Leds, LedType, LedStates
<1>3. /\ GearLightState' \in LedStates
      /\ landingGearPos' = 0 => GearLightState' = "OFF"
      /\ landingGearPos' = 100 => GearLightState' = "ON"
  BY DEF GearLightState, LedStates
<1>4. /\ parking \in {"OFF", "ON"}
      /\ Value(simData[5])' = 0 => parking = "OFF"
      /\ Value(simData[5])' = 1 => parking = "ON"
  BY DEF ParkingLightStates
<1> DEFINE p == LedUpdate(led["parking"], parking)
           g == LedUpdate(led["gear"], GearLightState')
<1>5. /\ p \in LedType /\ p.on = (parking = "ON")
      /\ g \in LedType /\ (GearLightState' # "BLINK" => g.on = (GearLightState' = "ON"))
  <2>1. parking \in LedStates /\ parking # "BLINK"
    BY <1>4 DEF LedStates
  <2>2. p \in LedType /\ p.on = (parking = "ON")
    BY <1>2, <2>1, LedUpdated, Zenon
  <2>3. g \in LedType /\ (GearLightState' # "BLINK" => g.on = (GearLightState' = "ON"))
    BY <1>2, <1>3, LedUpdated, Zenon
  <2>4. QED
    BY <2>2, <2>3, Zenon
<1>6. led' = [parking |-> p, gear |-> g]
  BY <1>1, Zenon
<1> HIDE DEF p, g
<1>7. led' \in [Leds -> LedType] /\ led'["parking"] = p /\ led'["gear"] = g
  BY <1>5, <1>6 DEF Leds
<1>8. ASSUME landingGearPos' \in {0, 100} PROVE g.on = (landingGearPos' = 100)
  <2>1. CASE landingGearPos' = 0
    <3>1. g.on = ("OFF" = "ON") /\ landingGearPos' # 100
      BY <1>3, <1>5, <2>1
    <3>2. QED
      BY <3>1
  <2>2. CASE landingGearPos' = 100
    <3>1. g.on = ("ON" = "ON")
      BY <1>3, <1>5, <2>2
    <3>2. QED
      BY <2>2, <3>1
  <2>3. QED
    BY <1>8, <2>1, <2>2
<1>9. ASSUME Value(simData[5])' \in {0, 1} PROVE p.on = (Value(simData[5])' = 1)
  <2>1. CASE Value(simData[5])' = 0
    <3>1. p.on = ("OFF" = "ON") /\ Value(simData[5])' # 1
      BY <1>4, <1>5, <2>1
    <3>2. QED
      BY <3>1
  <2>2. CASE Value(simData[5])' = 1
    <3>1. p.on = ("ON" = "ON")
      BY <1>4, <1>5, <2>2
    <3>2. QED
      BY <2>2, <3>1
  <2>3. QED
    BY <1>9, <2>1, <2>2
<1>10. QED
  BY <1>7, <1>8, <1>9, Zenon DEF LightsShown

\* A frame that makes sense sends the flap servo to an angle that it takes, or it has no
\* flap positions.
LEMMA SensibleFlap ==
  ASSUME NEW frames \in Seq(Frames), AllSensible(frames),
         NEW data, WholeFrame(data, Len(frames))
  PROVE  /\ ValueOf(data, frames, 2) = 0 => Flapless(frames)
         /\ ValueOf(data, frames, 2) # 0 =>
              \E a \in 64..113 :
                convertFlapAngles(ValueOf(data, frames, 2), ValueOf(data, frames, 3)) = {a}
<1> DEFINE cnt == ValueOf(data, frames, 2)
           pos == ValueOf(data, frames, 3)
<1>1. PICK n \in 1..Len(frames) : IsFrame(data, n)
  BY DEF WholeFrame
<1>2. data[2] = <<n, 2>> /\ data[3] = <<n, 3>>
  BY <1>1 DEF IsFrame
<1>3. n # 0 /\ frames[n] \in [1..5 -> Byte]
  BY PanelAssumption
<1>4. cnt = frames[n][2] /\ pos = frames[n][3]
  BY <1>2, <1>3 DEF ValueOf, NoByte
<1> HIDE DEF cnt, pos
<1>5. cnt = 0 => Flapless(frames)
  BY <1>4 DEF Flapless, NoFlaps
<1>6. cnt # 0 => cnt > 0 /\ pos \in 0..cnt
  BY <1>4 DEF AllSensible, LegalFlaps, NoFlaps
<1>7. cnt \in Int /\ pos \in Int
  <2>1. frames[n][2] \in Byte /\ frames[n][3] \in Byte
    BY <1>3
  <2>2. QED
    BY <1>4, <2>1, ByteRange
<1>8. cnt # 0 => \E a \in 64..113 : convertFlapAngles(cnt, pos) = {a}
  BY <1>6, <1>7, FlapAngle
<1>9. QED
  BY <1>5, <1>8 DEF cnt, pos

\* After a turn of the loop the panel shows what was read last.
LEMMA InstrumentsUpdated ==
  ASSUME OutputsInv, ShownInv, UpdateInstruments, BytesInv',
         UNCHANGED <<written, attached, lost>>,
         lost' = 0 /\ bytesRead' = 5 => WholeFrame(simData', Len(written'))
  PROVE  OutputsInv' /\ ShownInv'
<1>1. CASE bytesRead' = 5
  <2>1. PICK flap \in convertFlapAngles(flapCnt', flapPos') :
          UpdateServos([trim |-> convertTrimAngle(trimPos'), flap |-> flap])
    BY <1>1, Zenon DEF UpdateInstruments, bufSize
  <2> DEFINE t == convertTrimAngle(trimPos')
             wanted == [trim |-> t, flap |-> flap]
  <2>2. led' \in [Leds -> LedType] /\ LightsShown'
    <3>1. UpdateLed
      BY <1>1, Zenon DEF UpdateInstruments, bufSize
    <3>2. QED
      BY <3>1, LightsUpdated
  <2>3. /\ trimPos' \in Int /\ -128 <= trimPos' /\ trimPos' <= 127
        /\ flapCnt' \in Int /\ flapPos' \in Int
    <3>1. /\ written' \in Seq(Frames)
          /\ simData' \in [1..5 -> BytesOf(Len(written')) \cup {NoByte}]
      BY DEF BytesInv
    <3>2. /\ ValueOf(simData', written', 1) \in Int
          /\ -128 <= ValueOf(simData', written', 1) /\ ValueOf(simData', written', 1) <= 127
          /\ ValueOf(simData', written', 2) \in Int
          /\ ValueOf(simData', written', 3) \in Int
      BY <3>1, ValueType
    <3>3. QED
      BY <3>2, ValuesNext, Zenon
  <2>4. t \in Int /\ -128 <= t /\ t <= 127 /\ flap \in Int
    <3>1. t \in Int /\ 49 <= t /\ t <= 121
      BY <2>3, TrimAngle
    <3> HIDE DEF t
    <3>2. flap \in Int
      BY <2>3, FlapAngle
    <3>3. QED
      BY <3>1, <3>2
  <2>5. UpdateServos(wanted) /\ wanted["trim"] = t /\ wanted["flap"] = flap
    BY <2>1
  <2> HIDE DEF t, wanted
  <2>6. /\ "trim" \in Servos /\ "flap" \in Servos
        /\ wanted["trim"] \in Int /\ wanted["flap"] \in Int
    BY <2>4, <2>5 DEF Servos
  <2>7. OutputsInv'
    <3>1. \A s \in Servos : angle'[s] \in Byte /\ servo'[s] \in 0..MaxAngle
      <4>1. \A s \in Servos : wanted[s] \in Int
        BY <2>6 DEF Servos
      <4>2. QED
        BY <2>5, <4>1, ServoMoved
    <3>2. /\ angle' = [s \in Servos |-> angle'[s]] /\ servo' = [s \in Servos |-> servo'[s]]
      BY <2>5 DEF UpdateServos
    <3>3. angle' \in [Servos -> Byte] /\ servo' \in [Servos -> 0..MaxAngle]
      BY <3>1, <3>2, Zenon
    <3>4. QED
      BY <2>2, <3>3, Zenon DEF OutputsInv, LedType, LedStates
  <2>8. angle'["trim"] = t /\ Holding("trim")'
    <3>1. Holding("trim") /\ UNCHANGED attached
      BY DEF ShownInv
    <3>2. -128 <= wanted["trim"] /\ wanted["trim"] <= 127
      BY <2>4, <2>5
    <3>3. QED
      BY <2>5, <2>6, <3>1, <3>2, ServoMoved
  <2>9. ASSUME lost' = 0, AllSensible(written')
        PROVE  /\ FlapHolding'
               /\ flapCnt' # 0 => convertFlapAngles(flapCnt', flapPos') = {angle'["flap"]}
    <3>1. FlapHolding /\ UNCHANGED <<attached, written>>
      BY <2>9 DEF ShownInv
    <3>2. /\ flapCnt' = 0 => Flapless(written')
          /\ flapCnt' # 0 => \E a \in 64..113 : convertFlapAngles(flapCnt', flapPos') = {a}
      <4>1. written' \in Seq(Frames) /\ WholeFrame(simData', Len(written'))
        BY <1>1, <2>9 DEF BytesInv
      <4>2. /\ ValueOf(simData', written', 2) = 0 => Flapless(written')
            /\ ValueOf(simData', written', 2) # 0 =>
                 \E a \in 64..113 :
                   convertFlapAngles(ValueOf(simData', written', 2),
                                     ValueOf(simData', written', 3)) = {a}
        BY <2>9, <4>1, SensibleFlap
      <4>3. QED
        BY <4>2, ValuesNext, Zenon
    <3>3. MinAngle["flap"] = 64
      BY DEF MinAngle
    <3>4. CASE flapCnt' = 0
      <4>1. flap \in Int /\ ToChar(flap) = 64 /\ (flap \in Byte => flap = 64)
        BY <2>1, <3>4, NoFlapAngle
      <4>2. /\ angle["flap"] \in Byte
            /\ angle'["flap"] = IF flap # angle["flap"] THEN ToChar(flap) ELSE angle["flap"]
        BY <2>5, <2>6, Zenon DEF OutputsInv, UpdateServos
      <4>3. angle'["flap"] = 64
        BY <4>1, <4>2
      <4>4. QED
        BY <3>2, <3>3, <3>4, <4>3, Zenon DEF FlapHolding, MinAngle
    <3>5. CASE flapCnt' # 0
      <4>1. PICK a \in 64..113 : convertFlapAngles(flapCnt', flapPos') = {a}
        BY <3>2, <3>5, Zenon
      <4>2. flap = a /\ -128 <= a /\ a <= 127
        BY <2>1, <4>1
      <4>3. -128 <= wanted["flap"] /\ wanted["flap"] <= 127
        BY <2>5, <4>2
      <4>4. angle'["flap"] = flap
        BY <2>5, <2>6, <4>3, ServoMoved
      <4>5. CASE Holding("flap") \/ flap # angle["flap"]
        <5>1. Holding("flap")'
          BY <2>5, <2>6, <3>1, <4>3, <4>5, ServoMoved
        <5>2. QED
          BY <4>1, <4>2, <4>4, <5>1, Zenon DEF FlapHolding
      <4>6. CASE ~Holding("flap") /\ flap = angle["flap"]
        <5>1. angle'["flap"] = MinAngle["flap"] /\ Flapless(written')
          BY <3>1, <4>4, <4>6, Zenon DEF FlapHolding
        <5>2. QED
          BY <4>1, <4>2, <4>4, <5>1, Zenon DEF FlapHolding, MinAngle
      <4>7. QED
        BY <4>5, <4>6, Zenon
    <3>6. QED
      BY <3>4, <3>5, Zenon
  <2>10. angle'["trim"] = convertTrimAngle(trimPos')
    BY <2>8 DEF t
  <2>11. QED
    BY <1>1, <2>2, <2>7, <2>8, <2>9, <2>10, Zenon DEF ShownInv
<1>2. CASE bytesRead' # 5
  <2>1. UNCHANGED <<angle, servo, led>>
    BY <1>2 DEF UpdateInstruments, bufSize, servoVars
  <2>2. OutputsInv'
    BY <2>1, Zenon DEF OutputsInv
  <2>3. Holding("trim")' /\ (lost' = 0 /\ AllSensible(written') => FlapHolding')
    BY <2>1, Zenon DEF ShownInv, Holding, FlapHolding
  <2>4. QED
    BY <1>2, <2>2, <2>3, Zenon DEF ShownInv
<1>3. QED
  BY <1>1, <1>2


\* What does not touch the Uno changes nothing of what it shows.
LEMMA InstrumentsKept ==
  ASSUME BytesInv, BytesInv', ShownInv,
         UNCHANGED <<attached, simData, bytesRead, angle, servo, led>>,
         lost' = 0 => lost = 0,
         Len(written) <= Len(written'),
         \A n \in 1..Len(written) : written'[n] = written[n]
  PROVE  ShownInv'
<1> DEFINE V(i) == ValueOf(simData, written, i)
           W(i) == ValueOf(simData', written', i)
<1>1. \A i \in 1..5 : W(i) = V(i)
  <2>1. /\ written \in Seq(Frames) /\ written' \in Seq(Frames) /\ simData' = simData
        /\ simData \in [1..5 -> BytesOf(Len(written)) \cup {NoByte}]
    BY DEF BytesInv
  <2>2. \A i \in 1..5 : ValueOf(simData, written', i) = ValueOf(simData, written, i)
    BY <2>1, ValueKept
  <2>3. QED
    BY <2>1, <2>2, Zenon
<1> HIDE DEF V, W
<1>2. W(1) = V(1) /\ W(2) = V(2) /\ W(3) = V(3) /\ W(4) = V(4) /\ W(5) = V(5)
  BY <1>1
<1>3. /\ trimPos' = trimPos /\ flapCnt' = flapCnt /\ flapPos' = flapPos
      /\ landingGearPos' = landingGearPos /\ Value(simData[5])' = Value(simData[5])
  BY <1>2, ValuesNow, ValuesNext, Zenon DEF V, W
<1>4. /\ AllSensible(written') => AllSensible(written)
      /\ Flapless(written) => Flapless(written')
  <2>1. Len(written) \in Nat /\ Len(written') \in Nat
    BY DEF BytesInv
  <2>2. \A n \in 1..Len(written) : n \in 1..Len(written')
    BY <2>1
  <2>3. QED
    BY <2>2, Zenon DEF AllSensible, Flapless
<1>5. \A s \in Servos : Holding(s) => Holding(s)'
  BY Zenon DEF Holding
<1>6. LightsShown => LightsShown'
  BY <1>3, Zenon DEF LightsShown
<1>7. "trim" \in Servos /\ "flap" \in Servos
  BY DEF Servos
<1>8. QED
  <2>1. FlapHolding => FlapHolding'
    BY <1>4, <1>5, <1>7, Zenon DEF FlapHolding
  <2>2. QED
    BY <1>3, <1>4, <1>5, <1>6, <1>7, <2>1, Zenon DEF ShownInv

-----------------------------------------------------------------------------
(* The bytes in the buffers. *)

\* A sequence over S is one over a larger set.
LEMMA SeqOfMore ==
  ASSUME NEW S, NEW T, S \subseteq T, NEW s \in Seq(S)
  PROVE  s \in Seq(T)
<1>1. Len(s) \in Nat /\ s = [i \in 1..Len(s) |-> s[i]] /\ \A i \in 1..Len(s) : s[i] \in T
  OBVIOUS
<1>2. QED
  BY <1>1

\* Sequences of length n are functions on 1..n.
LEMMA SeqOfLength ==
  ASSUME NEW S, NEW n \in Nat
  PROVE  /\ \A t \in Seq(S) : Len(t) = n => t \in [1..n -> S]
         /\ \A t \in [1..n -> S] : t \in Seq(S) /\ Len(t) = n
OBVIOUS

\* Frames are sequences of length five.
LEMMA SeqOfFive ==
  ASSUME NEW S
  PROVE  /\ \A t \in Seq(S) : Len(t) = 5 => t \in [1..5 -> S]
         /\ \A t \in [1..5 -> S] : t \in Seq(S) /\ Len(t) = 5
<1>1. 5 \in Nat
  OBVIOUS
<1>2. QED
  BY <1>1, SeqOfLength, Zenon

\* readBytes leaves in simData what it does not overwrite.
LEMMA PartialRead ==
  ASSUME NEW S, NEW r \in Seq(S), NEW d \in [1..5 -> S], Len(r) < 5
  PROVE  r \o SubSeq(d, Len(r) + 1, 5) \in [1..5 -> S]
<1>1. Len(r) \in Nat
  OBVIOUS
<1>2. d \in Seq(S) /\ Len(d) = 5
  BY SeqOfFive, Zenon
<1> DEFINE m == Len(r) + 1
<1>3. m \in Nat /\ 1 <= m /\ m <= 5
  BY <1>1
<1> HIDE DEF m
<1>4. SubSeq(d, m, 5) \in Seq(S) /\ Len(SubSeq(d, m, 5)) = 6 - m
  <2>1. \A i \in m..5 : d[i] \in S
    BY <1>2, <1>3
  <2>2. /\ SubSeq(d, m, 5) \in Seq(S)
        /\ Len(SubSeq(d, m, 5)) = IF m <= 5 THEN 5 - m + 1 ELSE 0
    BY <1>3, <2>1, SubSeqProperties
  <2>3. QED
    BY <1>3, <2>2
<1>5. /\ r \o SubSeq(d, m, 5) \in Seq(S)
      /\ Len(r \o SubSeq(d, m, 5)) = Len(r) + Len(SubSeq(d, m, 5))
  BY <1>4, ConcatProperties, Zenon
<1>6. Len(r \o SubSeq(d, m, 5)) = 5
  BY <1>1, <1>4, <1>5 DEF m
<1> DEFINE t == r \o SubSeq(d, m, 5)
<1>7. t \in Seq(S) /\ Len(t) = 5
  BY <1>5, <1>6, Zenon
<1> HIDE DEF t
<1>8. t \in [1..5 -> S]
  BY <1>7, SeqOfFive, Zenon
<1>9. QED
  BY <1>8, Zenon DEF t, m

\* A whole read takes five bytes and leaves the others.
LEMMA WholeRead ==
  ASSUME NEW S, NEW r \in Seq(S), Len(r) >= 5
  PROVE  /\ SubSeq(r, 1, 5) \in [1..5 -> S]
         /\ Rest(r) \in Seq(S) /\ Len(Rest(r)) <= Len(r)
<1>1. Len(r) \in Nat
  OBVIOUS
<1>2. SubSeq(r, 1, 5) \in Seq(S) /\ Len(SubSeq(r, 1, 5)) = 5
  <2>1. \A i \in 1..5 : r[i] \in S
    BY <1>1, ElementOfSeq
  <2>2. /\ SubSeq(r, 1, 5) \in Seq(S)
        /\ Len(SubSeq(r, 1, 5)) = IF 1 <= 5 THEN 5 - 1 + 1 ELSE 0
    BY <2>1, SubSeqProperties
  <2>3. QED
    BY <2>2
<1>3. Rest(r) \in Seq(S) /\ Len(Rest(r)) = Len(r) - 5
  <2>1. \A i \in 6..Len(r) : r[i] \in S
    BY <1>1, ElementOfSeq
  <2>2. PICK last \in Int : last = Len(r)
    BY <1>1
  <2>3. /\ SubSeq(r, 6, last) \in Seq(S)
        /\ Len(SubSeq(r, 6, last)) = IF 6 <= last THEN last - 6 + 1 ELSE 0
    BY <2>1, <2>2, SubSeqProperties
  <2>4. Rest(r) = SubSeq(r, 6, last)
    BY <2>2, Zenon DEF Rest
  <2>5. Rest(r) \in Seq(S) /\ Len(Rest(r)) = IF 6 <= last THEN last - 6 + 1 ELSE 0
    BY <2>3, <2>4, Zenon
  <2>6. QED
    BY <1>1, <2>2, <2>5
<1> DEFINE t == SubSeq(r, 1, 5)
<1> HIDE DEF t
<1>4. t \in Seq(S) /\ Len(t) = 5
  BY <1>2 DEF t
<1>5. t \in [1..5 -> S]
  BY <1>4, SeqOfFive, Zenon
<1>6. QED
  BY <1>1, <1>3, <1>5 DEF t


\* Every step keeps the types of the bytes.
LEMMA BytesStep ==
  ASSUME BytesInv, Next
  PROVE  BytesInv'
<1> DEFINE B == BytesOf(Len(written))
<1>t. /\ written \in Seq(Frames) /\ Len(written) \in Nat
      /\ wire \in Seq(B) /\ rx \in Seq(B)
      /\ simData \in [1..5 -> B \cup {NoByte}]
      /\ Len(rx) \in Nat /\ Len(rx) <= BufferSize /\ BufferSize \in Nat
  BY PanelAssumption DEF BytesInv
<1> HIDE DEF B
<1>1. CASE WriteFrame
  <2> DEFINE n == Len(written) + 1
             C == BytesOf(n)
             frame == [i \in 1..5 |-> <<n, i>>]
  <2>1. /\ written' \in Seq(Frames) /\ Len(written') = n
        /\ wire' = wire \o frame
        /\ UNCHANGED <<rx, simData>>
    <3>1. PICK f \in Frames : written' = Append(written, f)
      BY <1>1 DEF WriteFrame
    <3>2. written' \in Seq(Frames) /\ Len(written') = n
      BY <1>t, <3>1, AppendProperties
    <3>3. QED
      BY <1>1, <3>2 DEF WriteFrame, bufSize, unoVars
  <2>2. B \subseteq C
    BY <1>t DEF B, BytesOf
  <2>3. frame \in Seq(C)
    <3>1. \A i \in 1..5 : <<n, i>> \in C
      BY <1>t DEF BytesOf
    <3> HIDE DEF C, n
    <3>2. frame \in [1..5 -> C]
      BY <3>1
    <3> HIDE DEF frame
    <3>3. QED
      BY <3>2, SeqOfFive, Zenon
  <2> HIDE DEF frame, C
  <2>4. wire' \in Seq(C)
    <3>1. wire \in Seq(C)
      BY <1>t, <2>2, SeqOfMore, Zenon
    <3>2. wire \o frame \in Seq(C)
      BY <2>3, <3>1, ConcatProperties, Zenon
    <3>3. QED
      BY <2>1, <3>2
  <2>5. rx \in Seq(C)
    BY <1>t, <2>2, SeqOfMore, Zenon
  <2>6. simData \in [1..5 -> C \cup {NoByte}]
    BY <1>t, <2>2
  <2>7. C = BytesOf(Len(written'))
    BY <2>1, Zenon DEF C
  <2>8. QED
    BY <1>t, <2>1, <2>4, <2>5, <2>6, <2>7, Zenon DEF BytesInv
<1>2. CASE PortDies
  <2>1. PICK kept \in 0..Len(wire) : wire' = SubSeq(wire, 1, kept)
    BY <1>2 DEF PortDies
  <2>2. UNCHANGED <<written, rx, simData>>
    BY <1>2 DEF PortDies, unoVars
  <2>3. wire' \in Seq(B)
    BY <1>t, <2>1, ElementOfSeq, SubSeqProperties
  <2>4. QED
    BY <1>t, <2>2, <2>3, Zenon DEF BytesInv, B
<1>3. CASE Deliver \/ LoseByte
  <2>1. wire # <<>> /\ wire' = Tail(wire) /\ UNCHANGED <<written, simData>>
    BY <1>3 DEF Deliver, LoseByte, portVars, unoVars
  <2>2. wire' \in Seq(B) /\ Head(wire) \in B
    BY <1>t, <2>1, HeadTailProperties
  <2>3. rx' = rx \/ (Len(rx) < BufferSize /\ rx' = Append(rx, Head(wire)))
    BY <1>3 DEF Deliver, LoseByte
  <2>4. rx' \in Seq(B) /\ Len(rx') <= BufferSize
    <3>1. Append(rx, Head(wire)) \in Seq(B) /\ Len(Append(rx, Head(wire))) = Len(rx) + 1
      BY <1>t, <2>2, AppendProperties
    <3>2. Len(rx) < BufferSize => Len(Append(rx, Head(wire))) <= BufferSize
      BY <1>t, <3>1
    <3>3. QED
      BY <1>t, <2>3, <3>1, <3>2, Zenon
  <2>5. QED
    BY <1>t, <2>1, <2>2, <2>4, Zenon DEF BytesInv, B
<1>4. CASE ReadBytes
  <2>1. /\ Len(rx) >= 5 /\ simData' = SubSeq(rx, 1, 5) /\ rx' = Rest(rx)
        /\ UNCHANGED <<written, wire>>
    BY <1>4 DEF Rest, ReadBytes, bufSize, portVars
  <2>2. SubSeq(rx, 1, 5) \in [1..5 -> B] /\ Rest(rx) \in Seq(B) /\ Len(Rest(rx)) <= Len(rx)
    BY <1>t, <2>1, WholeRead
  <2>3. simData' \in [1..5 -> B \cup {NoByte}]
    BY <2>1, <2>2
  <2>4. rx' \in Seq(B) /\ Len(rx') <= BufferSize
    <3>1. Len(Rest(rx)) \in Nat
      BY <2>2
    <3>2. Len(Rest(rx)) <= BufferSize
      BY <1>t, <2>2, <3>1
    <3>3. QED
      BY <2>1, <2>2, <3>2, Zenon
  <2>5. QED
    BY <1>t, <2>1, <2>3, <2>4, Zenon DEF BytesInv, B
<1>5. CASE ReadTimeOut
  <2>1. /\ Len(rx) < 5 /\ simData' = rx \o SubSeq(simData, Len(rx) + 1, 5) /\ rx' = <<>>
        /\ UNCHANGED <<written, wire>>
    BY <1>5 DEF ReadTimeOut, bufSize, portVars
  <2> DEFINE D == B \cup {NoByte}
  <2>2. rx \in Seq(D) /\ simData \in [1..5 -> D]
    <3>1. B \subseteq D
      OBVIOUS
    <3> HIDE DEF D
    <3>2. rx \in Seq(D)
      BY <1>t, <3>1, SeqOfMore, Zenon
    <3>3. QED
      BY <1>t, <3>2 DEF D
  <2> HIDE DEF D
  <2>3. simData' \in [1..5 -> D]
    BY <2>1, <2>2, PartialRead
  <2>4. rx' \in Seq(B) /\ Len(rx') <= BufferSize
    <3>1. <<>> \in Seq(B) /\ Len(<<>>) = 0 /\ 0 <= BufferSize
      BY <1>t, EmptySeq
    <3>2. QED
      BY <2>1, <3>1
  <2>5. QED
    BY <1>t, <2>1, <2>3, <2>4, Zenon DEF BytesInv, B, D
<1>6. CASE UNCHANGED <<written, wire, rx, simData>>
  BY <1>6, Zenon DEF BytesInv
<1>7. QED
  BY <1>1, <1>2, <1>3, <1>4, <1>5, <1>6, Zenon
  DEF Next, SerialServer, Uno, OpenPort, IsConnected, WriteFails, Setup, NothingToRead,
      CheckSerial, portVars, unoVars

\* Every step keeps the types of the flags and counters.
LEMMA FlagsStep ==
  ASSUME BytesInv, FlagsInv, Next
  PROVE  FlagsInv'
<1>1. Len(wire) \in Nat /\ Len(rx) \in Nat
  BY DEF BytesInv
<1>2. CASE OpenPort \/ IsConnected \/ WriteFails
  <2>1. UNCHANGED <<portAlive, uno, attached, bytesRead, lost, inStep, angle>>
    BY <1>2, Zenon DEF OpenPort, IsConnected, WriteFails, unoVars, servoVars, lossVars
  <2>2. pc' \in {"check", "write"}
    BY <1>2, Zenon DEF OpenPort, IsConnected, WriteFails
  <2>3. connected' \in BOOLEAN
    BY <1>2 DEF OpenPort, IsConnected, WriteFails, FlagsInv
  <2>4. lateWrites' \in Nat
    <3>1. lateWrites' = lateWrites \/ lateWrites' = lateWrites + 1
      BY <1>2, Zenon DEF OpenPort, IsConnected, WriteFails
    <3>2. lateWrites \in Nat
      BY Zenon DEF FlagsInv
    <3>3. QED
      BY <3>1, <3>2
  <2>5. QED
    BY <2>1, <2>2, <2>3, <2>4 DEF FlagsInv
<1>3. CASE WriteFrame
  BY <1>3 DEF WriteFrame, FlagsInv, unoVars, servoVars, lossVars
<1>4. CASE PortDies
  <2>1. PICK kept \in 0..Len(wire) : /\ lost' = lost + Len(wire) - kept
                                     /\ inStep' = (inStep /\ kept = Len(wire))
    BY <1>4 DEF PortDies
  <2>2. lost' \in Nat /\ (lost' = 0 => lost = 0 /\ kept = Len(wire))
    BY <1>1, <2>1 DEF FlagsInv
  <2>3. /\ portAlive' = FALSE
        /\ UNCHANGED <<pc, connected, uno, attached, bytesRead, lateWrites, angle>>
    BY <1>4 DEF PortDies, unoVars, servoVars
  <2>4. inStep' \in BOOLEAN /\ (lost' = 0 => inStep')
    BY <2>1, <2>2 DEF FlagsInv
  <2>5. QED
    BY <2>2, <2>3, <2>4 DEF FlagsInv
<1>5. CASE Deliver \/ LoseByte
  <2>1. UNCHANGED <<pc, connected, portAlive, lateWrites, uno, attached, bytesRead, angle>>
    BY <1>5, Zenon DEF Deliver, LoseByte, portVars, unoVars, servoVars
  <2>2. UNCHANGED <<lost, inStep>> \/ (lost' = lost + 1 /\ inStep' = FALSE)
    BY <1>5, Zenon DEF Deliver, LoseByte, lossVars
  <2>3. lost' \in Nat /\ inStep' \in BOOLEAN /\ (lost' = 0 => inStep')
    <3>1. lost \in Nat /\ inStep \in BOOLEAN /\ (lost = 0 => inStep)
      BY Zenon DEF FlagsInv
    <3>2. lost + 1 \in Nat /\ lost + 1 # 0
      BY <3>1
    <3>3. QED
      BY <2>2, <3>1, <3>2, Zenon
  <2>4. QED
    BY <2>1, <2>3, Zenon DEF FlagsInv
<1>6. CASE Setup
  BY <1>6, PanelAssumption DEF Setup, FlagsInv, Servos, portVars, servoVars, lossVars
<1>7. CASE NothingToRead
  <2>1. uno = "loop"
    BY <1>7 DEF NothingToRead
  <2>2. UNCHANGED <<pc, connected, portAlive, lateWrites, uno, attached, bytesRead, lost, inStep>>
    BY <1>7, Zenon DEF NothingToRead, portVars, lossVars
  <2>3. QED
    BY <2>1, <2>2 DEF FlagsInv
<1>8. CASE CheckSerial
  BY <1>8 DEF CheckSerial, FlagsInv, portVars, servoVars, lossVars
<1>9. CASE ReadBytes
  <2>1. uno' = "loop" /\ bytesRead' = 5
    BY <1>9, Zenon DEF ReadBytes, bufSize
  <2>2. UNCHANGED <<pc, connected, portAlive, lateWrites, attached, lost, inStep>>
    BY <1>9, Zenon DEF ReadBytes, portVars, lossVars
  <2>3. QED
    BY <2>1, <2>2 DEF FlagsInv
<1>10. CASE ReadTimeOut
  <2>1. uno' = "loop" /\ bytesRead' = Len(rx) /\ Len(rx) < 5 /\ inStep' = TRUE
    BY <1>10, Zenon DEF ReadTimeOut, bufSize
  <2>2. UNCHANGED <<pc, connected, portAlive, lateWrites, attached, lost>>
    BY <1>10, Zenon DEF ReadTimeOut, portVars
  <2>3. QED
    BY <1>1, <2>1, <2>2 DEF FlagsInv
<1>11. QED
  BY <1>2, <1>3, <1>4, <1>5, <1>6, <1>7, <1>8, <1>9, <1>10, Zenon DEF Next, SerialServer, Uno


-----------------------------------------------------------------------------
(* The panel shows the frame read last. *)

PanelInv == TypeInv /\ ShownInv

\* The invariant holds at first.
LEMMA PanelInit == Init => PanelInv
<1> SUFFICES ASSUME Init PROVE PanelInv
  OBVIOUS
<1>1. BytesInv
  <2>1. written = <<>> /\ wire = <<>> /\ rx = <<>> /\ simData = [i \in 1..5 |-> NoByte]
    BY Zenon DEF Init, bufSize
  <2>2. /\ <<>> \in Seq(Frames) /\ <<>> \in Seq(BytesOf(Len(written))) /\ Len(<<>>) = 0
        /\ 0 <= BufferSize
    BY PanelAssumption
  <2>3. simData \in [1..5 -> BytesOf(Len(written)) \cup {NoByte}]
    BY <2>1
  <2>4. QED
    BY <2>1, <2>2, <2>3, Zenon DEF BytesInv
<1>2. FlagsInv
  <2>1. 0 \in Nat /\ 0 \in 0..5
    OBVIOUS
  <2>2. QED
    BY <2>1, Zenon DEF Init, FlagsInv
<1>3. OutputsInv
  <2>1. BlinkPeriod - 1 \in Nat
    BY PanelAssumption
  <2>2. led \in [Leds -> LedType]
    BY <2>1 DEF Init, LedType, LedStates
  <2>3. angle \in [Servos -> Byte] /\ servo \in [Servos -> 0..MaxAngle]
    BY DEF Init, Byte, MaxAngle
  <2>4. QED
    BY <2>2, <2>3, Zenon DEF OutputsInv, LedType, LedStates
<1>4. ShownInv
  <2>1. attached = {} /\ bytesRead = 0
    BY DEF Init
  <2>2. QED
    BY <2>1 DEF ShownInv, Holding, FlapHolding
<1>5. QED
  BY <1>1, <1>2, <1>3, <1>4 DEF PanelInv, TypeInv

\* When the servos are attached no angle is remembered yet.
LEMMA SetupStep ==
  ASSUME PanelInv, Setup
  PROVE  OutputsInv' /\ ShownInv'
<1>1. /\ uno = "setup" /\ UNCHANGED <<angle, servo, bytesRead>>
      /\ led' = [l \in Leds |-> LedUpdate(led[l], "ON")]
  BY DEF Setup, servoVars
<1>2. bytesRead' = 0 /\ angle' = [s \in Servos |-> 0]
  BY <1>1 DEF PanelInv, TypeInv, FlagsInv
<1>3. OutputsInv'
  <2>1. ASSUME NEW l \in Leds PROVE LedUpdate(led[l], "ON") \in LedType
    <3>1. led[l] \in LedType /\ "ON" \in LedStates
      BY DEF PanelInv, TypeInv, OutputsInv, LedType, LedStates
    <3>2. QED
      BY <3>1, LedUpdated
  <2>2. led' \in [Leds -> LedType]
    BY <1>1, <2>1
  <2>3. QED
    BY <1>1, <2>2, Zenon DEF PanelInv, TypeInv, OutputsInv, LedType, LedStates
<1>4. \A s \in Servos : ~(MinAngle[s] <= angle'[s])
  BY <1>2 DEF MinAngle, Servos
<1>5. "trim" \in Servos /\ "flap" \in Servos
  BY DEF Servos
<1>6. Holding("trim")' /\ Holding("flap")'
  BY <1>4, <1>5, Zenon DEF Holding, MinAngle
<1>7. bytesRead' # 5
  BY <1>2
<1>8. QED
  BY <1>3, <1>6, <1>7, Zenon DEF ShownInv, FlapHolding

\* Every step keeps the invariant, given that frames stay whole.
LEMMA PanelStep == PanelInv /\ StreamInv' /\ [Next]_vars => PanelInv'
<1> SUFFICES ASSUME PanelInv, StreamInv', [Next]_vars PROVE PanelInv'
  OBVIOUS
<1>1. CASE UNCHANGED vars
  <2>1. /\ UNCHANGED <<pc, connected, portAlive, written, lateWrites, wire, rx, uno, attached>>
        /\ UNCHANGED <<simData, bytesRead, angle, servo, led, lost, inStep>>
    BY <1>1, Zenon DEF vars, portVars, unoVars, servoVars, lossVars
  <2>2. TypeInv'
    BY <2>1, Zenon DEF PanelInv, TypeInv, BytesInv, FlagsInv, OutputsInv
  <2>3. UNCHANGED <<trimPos, flapCnt, flapPos, landingGearPos, Value(simData[5])>>
    BY <2>1, ValuesNow, ValuesNext, Zenon
  <2>4. ShownInv'
    BY <2>1, <2>3, Zenon DEF PanelInv, ShownInv, Holding, FlapHolding, LightsShown
  <2>5. QED
    BY <2>2, <2>4 DEF PanelInv
<1>2. CASE Next
  <2>1. BytesInv' /\ FlagsInv'
    BY <1>2, BytesStep, FlagsStep DEF PanelInv, TypeInv
  <2>2. CASE NothingToRead \/ ReadBytes \/ ReadTimeOut
    <3>1. UpdateInstruments /\ UNCHANGED <<written, attached, lost>>
      BY <2>2, Zenon DEF NothingToRead, ReadBytes, ReadTimeOut, portVars, lossVars
    <3>2. lost' = 0 /\ bytesRead' = 5 => WholeFrame(simData', Len(written'))
      BY <2>1 DEF FlagsInv, StreamInv
    <3>3. OutputsInv' /\ ShownInv'
      BY <2>1, <3>1, <3>2, InstrumentsUpdated DEF PanelInv, TypeInv
    <3>4. QED
      BY <2>1, <3>3 DEF PanelInv, TypeInv
  <2>3. CASE Setup
    BY <2>1, <2>3, SetupStep DEF PanelInv, TypeInv
  <2>4. CASE SerialServer \/ PortDies \/ Deliver \/ LoseByte \/ CheckSerial
    <3>1. UNCHANGED <<attached, simData, bytesRead, angle, servo, led>>
      BY <2>4, Zenon
      DEF SerialServer, OpenPort, IsConnected, WriteFrame, WriteFails, PortDies, Deliver,
          LoseByte, CheckSerial, unoVars, servoVars
    <3>2. lost' = 0 => lost = 0
      <4>1. Len(wire) \in Nat /\ lost \in Nat
        BY DEF PanelInv, TypeInv, BytesInv, FlagsInv
      <4>2. CASE PortDies
        <5>1. PICK kept \in 0..Len(wire) : lost' = lost + Len(wire) - kept
          BY <4>2 DEF PortDies
        <5>2. QED
          BY <4>1, <5>1
      <4>3. CASE ~PortDies
        <5>1. lost' = lost \/ lost' = lost + 1
          BY <2>4, <4>3, Zenon
          DEF SerialServer, OpenPort, IsConnected, WriteFrame, WriteFails, Deliver, LoseByte,
              CheckSerial, lossVars
        <5>2. QED
          BY <4>1, <5>1
      <4>4. QED
        BY <4>2, <4>3
    <3>3. Len(written) <= Len(written') /\ \A n \in 1..Len(written) : written'[n] = written[n]
      <4>1. written \in Seq(Frames) /\ Len(written) \in Nat
        BY DEF PanelInv, TypeInv, BytesInv
      <4>2. CASE written' = written
        BY <4>1, <4>2
      <4>3. CASE WriteFrame
        <5>1. PICK f \in Frames : written' = Append(written, f)
          BY <4>3 DEF WriteFrame
        <5>2. QED
          BY <4>1, <5>1, AppendProperties
      <4>4. QED
        BY <2>4, <4>2, <4>3, Zenon
        DEF SerialServer, OpenPort, IsConnected, WriteFails, PortDies, Deliver, LoseByte,
            CheckSerial, portVars
    <3>4. ShownInv'
      BY <2>1, <3>1, <3>2, <3>3, InstrumentsKept DEF PanelInv, TypeInv
    <3>5. OutputsInv'
      BY <3>1, Zenon DEF PanelInv, TypeInv, OutputsInv
    <3>6. QED
      BY <2>1, <3>4, <3>5 DEF PanelInv, TypeInv
  <2>5. QED
    BY <1>2, <2>2, <2>3, <2>4, Zenon DEF Next, Uno
<1>3. QED
  BY <1>1, <1>2

\* The inductive invariant of the panel, next to that of the stream of bytes.
THEOREM PanelInvariant == Spec => []PanelInv
  BY PanelInit, PanelStep, StreamInvariant, PTL DEF Spec

\* The variables of the port, the line and the Uno keep their types: the buffer of the
\* Uno does not overflow, the servos stay within their range, whatever is read.
THEOREM PanelTypeCorrect == Spec => []TypeOK
<1>1. PanelInv => TypeOK
  <2> SUFFICES ASSUME PanelInv PROVE TypeOK
    OBVIOUS
  <2>1. Len(written) \in Nat
    BY DEF PanelInv, TypeInv, BytesInv
  <2>2. BytesOf(Len(written)) \subseteq Bytes
    BY <2>1 DEF BytesOf, Bytes, bufSize
  <2>3. wire \in Seq(Bytes) /\ rx \in Seq(Bytes)
    <3>1. wire \in Seq(BytesOf(Len(written))) /\ rx \in Seq(BytesOf(Len(written)))
      BY Zenon DEF PanelInv, TypeInv, BytesInv
    <3>2. QED
      BY <2>2, <3>1, SeqOfMore, Zenon
  <2>4. simData \in [1..bufSize -> Bytes \cup {NoByte}]
    BY <2>2 DEF PanelInv, TypeInv, BytesInv, bufSize
  <2>5. QED
    BY <2>3, <2>4, Zenon DEF TypeOK, PanelInv, TypeInv, BytesInv, FlagsInv, OutputsInv, bufSize
<1>2. QED
  BY <1>1, PanelInvariant, PTL

\* Between two turns of the loop the servos and the lights are those of the frame read
\* last, for any frames: an angle remembered but refused is never one that is wanted,
\* but for the lowest flap angle after a frame without flap positions.
THEOREM PanelShowsFrame == Spec => []InstrumentsShowFrame
<1>1. PanelInv /\ StreamInv => InstrumentsShowFrame
  <2> SUFFICES ASSUME PanelInv, StreamInv, bytesRead = 5
               PROVE  /\ "trim" \in attached /\ trimPos \in -100..100 =>
                           servo["trim"] = convertTrimAngle(trimPos)
                      /\ /\ "flap" \in attached /\ lost = 0 /\ flapCnt # 0
                         /\ AllSensible(written)
                         => \/ convertFlapAngles(flapCnt, flapPos) = {servo["flap"]}
                            \/ /\ convertFlapAngles(flapCnt, flapPos) = {MinAngle["flap"]}
                               /\ Flapless(written)
                      /\ LightsShown
    BY Zenon DEF InstrumentsShowFrame, LightsShown, AllSensible, Flapless, MayMissLowest,
                 bufSize
  <2>1. Holding("trim") /\ angle["trim"] = convertTrimAngle(trimPos) /\ LightsShown
    BY Zenon DEF PanelInv, ShownInv
  <2>2. MinAngle["trim"] = 57 /\ MinAngle["flap"] = 64 /\ MaxAngle = 113
    BY DEF MinAngle, MaxAngle
  <2>3. ASSUME "trim" \in attached, trimPos \in -100..100
        PROVE  servo["trim"] = convertTrimAngle(trimPos)
    <3>1. trimPos \in Int /\ -100 <= trimPos /\ trimPos <= 100
      BY <2>3
    <3>2. -128 <= trimPos /\ trimPos <= 127
      BY <3>1
    <3>3. 57 <= convertTrimAngle(trimPos) /\ convertTrimAngle(trimPos) <= 113
      BY <3>1, <3>2, TrimAngle
    <3>4. QED
      BY <2>1, <2>2, <2>3, <3>3, Zenon DEF Holding
  <2>4. ASSUME "flap" \in attached, lost = 0, flapCnt # 0, AllSensible(written)
        PROVE  \/ convertFlapAngles(flapCnt, flapPos) = {servo["flap"]}
               \/ /\ convertFlapAngles(flapCnt, flapPos) = {MinAngle["flap"]}
                  /\ Flapless(written)
    <3>1. FlapHolding /\ convertFlapAngles(flapCnt, flapPos) = {angle["flap"]}
      BY <2>4, Zenon DEF PanelInv, ShownInv
    <3>2. \E a \in 64..113 : convertFlapAngles(flapCnt, flapPos) = {a}
      <4>1. written \in Seq(Frames) /\ WholeFrame(simData, Len(written))
        BY <2>4 DEF PanelInv, TypeInv, FlagsInv, StreamInv
      <4>2. ValueOf(simData, written, 2) # 0 =>
              \E a \in 64..113 :
                convertFlapAngles(ValueOf(simData, written, 2), ValueOf(simData, written, 3)) = {a}
        BY <2>4, <4>1, SensibleFlap
      <4>3. QED
        BY <2>4, <4>2, ValuesNow, Zenon
    <3>3. 64 <= angle["flap"] /\ angle["flap"] <= 113
      BY <3>1, <3>2
    <3>4. Holding("flap") => servo["flap"] = angle["flap"]
      BY <2>2, <2>4, <3>3 DEF Holding
    <3>5. QED
      BY <3>1, <3>4, Zenon DEF FlapHolding
  <2>5. QED
    BY <2>1, <2>3, <2>4
<1>2. QED
  BY <1>1, PanelInvariant, StreamInvariant, PTL

=============================================================================
