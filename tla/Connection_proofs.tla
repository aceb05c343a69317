-------------------------- MODULE Connection_proofs ---------------------------
(***************************************************************************)
(* Proofs about what comes through a client's connection to the daemon:    *)
(* its messages (MessageFraming), and the output and the answer of a build *)
(* (BuildOutput).                                                          *)
(*                                                                         *)
(* However the stream is cut into chunks, the messages arrive whole and in *)
(* order, the end of the stream is told for what it is, and no message     *)
(* that leaves room for a chunk is refused.  The inductive invariant is    *)
(* FramingInv: the buffer begins where the first message that has not been *)
(* returned begins.                                                        *)
(*                                                                         *)
(* A client that waits for its build gets that build's exit status and, as *)
(* long as no two builds redirect the streams at the same time, all of its *)
(* output and no other.  The inductive invariants are AnswerInv, for any   *)
(* number of builds; StreamsInv: a build that has the streams has them for *)
(* itself; and FlowInv: what is displayed and what is on the wire are, put *)
(* together, the lines of the build.                                       *)
(***************************************************************************)
EXTENDS MessageFraming, BuildOutput, SequenceTheorems, TLAPS

\* The newlines are further and further apart in the stream.
EndsIncrease ==
    /\ \A i \in DOMAIN ends : Start(i) < ends[i]
    /\ \A i, j \in DOMAIN ends : i < j => ends[i] < ends[j]

\* A sendall returns before the next one begins: only the last message is partly written.
OneInFlight == \A i \in DOMAIN ends : i < Len(ends) => ends[i] <= written

\* The buffer begins where the first message that was not returned begins.
BufferAligned == result = "none" => taken = Start(Len(delivered) + 1)

StreamOK == FramingTypeOK /\ EndsIncrease /\ OneInFlight

FramingInv ==
    /\ StreamOK
    /\ InOrderAndWhole /\ BufferAligned /\ ShortMessagesPass /\ EndIsTruthful

-------------------------------------------------------------------------------
\* The beginnings of messages are positions in the stream.
LEMMA StartType ==
    ASSUME ends \in Seq(Nat), NEW i \in 1..(Len(ends) + 1)
    PROVE  Start(i) \in Nat /\ (i > 1 => i - 1 \in DOMAIN ends /\ Start(i) = ends[i - 1])
BY DEF Start

\* A sequence is a function on 1, 2, ... up to its length.
LEMMA SeqDomain ==
    ASSUME NEW s \in Seq(Nat)
    PROVE  /\ DOMAIN s = 1..Len(s) /\ Len(s) \in Nat
           /\ \A i \in DOMAIN s : s[i] \in Nat /\ i \in 1..(Len(s) + 1)
OBVIOUS

\* So is the length of the stream.
LEMMA TotalType == FramingTypeOK => Total \in Nat
BY StartType DEF Total, FramingTypeOK

\* With the buffer aligned, the first newline in it ends the first message that has not
\* been returned; if there is none, that message has not been received to its end.
LEMMA FirstNewline ==
    ASSUME StreamOK, InOrderAndWhole, BufferAligned, Receiving
    PROVE  LET d == Len(delivered) + 1
           IN  /\ taken = Start(d)
               /\ \A i \in Newlines : (\A j \in Newlines : i <= j) => i = d
               /\ Newlines = {} /\ taken < written => d \in DOMAIN ends /\ got < ends[d]
<1> DEFINE d == Len(delivered) + 1
<1> USE DEF StreamOK, FramingTypeOK
<1>1. d \in 1..(Len(ends) + 1) /\ Start(d) \in Nat /\ taken = Start(d)
  BY StartType DEF InOrderAndWhole, BufferAligned, Receiving
<1>2. ASSUME d \in DOMAIN ends
      PROVE  taken < ends[d]
  BY <1>1, <1>2 DEF EndsIncrease
<1>3. ASSUME NEW i \in Newlines, \A j \in Newlines : i <= j
      PROVE  i = d
  <2>1. i \in DOMAIN ends /\ taken < ends[i] /\ ends[i] <= got
    BY DEF Newlines
  <2>2. ~(i < d)
    <3> SUFFICES ASSUME i < d PROVE FALSE
      OBVIOUS
    <3>1. d > 1 /\ d - 1 \in DOMAIN ends /\ taken = ends[d - 1] /\ i <= d - 1
      BY <2>1, <1>1, StartType
    <3>2. ends[i] <= ends[d - 1]
      <4>1. i \in Nat /\ d - 1 \in Nat /\ (i = d - 1 \/ i < d - 1) /\ ends[d - 1] \in Nat
        BY <1>1, <3>1, <2>1, SeqDomain
      <4> QED BY <4>1, <3>1, <2>1 DEF EndsIncrease
    <3> QED BY <3>1, <3>2, <2>1
  <2>3. ~(d < i)
    <3> SUFFICES ASSUME d < i PROVE FALSE
      OBVIOUS
    <3>1. d \in DOMAIN ends
      BY <2>1, <1>1
    <3>2. ends[d] < ends[i] /\ taken < ends[d]
      BY <3>1, <2>1, <1>2 DEF EndsIncrease
    <3>3. d \in Newlines
      BY <3>1, <3>2, <2>1 DEF Newlines
    <3> QED BY <3>3, <1>3, <2>1, <1>1
  <2> QED BY <2>1, <2>2, <2>3, <1>1
<1>4. ASSUME Newlines = {}, taken < written
      PROVE  d \in DOMAIN ends /\ got < ends[d]
  <2>1. d \in DOMAIN ends
    <3> SUFFICES ASSUME d = Len(ends) + 1 PROVE FALSE
      BY <1>1
    <3> QED BY <1>1, <1>4 DEF Total
  <2> QED BY <2>1, <1>2, <1>4 DEF Newlines
<1> QED BY <1>1, <1>3, <1>4

-------------------------------------------------------------------------------
LEMMA InitFraming == FramingInit => FramingInv
BY FramingAssumption
   DEF FramingInit, FramingInv, StreamOK, FramingTypeOK, EndsIncrease, OneInFlight, InOrderAndWhole,
       BufferAligned, ShortMessagesPass, EndIsTruthful, Total, Start, Results

\* A sendall that begins leaves every message before it where it was.
LEMMA SendKeeps ==
    ASSUME FramingInv, NEW size \in Size, SendMessage(size)
    PROVE  FramingInv'
<1> USE DEF FramingInv
<1>1. /\ ends' = Append(ends, Total + size + 1) /\ written = Total /\ open
      /\ UNCHANGED <<written, open, got, taken, delivered, result>>
  BY DEF SendMessage, receiver
<1>2. Total \in Nat /\ size \in Nat \ {0} /\ ends \in Seq(Nat)
  BY TotalType, FramingAssumption DEF StreamOK, FramingTypeOK
<1>3. ends' \in Seq(Nat) /\ Len(ends') = Len(ends) + 1
  BY <1>1, <1>2
<1>4. \A i \in DOMAIN ends : i \in DOMAIN ends' /\ ends'[i] = ends[i] /\ ends[i] <= Total
  <2> SUFFICES ASSUME NEW i \in DOMAIN ends
               PROVE  i \in DOMAIN ends' /\ ends'[i] = ends[i] /\ ends[i] <= Total
    OBVIOUS
  <2>1. Len(ends) \in DOMAIN ends /\ Total = ends[Len(ends)]
    BY <1>2 DEF Total, Start
  <2>2. ends[i] <= ends[Len(ends)]
    BY <1>2, <2>1 DEF StreamOK, EndsIncrease
  <2> QED BY <1>1, <1>2, <2>1, <2>2
<1>5. ends'[Len(ends) + 1] = Total + size + 1
  BY <1>1, <1>2
<1>6. \A i \in 1..(Len(ends) + 1) : Start(i)' = Start(i) /\ Start(i) \in Nat
  BY <1>2, <1>4, StartType DEF Start
<1>7. Total' = Total + size + 1
  BY <1>3, <1>5, <1>2 DEF Total, Start
<1>8. FramingTypeOK'
  BY <1>1, <1>2, <1>3, <1>7 DEF StreamOK, FramingTypeOK
<1>9. EndsIncrease'
  <2>1. \A i \in DOMAIN ends' : i \in DOMAIN ends \/ i = Len(ends) + 1
    BY <1>2, <1>3
  <2>2. \A i \in DOMAIN ends' : Start(i)' < ends'[i]
    <3> SUFFICES ASSUME NEW i \in DOMAIN ends' PROVE Start(i)' < ends'[i]
      OBVIOUS
    <3>1. Start(i)' = Start(i)
      BY <1>2, <1>3, <1>6
    <3>2. CASE i \in DOMAIN ends
      BY <3>1, <3>2, <1>4 DEF StreamOK, EndsIncrease
    <3>3. CASE i = Len(ends) + 1
      BY <3>1, <3>3, <1>2, <1>5 DEF Total
    <3> QED BY <2>1, <3>2, <3>3
  <2>3. \A i, j \in DOMAIN ends' : i < j => ends'[i] < ends'[j]
    <3> SUFFICES ASSUME NEW i \in DOMAIN ends', NEW j \in DOMAIN ends', i < j
                 PROVE  ends'[i] < ends'[j]
      OBVIOUS
    <3>1. i \in DOMAIN ends /\ i \in Nat /\ j \in Nat
      BY <1>2, <1>3
    <3>2. CASE j \in DOMAIN ends
      BY <3>1, <3>2, <1>4 DEF StreamOK, EndsIncrease
    <3>3. CASE j = Len(ends) + 1
      BY <3>1, <3>3, <1>2, <1>4, <1>5
    <3> QED BY <2>1, <3>2, <3>3
  <2> QED BY <2>2, <2>3 DEF EndsIncrease
<1>10. OneInFlight'
  BY <1>1, <1>2, <1>3, <1>4 DEF OneInFlight
<1>11. Len(delivered) <= Len(ends) /\ delivered \in Seq(Nat)
  BY DEF InOrderAndWhole, StreamOK, FramingTypeOK
<1>12. InOrderAndWhole'
  BY <1>1, <1>2, <1>3, <1>4, <1>6, <1>11 DEF InOrderAndWhole
<1>13. BufferAligned'
  BY <1>1, <1>2, <1>6, <1>11 DEF BufferAligned
<1>14. ShortMessagesPass'
  <2> SUFFICES ASSUME result = "too large"
               PROVE  \E i \in DOMAIN ends' : ends'[i] - Start(i)' - 1 + BufferSize > MaxSize
    BY <1>1 DEF ShortMessagesPass
  <2>1. PICK i \in DOMAIN ends : ends[i] - Start(i) - 1 + BufferSize > MaxSize
    BY DEF ShortMessagesPass
  <2>2. i \in DOMAIN ends' /\ ends'[i] = ends[i]
    BY <1>4
  <2>3. i \in 1..(Len(ends) + 1)
    <3>1. ends \in Seq(Nat)
      BY <1>2
    <3> QED BY <3>1, SeqDomain
  <2>4. Start(i)' = Start(i)
    BY <1>6, <2>3
  <2> QED BY <2>1, <2>2, <2>4
<1>15. EndIsTruthful'
  BY <1>1 DEF EndIsTruthful
<1> QED BY <1>8, <1>9, <1>10, <1>12, <1>13, <1>14, <1>15 DEF StreamOK

LEMMA AcceptKeeps ==
    ASSUME FramingInv, NEW n \in 1..Capacity, Accept(n)
    PROVE  FramingInv'
<1>1. FramingTypeOK'
  BY TotalType, FramingAssumption
     DEF FramingInv, StreamOK, FramingTypeOK, Accept, receiver, Total, Start
<1>2. EndsIncrease' /\ OneInFlight'
  BY FramingAssumption
     DEF FramingInv, StreamOK, FramingTypeOK, EndsIncrease, OneInFlight, Accept, receiver, Start
<1>3. InOrderAndWhole' /\ BufferAligned' /\ ShortMessagesPass' /\ EndIsTruthful'
  BY DEF FramingInv, InOrderAndWhole, BufferAligned, ShortMessagesPass, EndIsTruthful,
         Accept, receiver, Start
<1> QED BY <1>1, <1>2, <1>3 DEF FramingInv, StreamOK

LEMMA CloseKeeps == FramingInv /\ CloseSocket => FramingInv'
BY DEF FramingInv, StreamOK, FramingTypeOK, EndsIncrease, OneInFlight, InOrderAndWhole, BufferAligned,
       ShortMessagesPass, EndIsTruthful, CloseSocket, receiver, Total, Start

\* What the receiver does leaves the stream as it is.
LEMMA StreamUntouched ==
    ASSUME StreamOK, UNCHANGED sender, FramingTypeOK'
    PROVE  StreamOK' /\ ends' = ends
BY DEF StreamOK, EndsIncrease, OneInFlight, sender, Start, Total

LEMMA TakeKeeps == FramingInv /\ TakeMessage => FramingInv'
<1> SUFFICES ASSUME FramingInv, TakeMessage PROVE FramingInv'
  OBVIOUS
<1> USE DEF FramingInv
<1> DEFINE d == Len(delivered) + 1
<1>1. Receiving /\ UNCHANGED <<ends, written, open, got>> /\ taken = Start(d) /\ d \in DOMAIN ends
      /\ taken' = ends[d] /\ d \in Newlines
      /\ IF ends[d] - 1 - taken > MaxSize
         THEN result' = "too large" /\ UNCHANGED delivered
         ELSE delivered' = Append(delivered, ends[d] - 1 - taken) /\ UNCHANGED result
  <2>1. PICK i \in Newlines :
          /\ \A j \in Newlines : i <= j
          /\ taken' = ends[i]
          /\ IF ends[i] - 1 - taken > MaxSize
             THEN result' = "too large" /\ UNCHANGED delivered
             ELSE delivered' = Append(delivered, ends[i] - 1 - taken) /\ UNCHANGED result
    BY DEF TakeMessage
  <2>2. Receiving /\ UNCHANGED <<ends, written, open, got>>
    BY DEF TakeMessage, sender
  <2>3. i = d /\ taken = Start(d)
    BY <2>1, <2>2, FirstNewline
  <2> QED BY <2>1, <2>2, <2>3 DEF Newlines
<1>2. /\ ends \in Seq(Nat) /\ delivered \in Seq(Nat) /\ taken \in Nat /\ got \in Nat
      /\ written \in Nat /\ written <= Total /\ got <= written /\ Total \in Nat
      /\ taken < ends[d] /\ ends[d] <= got /\ result \in Results
  BY <1>1, TotalType DEF StreamOK, FramingTypeOK, Newlines
<1>3. FramingTypeOK'
  <2>1. delivered' \in Seq(Nat) /\ result' \in Results
    <3>0. d \in DOMAIN ends
      BY <1>1
    <3>1. ends[d] \in Nat /\ ends[d] - 1 - taken \in Nat
      BY <3>0, <1>2, SeqDomain
    <3>2. delivered' \in Seq(Nat)
      <4>1. delivered' = delivered \/ delivered' = Append(delivered, ends[d] - 1 - taken)
        BY <1>1
      <4>2. delivered \in Seq(Nat)
        BY <1>2
      <4> QED BY <4>1, <4>2, <3>1
    <3>3. result' \in Results
      <4>1. result' = "too large" \/ result' = result
        BY <1>1
      <4> QED BY <4>1, <1>2 DEF Results
    <3> QED BY <3>2, <3>3
  <2>2. taken' \in Nat /\ taken' <= got'
    <3>1. d \in DOMAIN ends /\ taken' = ends[d] /\ got' = got
      BY <1>1
    <3> QED BY <3>1, <1>2, SeqDomain
  <2>3. Total' = Total
    BY <1>1 DEF Total, Start
  <2> QED BY <1>1, <1>2, <2>1, <2>2, <2>3 DEF FramingTypeOK, StreamOK
<1>4. StreamOK' /\ ends' = ends
  BY <1>1, <1>3, StreamUntouched DEF sender
<1>5. CASE ends[d] - 1 - taken > MaxSize
  <2>0. result' = "too large" /\ delivered' = delivered
    BY <1>1, <1>5
  <2>1. InOrderAndWhole' /\ BufferAligned' /\ EndIsTruthful'
    BY <2>0, <1>4 DEF InOrderAndWhole, BufferAligned, EndIsTruthful, Start
  <2>2. ends[d] \in Nat /\ BufferSize \in Nat /\ MaxSize \in Nat /\ taken = Start(d)
    BY <1>1, <1>2, SeqDomain, FramingAssumption
  <2>3. ends[d] - Start(d) - 1 + BufferSize > MaxSize
    BY <2>2, <1>2, <1>5
  <2>4. ShortMessagesPass'
    BY <1>1, <1>4, <2>3 DEF ShortMessagesPass, Start
  <2> QED BY <1>4, <2>1, <2>4
<1>6. CASE ~(ends[d] - 1 - taken > MaxSize)
  <2>1. delivered' = Append(delivered, ends[d] - 1 - taken) /\ result' = "none" /\ result = "none"
    BY <1>1, <1>6 DEF Receiving
  <2>2. Len(delivered') = d /\ delivered'[d] = ends[d] - 1 - Start(d)
        /\ \A k \in DOMAIN delivered : delivered'[k] = delivered[k]
    BY <2>1, <1>2, <1>1
  <2>3. InOrderAndWhole'
    <3>1. \A k \in DOMAIN delivered' : k \in 1..d /\ (k = d \/ k \in DOMAIN delivered)
      BY <2>1, <1>2
    <3>2. \A k \in 1..d : /\ Start(k)' = Start(k) /\ ends'[k] = ends[k]
                          /\ Start(k) \in Nat /\ ends[k] \in Nat
      <4> SUFFICES ASSUME NEW k \in 1..d
                   PROVE  /\ Start(k)' = Start(k) /\ ends'[k] = ends[k]
                          /\ Start(k) \in Nat /\ ends[k] \in Nat
        OBVIOUS
      <4>0. d \in DOMAIN ends
        BY <1>1
      <4>1. k \in DOMAIN ends /\ k \in 1..(Len(ends) + 1) /\ ends[k] \in Nat
        BY <4>0, <1>2, SeqDomain
      <4> QED BY <4>1, <1>4, <1>2, StartType DEF Start
    <3>3. \A k \in DOMAIN delivered' : delivered'[k] = ends'[k] - Start(k)' - 1
      BY <3>1, <3>2, <2>2 DEF InOrderAndWhole
    <3>4. Len(delivered') <= Len(ends')
      <4>1. d \in DOMAIN ends /\ ends' = ends
        BY <1>1
      <4>2. d <= Len(ends)
        BY <4>1, <1>2, SeqDomain
      <4> QED BY <4>1, <4>2, <2>2
    <3> QED BY <3>3, <3>4 DEF InOrderAndWhole
  <2>4. BufferAligned'
    BY <1>1, <1>2, <2>1, <2>2 DEF BufferAligned, Start
  <2>5. ShortMessagesPass' /\ EndIsTruthful'
    BY <2>1 DEF ShortMessagesPass, EndIsTruthful
  <2> QED BY <1>4, <2>3, <2>4, <2>5
<1> QED BY <1>5, <1>6

LEMMA ReceiveKeeps ==
    ASSUME FramingInv, NEW n \in 1..BufferSize, Receive(n)
    PROVE  FramingInv'
<1> USE DEF FramingInv
<1>1. /\ result = "none" /\ Newlines = {} /\ got + n <= written /\ got' = got + n
      /\ result' = (IF got' - taken > MaxSize THEN "too large" ELSE result)
      /\ UNCHANGED <<ends, written, open, taken, delivered>>
  BY DEF Receive, Receiving, sender
<1>2. /\ ends \in Seq(Nat) /\ delivered \in Seq(Nat) /\ taken \in Nat /\ got \in Nat
      /\ written \in Nat /\ taken <= got /\ n \in Nat /\ n <= BufferSize /\ n > 0
      /\ Len(delivered) <= Len(ends)
  BY FramingAssumption DEF StreamOK, FramingTypeOK, InOrderAndWhole
<1>3. FramingTypeOK'
  <2>1. Total' = Total
    BY <1>1 DEF Total, Start
  <2>2. got' \in Nat /\ taken' <= got' /\ got' <= written'
    <3>1. got + n <= written /\ got' = got + n /\ taken' = taken /\ written' = written
      BY <1>1
    <3> QED BY <3>1, <1>2
  <2>3. result' \in Results
    BY <1>1 DEF Results
  <2> QED BY <1>1, <2>1, <2>2, <2>3 DEF FramingTypeOK, StreamOK
<1>4. StreamOK' /\ ends' = ends
  BY <1>1, <1>3, StreamUntouched DEF sender
<1>5. InOrderAndWhole' /\ BufferAligned' /\ EndIsTruthful'
  <2>1. result' \in {"none", "too large"}
    BY <1>1
  <2> QED BY <1>1, <1>4, <2>1 DEF InOrderAndWhole, BufferAligned, EndIsTruthful, Start
<1>6. ShortMessagesPass'
  <2> SUFFICES ASSUME got + n - taken > MaxSize
               PROVE  \E i \in DOMAIN ends : ends[i] - Start(i) - 1 + BufferSize > MaxSize
    <3>1. CASE got + n - taken > MaxSize
      BY <1>1, <1>4, <3>1 DEF ShortMessagesPass, Start
    <3>2. CASE ~(got + n - taken > MaxSize)
      <4>0. got' = got + n /\ result' = (IF got' - taken > MaxSize THEN "too large" ELSE "none")
        BY <1>1
      <4>1. result' = "none"
        BY <4>0, <3>2, <1>2
      <4> QED BY <4>1 DEF ShortMessagesPass
    <3> QED BY <3>1, <3>2
  <2> DEFINE d == Len(delivered) + 1
  <2>1. d \in DOMAIN ends /\ got < ends[d] /\ taken = Start(d)
    <3>1. taken < written
      <4>1. got + n <= written
        BY <1>1
      <4> QED BY <4>1, <1>2
    <3>2. Receiving
      BY <1>1 DEF Receiving
    <3> QED BY <3>1, <3>2, <1>1, FirstNewline
  <2>2. ends[d] \in Nat /\ BufferSize \in Nat /\ MaxSize \in Nat
    BY <2>1, <1>2, FramingAssumption
  <2>3. ends[d] - taken - 1 + BufferSize > MaxSize
    <3> HIDE DEF FramingInv, d
    <3>1. got + 1 <= ends[d]
      BY <2>1, <2>2, <1>2
    <3>2. n \in Nat /\ n <= BufferSize
      BY <2>2
    <3> QED BY <3>1, <3>2, <2>2, <1>2
  <2> QED BY <2>1, <2>3
<1> QED BY <1>4, <1>5, <1>6

LEMMA EndKeeps == FramingInv /\ ReceiveEnd => FramingInv'
<1> SUFFICES ASSUME FramingInv, ReceiveEnd PROVE FramingInv'
  OBVIOUS
<1> USE DEF FramingInv
<1>1. /\ result = "none" /\ Newlines = {} /\ ~open /\ got = written
      /\ result' = (IF got > taken THEN "incomplete" ELSE "closed")
      /\ UNCHANGED <<ends, written, open, got, taken, delivered>>
  BY DEF ReceiveEnd, Receiving, sender
<1>2. /\ ends \in Seq(Nat) /\ delivered \in Seq(Nat) /\ taken \in Nat /\ got \in Nat
      /\ written \in Nat /\ taken <= got /\ Len(delivered) <= Len(ends)
  BY DEF StreamOK, FramingTypeOK, InOrderAndWhole
<1>3. FramingTypeOK'
  BY <1>1 DEF FramingTypeOK, StreamOK, Results, Total, Start
<1>4. StreamOK' /\ ends' = ends
  BY <1>1, <1>3, StreamUntouched DEF sender
<1>5. InOrderAndWhole' /\ BufferAligned' /\ ShortMessagesPass'
  <2>1. result' \in {"closed", "incomplete"}
    BY <1>1
  <2> QED BY <1>1, <1>4, <2>1 DEF InOrderAndWhole, BufferAligned, ShortMessagesPass, Start
<1> DEFINE d == Len(delivered) + 1
<1>6. taken = Start(d) /\ (taken < written => d \in DOMAIN ends /\ got < ends[d])
  BY <1>1, FirstNewline DEF Receiving
<1>7. CASE got > taken
  <2>1. d \in DOMAIN ends /\ written < ends[d]
    BY <1>1, <1>6, <1>7, <1>2
  <2>2. d = Len(ends)
    <3>1. ends[d] \in Nat /\ d \in Nat /\ Len(ends) \in Nat /\ d <= Len(ends)
      BY <1>2, <2>1, SeqDomain
    <3>2. ~(d < Len(ends))
      BY <2>1, <3>1, <1>2 DEF StreamOK, OneInFlight
    <3> QED BY <3>1, <3>2
  <2>3. Total = ends[d]
    BY <2>1, <2>2, <1>2 DEF Total, Start
  <2>4. Start(Len(ends)) < written /\ written < Total
    BY <2>1, <2>2, <2>3, <1>1, <1>6, <1>7
  <2>6. EndIsTruthful'
    BY <1>1, <1>7, <2>4 DEF EndIsTruthful, Start, Total
  <2> QED BY <1>4, <1>5, <2>6
<1>8. CASE ~(got > taken)
  <2>1. written = Start(d) /\ d \in 1..(Len(ends) + 1)
    BY <1>1, <1>2, <1>6, <1>8
  <2>2. EndIsTruthful'
    BY <1>1, <1>8, <2>1 DEF EndIsTruthful, Start
  <2> QED BY <1>4, <1>5, <2>2
<1> QED BY <1>7, <1>8

LEMMA FailsKeeps == FramingInv /\ ReceiveFails => FramingInv'
BY DEF FramingInv, StreamOK, FramingTypeOK, EndsIncrease, OneInFlight, InOrderAndWhole, BufferAligned,
       ShortMessagesPass, EndIsTruthful, ReceiveFails, Receiving, sender, Total, Start, Results

LEMMA StutterKeeps == FramingInv /\ UNCHANGED framingVars => FramingInv'
<1> SUFFICES ASSUME FramingInv, UNCHANGED framingVars PROVE FramingInv'
  OBVIOUS
<1>1. UNCHANGED <<ends, written, open, got, taken, delivered, result>>
  BY DEF framingVars, sender, receiver
<1>2. FramingTypeOK' /\ EndsIncrease' /\ OneInFlight'
  BY <1>1 DEF FramingInv, StreamOK, FramingTypeOK, EndsIncrease, OneInFlight, Total, Start
<1>3. InOrderAndWhole' /\ BufferAligned' /\ ShortMessagesPass'
  BY <1>1 DEF FramingInv, InOrderAndWhole, BufferAligned, ShortMessagesPass, Start
<1>4. EndIsTruthful'
  BY <1>1 DEF FramingInv, EndIsTruthful, Start, Total
<1> QED BY <1>2, <1>3, <1>4 DEF FramingInv, StreamOK

LEMMA NextFraming == FramingInv /\ [FramingNext]_framingVars => FramingInv'
<1> SUFFICES ASSUME FramingInv, [FramingNext]_framingVars PROVE FramingInv'
  OBVIOUS
<1>1. ASSUME NEW size \in Size, SendMessage(size) PROVE FramingInv'
  BY <1>1, SendKeeps
<1>2. ASSUME NEW n \in 1..Capacity, Accept(n) PROVE FramingInv'
  BY <1>2, AcceptKeeps
<1>3. ASSUME NEW n \in 1..BufferSize, Receive(n) PROVE FramingInv'
  BY <1>3, ReceiveKeeps
<1> QED
  BY <1>1, <1>2, <1>3, CloseKeeps, TakeKeeps, EndKeeps, FailsKeeps, StutterKeeps
     DEF FramingNext, Sendall, ReceiveMessage

\* The inductive invariant holds in every behaviour.
THEOREM FramingInvariant == FramingSpec => []FramingInv
BY InitFraming, NextFraming, PTL DEF FramingSpec

\* Whatever the sizes and the chunks, what receive_message returns is what was sent:
\* whole messages, in order, none lost or repeated.
THEOREM DeliveredInOrderAndWhole == FramingSpec => []InOrderAndWhole
<1>1. FramingInv => InOrderAndWhole
  BY DEF FramingInv
<1> QED BY FramingInvariant, <1>1, PTL

\* No message with room for another chunk below the limit is refused for its size.
THEOREM ShortOnesPass == FramingSpec => []ShortMessagesPass
<1>1. FramingInv => ShortMessagesPass
  BY DEF FramingInv
<1> QED BY FramingInvariant, <1>1, PTL

\* None means that the sender stopped between messages and all were returned, and the
\* error for an incomplete message that it stopped within one.
THEOREM EndToldTruly == FramingSpec => []EndIsTruthful
<1>1. FramingInv => EndIsTruthful
  BY DEF FramingInv
<1> QED BY FramingInvariant, <1>1, PTL
-------------------------------------------------------------------------------
(* The refinement.                                                         *)

\* Every message has one of the sizes.
SizesSent == \A i \in DOMAIN ends : ends[i] - Start(i) - 1 \in Size

AbstractSent == [i \in 1..Accepted |-> ends[i] - Start(i) - 1]

AbstractState ==
    CASE result = "none" -> "open" [] result = "closed" -> "ended" [] OTHER -> "failed"

LEMMA SizesInductive == FramingInv /\ SizesSent /\ [FramingNext]_framingVars => SizesSent'
<1> SUFFICES ASSUME FramingInv, SizesSent, [FramingNext]_framingVars PROVE SizesSent'
  OBVIOUS
<1>0. ends \in Seq(Nat)
  BY DEF FramingInv, StreamOK, FramingTypeOK
<1>1. ASSUME NEW size \in Size, SendMessage(size) PROVE SizesSent'
  <2>1. ends' = Append(ends, Total + size + 1) /\ Total \in Nat /\ size \in Nat
    BY <1>1, TotalType, FramingAssumption DEF SendMessage, FramingInv, StreamOK
  <2> SUFFICES ASSUME NEW i \in DOMAIN ends' PROVE ends'[i] - Start(i)' - 1 \in Size
    BY DEF SizesSent
  <2>2. CASE i \in DOMAIN ends
    <3>1. ends'[i] = ends[i] /\ Start(i)' = Start(i)
      BY <1>0, <2>1, <2>2 DEF Start
    <3> QED BY <3>1, <2>2 DEF SizesSent
  <2>3. CASE i = Len(ends) + 1
    <3>1. ends'[i] = Total + size + 1
      BY <1>0, <2>1, <2>3
    <3>2. Start(i)' = Total
      BY <1>0, <2>1, <2>3 DEF Start, Total
    <3>3. ends'[i] - Start(i)' - 1 = size
      BY <3>1, <3>2, <2>1
    <3> QED BY <3>3
  <2> QED BY <1>0, <2>1, <2>2, <2>3
<1>2. ASSUME UNCHANGED ends PROVE SizesSent'
  BY <1>2 DEF SizesSent, Start
<1> QED
  BY <1>1, <1>2
     DEF FramingNext, Sendall, ReceiveMessage, Accept, CloseSocket, TakeMessage, Receive, ReceiveEnd,
         ReceiveFails, sender, framingVars

LEMMA AcceptedRange ==
    ASSUME FramingInv, SizesSent
    PROVE  /\ Accepted \in Nat /\ Accepted <= Len(ends)
           /\ \A i \in DOMAIN ends : ends[i] <= written => i <= Accepted
           /\ Total = (IF Len(ends) = 0 THEN 0 ELSE ends[Len(ends)])
           /\ AbstractSent \in Seq(Size) /\ Len(AbstractSent) = Accepted
<1> USE DEF FramingInv, StreamOK, FramingTypeOK
<1>1. Len(ends) \in Nat /\ ends \in Seq(Nat) /\ written \in Nat /\ Total \in Nat
  BY TotalType
<1>2. Total = (IF Len(ends) = 0 THEN 0 ELSE ends[Len(ends)])
  BY <1>1 DEF Total, Start
<1>3. Accepted \in Nat /\ Accepted <= Len(ends)
  BY <1>1, <1>2 DEF Accepted
<1>4. ASSUME NEW i \in DOMAIN ends, ends[i] <= written
      PROVE  i <= Accepted
  <2>1. i \in Nat /\ i <= Len(ends) /\ ends[i] \in Nat
    BY <1>1, SeqDomain
  <2>2. CASE written = Total
    BY <2>1, <2>2, <1>1 DEF Accepted
  <2>3. CASE written # Total
    <3>1. i # Len(ends)
      <4> SUFFICES ASSUME i = Len(ends) PROVE FALSE
        OBVIOUS
      <4>1. ends[i] = Total
        BY <1>2, <2>1, <1>1
      <4> QED BY <4>1, <1>1, <1>4, <2>1, <2>3
    <3> QED BY <3>1, <2>1, <2>3, <1>1 DEF Accepted
  <2> QED BY <2>2, <2>3
<1>5. AbstractSent \in Seq(Size) /\ Len(AbstractSent) = Accepted
  <2>1. \A i \in 1..Accepted : ends[i] - Start(i) - 1 \in Size
    BY <1>1, <1>3, SeqDomain DEF SizesSent
  <2> QED BY <2>1, <1>3 DEF AbstractSent
<1> QED BY <1>2, <1>3, <1>4, <1>5

\* What is not done by the sender leaves the queue of sent messages as it is.
LEMMA SentUnchanged == UNCHANGED <<ends, written>> => UNCHANGED AbstractSent
BY DEF AbstractSent, Accepted, Total, Start

\* The sender sends, or the socket accepts a part of a message or the last byte of one.
LEMMA SenderImplements ==
    ASSUME FramingInv, SizesSent, SizesSent', FramingInv',
           \/ \E size \in Size : SendMessage(size)
           \/ Sendall
    PROVE  [Channel!Next]_(Channel!vars)
<1> USE DEF FramingInv, StreamOK, FramingTypeOK
<1>1. UNCHANGED <<delivered, result>>
  BY DEF SendMessage, Sendall, Accept, receiver
<1>2. CASE \E size \in Size : SendMessage(size)
  <2>1. PICK size \in Size : /\ ends' = Append(ends, Total + size + 1)
                             /\ written = Total /\ written' = written
    BY <1>2 DEF SendMessage
  <2>2. Total \in Nat /\ size \in Nat \ {0} /\ ends \in Seq(Nat)
    BY TotalType, FramingAssumption
  <2>3. Accepted = Len(ends)
    BY <2>1 DEF Accepted
  <2>4. Total' = Total + size + 1 /\ Len(ends') = Len(ends) + 1
    BY <2>1, <2>2 DEF Total, Start
  <2>5. Accepted' = Len(ends)
    BY <2>1, <2>2, <2>4 DEF Accepted
  <2>6. \A i \in 1..Len(ends) : ends'[i] = ends[i] /\ Start(i)' = Start(i)
    BY <2>1, <2>2 DEF Start
  <2>7. UNCHANGED AbstractSent
    BY <2>3, <2>5, <2>6 DEF AbstractSent
  <2> QED BY <1>1, <2>7 DEF AbstractSent, Channel!vars
<1>3. CASE Sendall
  <2>1. PICK n \in 1..Capacity : /\ ends' = ends /\ written' = written + n /\ open
                                 /\ written + n <= Total
    BY <1>3 DEF Sendall, Accept
  <2>2. n \in Nat /\ n > 0 /\ written \in Nat /\ Total \in Nat /\ written < Total
    BY <2>1, FramingAssumption, TotalType
  <2>3. Total' = Total /\ (\A i \in DOMAIN ends : Start(i)' = Start(i)) /\ Len(ends) \in Nat
    BY <2>1 DEF Total, Start
  <2>4. Accepted = Len(ends) - 1 /\ Accepted \in Nat
    BY <2>2, AcceptedRange DEF Accepted
  <2>5. CASE written + n = Total
    <3>1. Accepted' = Len(ends)
      BY <2>1, <2>3, <2>5 DEF Accepted
    <3>2. Len(ends) \in DOMAIN ends
      BY <2>3, <2>4, SeqDomain
    <3> DEFINE m == ends[Len(ends)] - Start(Len(ends)) - 1
    <3>3. m \in Size
      BY <3>2 DEF SizesSent
    <3>4. AbstractSent' = [i \in 1..Len(ends) |-> ends[i] - Start(i) - 1]
      BY <2>1, <3>1 DEF AbstractSent, Start
    <3>5. AbstractSent = [i \in 1..(Len(ends) - 1) |-> ends[i] - Start(i) - 1]
      BY <2>4 DEF AbstractSent
    <3>6. AbstractSent' = Append(AbstractSent, m)
      <4>1. Len(AbstractSent) = Len(ends) - 1 /\ AbstractSent \in Seq(Size)
        BY <2>4, AcceptedRange
      <4>2. AbstractSent' \in Seq(Size) /\ Len(AbstractSent') = Len(ends)
        <5>1. \A i \in 1..Len(ends) : ends[i] - Start(i) - 1 \in Size
          BY SeqDomain DEF SizesSent
        <5> QED BY <5>1, <3>4, <2>3
      <4>3. Append(AbstractSent, m) \in Seq(Size) /\ Len(Append(AbstractSent, m)) = Len(ends)
        BY <4>1, <3>3, <2>3
      <4>4. \A i \in 1..Len(ends) : AbstractSent'[i] = Append(AbstractSent, m)[i]
        <5> SUFFICES ASSUME NEW i \in 1..Len(ends)
                     PROVE  AbstractSent'[i] = Append(AbstractSent, m)[i]
          OBVIOUS
        <5>1. CASE i = Len(ends)
          BY <5>1, <4>1, <3>3, <3>4, <2>3
        <5>2. CASE i # Len(ends)
          <6>1. i \in 1..(Len(ends) - 1)
            BY <5>2, <2>3
          <6>2. Append(AbstractSent, m)[i] = AbstractSent[i]
            BY <6>1, <4>1, <3>3, <2>3
          <6> QED BY <6>1, <6>2, <3>4, <3>5
        <5> QED BY <5>1, <5>2
      <4> QED BY <4>2, <4>3, <4>4, SeqEqual
    <3>7. result # "closed"
      BY <2>1 DEF EndIsTruthful
    <3>8. AbstractState # "ended"
      BY <3>7 DEF AbstractState
    <3> QED BY <1>1, <3>3, <3>6, <3>8
         DEF AbstractSent, AbstractState, Channel!Next, Channel!Put
  <2>6. CASE written + n # Total
    <3>1. Accepted' = Accepted
      BY <2>1, <2>3, <2>4, <2>6 DEF Accepted
    <3>2. UNCHANGED AbstractSent
      BY <3>1, <2>1 DEF AbstractSent, Start
    <3> QED BY <1>1, <3>2 DEF AbstractSent, Channel!vars
  <2> QED BY <2>5, <2>6
<1> QED BY <1>2, <1>3

\* receive_message returns the next message of the queue, or gives up.
LEMMA TakeImplements ==
    ASSUME FramingInv, SizesSent, TakeMessage
    PROVE  [Channel!Next]_(Channel!vars)
<1> USE DEF FramingInv
<1> DEFINE d == Len(delivered) + 1
<1>1. PICK i \in Newlines :
         /\ \A j \in Newlines : i <= j
         /\ IF ends[i] - 1 - taken > MaxSize
            THEN result' = "too large" /\ UNCHANGED delivered
            ELSE delivered' = Append(delivered, ends[i] - 1 - taken) /\ UNCHANGED result
  BY DEF TakeMessage
<1>2. Receiving /\ UNCHANGED <<ends, written>>
  BY DEF TakeMessage, sender
<1>3. i = d /\ taken = Start(d)
  BY <1>1, <1>2, FirstNewline
<1>4. d \in DOMAIN ends /\ ends[d] <= got
  BY <1>1, <1>3 DEF Newlines
<1>5. d <= Accepted /\ d \in Nat /\ Accepted \in Nat
  <2>1. ends[d] \in Nat /\ got \in Nat /\ written \in Nat /\ got <= written
    BY <1>4, SeqDomain DEF StreamOK, FramingTypeOK
  <2>2. Len(delivered) \in Nat
    BY DEF StreamOK, FramingTypeOK
  <2> QED BY <1>4, <2>1, <2>2, AcceptedRange
<1>6. UNCHANGED AbstractSent
  BY <1>2, SentUnchanged
<1>7. AbstractState = "open"
  BY <1>2 DEF AbstractState, Receiving
<1>8. CASE ends[i] - 1 - taken > MaxSize
  <2>1. AbstractState' = "failed" /\ delivered' = delivered
    BY <1>1, <1>8 DEF AbstractState
  <2> QED BY <1>6, <1>7, <2>1 DEF AbstractSent, AbstractState, Channel!Next, Channel!Fail
<1>9. CASE ~(ends[i] - 1 - taken > MaxSize)
  <2>1. delivered' = Append(delivered, ends[d] - 1 - Start(d)) /\ result' = result
    BY <1>1, <1>3, <1>9
  <2>2. Start(d) \in Nat /\ ends[d] \in Nat
    BY <1>4, StartType, SeqDomain DEF StreamOK, FramingTypeOK
  <2>3. AbstractSent[d] = ends[d] - 1 - Start(d)
    BY <1>5, <2>2 DEF AbstractSent
  <2>4. Len(AbstractSent) = Accepted /\ Len(delivered) < Accepted
    BY <1>5, AcceptedRange DEF StreamOK, FramingTypeOK
  <2>5. AbstractState' = AbstractState
    BY <2>1 DEF AbstractState
  <2> QED BY <1>6, <1>7, <2>1, <2>3, <2>4, <2>5
       DEF AbstractSent, AbstractState, Channel!Next, Channel!Get
<1> QED BY <1>8, <1>9

\* receive_message says that there is nothing more only when the queue has been emptied.
LEMMA EndImplements ==
    ASSUME FramingInv, SizesSent, FramingInv', ReceiveEnd
    PROVE  [Channel!Next]_(Channel!vars)
<1> USE DEF FramingInv
<1>1. /\ result = "none" /\ result' \in {"closed", "incomplete"}
      /\ UNCHANGED <<ends, written, delivered>>
  BY DEF ReceiveEnd, Receiving, sender
<1>2. UNCHANGED AbstractSent /\ AbstractState = "open"
  BY <1>1, SentUnchanged DEF AbstractState
<1>3. CASE result' = "incomplete"
  <2>1. AbstractState' = "failed"
    BY <1>3 DEF AbstractState
  <2> QED BY <1>1, <1>2, <2>1 DEF AbstractSent, AbstractState, Channel!Next, Channel!Fail
<1>4. CASE result' = "closed"
  <2>1. AbstractState' = "ended"
    BY <1>4 DEF AbstractState
  <2> DEFINE d == Len(delivered) + 1
  <2>2. written = Start(d)
    BY <1>1, <1>4 DEF EndIsTruthful, Start
  <2>3. /\ ends \in Seq(Nat) /\ delivered \in Seq(Nat) /\ Len(delivered) \in Nat
        /\ Len(ends) \in Nat /\ Len(delivered) <= Len(ends) /\ written \in Nat
    BY DEF StreamOK, FramingTypeOK, InOrderAndWhole
  <2>4. Accepted = Len(delivered)
    <3>1. CASE d \in DOMAIN ends
      <4>1. written < ends[d] /\ ends[d] \in Nat
        BY <2>2, <2>3, <3>1, SeqDomain DEF StreamOK, EndsIncrease
      <4>2. d = Len(ends)
        <5>1. d \in Nat /\ d <= Len(ends)
          BY <2>3, <3>1, SeqDomain
        <5>2. ~(d < Len(ends))
          BY <4>1, <2>3, <3>1 DEF StreamOK, OneInFlight
        <5> QED BY <5>1, <5>2, <2>3
      <4>3. Total = ends[d]
        BY <4>2, <2>3 DEF Total, Start
      <4> QED BY <4>1, <4>2, <4>3, <2>3 DEF Accepted
    <3>2. CASE d \notin DOMAIN ends
      <4>1. Len(delivered) = Len(ends)
        BY <3>2, <2>3, SeqDomain
      <4>2. written = Total
        BY <4>1, <2>2 DEF Total
      <4> QED BY <4>1, <4>2 DEF Accepted
    <3> QED BY <3>1, <3>2
  <2>5. delivered = AbstractSent
    <3>1. \A k \in 1..Len(delivered) : delivered[k] = AbstractSent[k]
      BY <2>3, <2>4 DEF InOrderAndWhole, AbstractSent
    <3> QED BY <3>1, <2>3, <2>4 DEF AbstractSent
  <2> QED BY <1>1, <1>2, <2>1, <2>5 DEF AbstractSent, AbstractState, Channel!Next, Channel!End
<1> QED BY <1>1, <1>3, <1>4

LEMMA OthersImplement ==
    ASSUME FramingInv, CloseSocket \/ ReceiveFails \/ (\E n \in 1..BufferSize : Receive(n))
                       \/ UNCHANGED framingVars
    PROVE  [Channel!Next]_(Channel!vars)
<1>1. UNCHANGED <<ends, written, delivered>>
  BY DEF CloseSocket, ReceiveFails, Receive, framingVars, sender, receiver
<1>2. UNCHANGED AbstractSent
  BY <1>1, SentUnchanged
<1>3. UNCHANGED result \/ (result = "none" /\ result' \in {"failed", "too large"})
  BY DEF CloseSocket, ReceiveFails, Receive, framingVars, sender, receiver, Receiving
<1>4. UNCHANGED AbstractState \/ (AbstractState = "open" /\ AbstractState' = "failed")
  BY <1>3 DEF AbstractState
<1> QED BY <1>1, <1>2, <1>4
     DEF AbstractSent, AbstractState, Channel!Next, Channel!Fail, Channel!vars

LEMMA InitImplements == FramingInit => Channel!Init /\ SizesSent
<1> SUFFICES ASSUME FramingInit PROVE Channel!Init /\ SizesSent
  OBVIOUS
<1>1. Accepted = 0
  BY DEF FramingInit, Accepted, Total, Start
<1>2. [i \in 1..Accepted |-> ends[i] - Start(i) - 1] = <<>>
  BY <1>1
<1> QED BY <1>2 DEF FramingInit, Channel!Init, SizesSent

\* Framing implements the queue of messages: for the callers of send_message and
\* receive_message there are no chunks.
THEOREM FramingImplementsChannel == FramingSpec => ImplementsChannel
<1>1. FramingInit => Channel!Init /\ SizesSent
  BY InitImplements
<1>2. FramingInv /\ FramingInv' /\ SizesSent /\ SizesSent' /\ [FramingNext]_framingVars
      => [Channel!Next]_(Channel!vars)
  BY SenderImplements, TakeImplements, EndImplements, OthersImplement
     DEF FramingNext, ReceiveMessage
<1>3. FramingInv /\ SizesSent /\ [FramingNext]_framingVars => SizesSent'
  BY SizesInductive
<1> QED BY <1>1, <1>2, <1>3, FramingInvariant, PTL DEF FramingSpec, ImplementsChannel, Channel!Spec

-------------------------------------------------------------------------------
(* Messages in a queue.                                                    *)

HasResponse(q) == \E n \in DOMAIN q : q[n].line = 0

\* What is in a queue after one more message, or one less.
LEMMA AppendedMessages ==
    ASSUME NEW S, NEW q \in Seq(S), NEW m \in S
    PROVE  /\ Append(q, m) \in Seq(S)
           /\ \A n \in DOMAIN Append(q, m) :
                 Append(q, m)[n] = m \/ (n \in DOMAIN q /\ Append(q, m)[n] = q[n])
           /\ \A n \in DOMAIN q : n \in DOMAIN Append(q, m) /\ Append(q, m)[n] = q[n]
           /\ \E n \in DOMAIN Append(q, m) : Append(q, m)[n] = m
BY AppendProperties, LenProperties

LEMMA RemainingMessages ==
    ASSUME NEW S, NEW q \in Seq(S), q # <<>>
    PROVE  /\ Head(q) \in S /\ Tail(q) \in Seq(S)
           /\ 1 \in DOMAIN q /\ Head(q) = q[1]
           /\ \A n \in DOMAIN Tail(q) : n + 1 \in DOMAIN q /\ Tail(q)[n] = q[n + 1]
           /\ \A n \in DOMAIN q : n # 1 => n - 1 \in DOMAIN Tail(q) /\ Tail(q)[n - 1] = q[n]
<1>1. /\ DOMAIN q = 1..Len(q) /\ Len(q) \in Nat \ {0}
      /\ Tail(q) \in Seq(S) /\ Len(Tail(q)) = Len(q) - 1
      /\ \A i \in 1..Len(Tail(q)) : Tail(q)[i] = q[i + 1]
      /\ Head(q) \in S
  BY HeadTailProperties, LenProperties, EmptySeq
<1>2. DOMAIN Tail(q) = 1..(Len(q) - 1)
  BY <1>1, LenProperties
<1>3. Head(q) = q[1]
  OBVIOUS
<1> QED BY <1>1, <1>2, <1>3

\* A message that is sent comes last ...
LEMMA SentComesLast ==
    ASSUME NEW S, NEW s \in Seq(S), NEW t \in Seq(S), NEW m \in S
    PROVE  s \o Append(t, m) = Append(s \o t, m)
<1>1. Append(t, m) = t \o <<m>> /\ Append(s \o t, m) = (s \o t) \o <<m>> /\ <<m>> \in Seq(S)
  BY AppendIsConcat, ConcatProperties
<1> QED BY <1>1, ConcatAssociative

\* ... and one that is read and displayed stays where it is.
LEMMA ReadStaysInPlace ==
    ASSUME NEW S, NEW s \in Seq(S), NEW t \in Seq(S), t # <<>>
    PROVE  Append(s, Head(t)) \o Tail(t) = s \o t
<1>1. t = <<Head(t)>> \o Tail(t) /\ Tail(t) \in Seq(S) /\ <<Head(t)>> \in Seq(S)
  <2>1. Head(t) \in S /\ Tail(t) \in Seq(S) /\ <<Head(t)>> \in Seq(S)
    BY HeadTailProperties
  <2>2. t = <<Head(t)>> \o Tail(t)
    BY <2>1, SubSeqRecursiveFirst, SubSeqFull, TailIsSubSeq, HeadTailProperties,
       LenProperties, EmptySeq
  <2> QED BY <2>1, <2>2
<1>2. Append(s, Head(t)) = s \o <<Head(t)>>
  BY HeadTailProperties, AppendIsConcat
<1> QED BY <1>1, <1>2, ConcatAssociative

\* The first k lines of b.
LinesTo(b, k) == [n \in 1..k |-> [by |-> b, line |-> n]]

LEMMA LinesToType ==
    ASSUME MaxLines \in Nat, NEW b \in Build, NEW k \in 0..(MaxLines + 1)
    PROVE  LinesTo(b, k) \in Seq(Message) /\ Len(LinesTo(b, k)) = k
BY SeqDef DEF LinesTo, Message

LEMMA LinesGrow ==
    ASSUME MaxLines \in Nat, NEW b \in Build, NEW k \in 0..MaxLines
    PROVE  Append(LinesTo(b, k), [by |-> b, line |-> k + 1]) = LinesTo(b, k + 1)
<1>1. ASSUME NEW j \in 0..(MaxLines + 1)
      PROVE  LinesTo(b, j) \in Seq(Message) /\ Len(LinesTo(b, j)) = j
  BY LinesToType
<1>2. [by |-> b, line |-> k + 1] \in Message
  BY DEF Message
<1> DEFINE a == Append(LinesTo(b, k), [by |-> b, line |-> k + 1])
<1>3. a \in Seq(Message) /\ Len(a) = k + 1
  BY <1>1, <1>2, AppendProperties
<1>4. \A i \in 1..(k + 1) : a[i] = LinesTo(b, k + 1)[i]
  BY <1>1, <1>2, AppendProperties DEF LinesTo
<1> QED BY <1>1, <1>3, <1>4, SeqEqual

-------------------------------------------------------------------------------
(* The types, and the answer.                                              *)

Answered(c) ==
    /\ pc[c] = "none" => answer[c] = "none"
    /\ pc[c] \in {"fail", "restoreOut", "restoreErr", "respond", "close"} => answer[c] \in Answer
    /\ pc[c] \in {"close", "over"} /\ client[c] = "reading" /\ answer[c] # "none" =>
          HasResponse(wire[c])
    /\ \A n \in DOMAIN wire[c] : wire[c][n].line = 0 =>
          wire[c][n].by = c /\ pc[c] \in {"close", "over"} /\ answer[c] \in Answer
    /\ client[c] = "disconnected" => answer[c] = "none" /\ pc[c] = "over"
    /\ client[c] \in Answer => client[c] = answer[c] /\ pc[c] \in {"close", "over"}

\* Only the message that says why a build failed comes after the last of its lines.
Counted(b) ==
    /\ pc[b] \in {"none", "saveOut", "saveErr", "swapOut", "swapErr", "run", "print", "blank",
                  "fail"} =>
          printed[b] <= MaxLines
    /\ pc[b] = "print" => printed[b] >= 1

AnswerInv == OutputTypeOK /\ \A c \in Build : Answered(c) /\ Counted(c)

LEMMA InitAnswer ==
    ASSUME OutputInit
    PROVE  AnswerInv
<1>1. <<>> \in Seq(Message) /\ DOMAIN <<>> = {}
  BY EmptySeq
<1>q. wire \in [Build -> Seq(Message)] /\ shown \in [Build -> Seq(Message)]
  BY <1>1 DEF OutputInit
<1>s. /\ std \in [Stream -> Build \cup {Console}]
      /\ saved \in [Build -> [Stream -> Build \cup {Console}]]
  BY DEF OutputInit
<1>r. /\ pc \in [Build -> Redirecting \cup {"none", "respond", "close", "over"}]
      /\ held \in [Build -> Build \cup {Console}]
      /\ printed \in [Build -> 0..(MaxLines + 1)] /\ blanks \in [Build -> 0..MaxLines]
      /\ answer \in [Build -> Answer \cup {"none"}]
      /\ client \in [Build -> Answer \cup {"reading", "disconnected", "gone"}]
      /\ overlap \in BOOLEAN
      /\ \A b \in Build : pc[b] = "none"
  <2>1. 0 \in 0..(MaxLines + 1) /\ 0 \in 0..MaxLines
    BY OutputAssumption
  <2> QED BY <2>1 DEF OutputInit
<1>2. OutputTypeOK
  BY <1>q, <1>r, <1>s DEF OutputTypeOK
<1>3. ASSUME NEW c \in Build
      PROVE  Answered(c) /\ Counted(c)
  BY <1>1, OutputAssumption DEF OutputInit, Answered, Counted, Answer
<1> QED BY <1>2, <1>3 DEF AnswerInv

\* What a message does to the queues.
LEMMA DeliveredMessage ==
    ASSUME OutputTypeOK, NEW c \in Build, NEW m \in Message, Deliver(c, m)
    PROVE  /\ wire' \in [Build -> Seq(Message)]
           /\ \A d \in Build : d # c \/ ~Connected(c) => wire'[d] = wire[d]
           /\ Connected(c) => wire'[c] = Append(wire[c], m)
           /\ \A d \in Build : \A n \in DOMAIN wire'[d] :
                 \/ d = c /\ Connected(c) /\ wire'[d][n] = m
                 \/ n \in DOMAIN wire[d] /\ wire'[d][n] = wire[d][n]
           /\ \A d \in Build : HasResponse(wire[d]) => HasResponse(wire'[d])
<1>1. /\ wire' \in [Build -> Seq(Message)]
      /\ \A d \in Build : d # c \/ ~Connected(c) => wire'[d] = wire[d]
      /\ Connected(c) => wire'[c] = Append(wire[c], m)
  BY AppendProperties DEF Deliver, OutputTypeOK
<1>2. wire[c] \in Seq(Message)
  BY DEF OutputTypeOK
<1>3. \A n \in DOMAIN Append(wire[c], m) :
         Append(wire[c], m)[n] = m \/ (n \in DOMAIN wire[c] /\ Append(wire[c], m)[n] = wire[c][n])
  BY <1>2, AppendedMessages
<1>4. \A n \in DOMAIN wire[c] :
         n \in DOMAIN Append(wire[c], m) /\ Append(wire[c], m)[n] = wire[c][n]
  BY <1>2, AppendedMessages
<1>5. ASSUME NEW d \in Build, HasResponse(wire[d])
      PROVE  HasResponse(wire'[d])
  BY <1>1, <1>4, <1>5 DEF HasResponse
<1>6. ASSUME NEW d \in Build, NEW n \in DOMAIN wire'[d]
      PROVE  \/ d = c /\ Connected(c) /\ wire'[d][n] = m
             \/ n \in DOMAIN wire[d] /\ wire'[d][n] = wire[d][n]
  BY <1>1, <1>3, <1>6
<1> QED BY <1>1, <1>5, <1>6

\* A step of b's handler that sends no message.
Silent(b) ==
    \/ TurnAway(b) \/ Begin(b) \/ Save(b) \/ Swap(b) \/ Line(b) \/ WriteBlank(b) \/ Finish(b)
    \/ Restore(b) \/ Close(b)

LEMMA SilentAnswer ==
    ASSUME AnswerInv, NEW b \in Build, Silent(b)
    PROVE  AnswerInv'
<1>a. /\ MaxLines \in Nat /\ OutputTypeOK
      /\ \A c \in Build : Answered(c) /\ Counted(c)
  BY OutputAssumption DEF AnswerInv
<1>n. pc[b] = "none" => answer[b] = "none"
  BY <1>a DEF Answered
<1>b. UNCHANGED <<wire, client, shown>>
  BY DEF Silent, TurnAway, Begin, Save, Swap, Line, WriteBlank, Finish, Restore, Close
<1>c. /\ \A c \in Build \ {b} :
            pc'[c] = pc[c] /\ answer'[c] = answer[c] /\ printed'[c] = printed[c]
      /\ \/ pc'[b] \notin {"close", "over"} /\ pc[b] \notin {"close", "over"}
         \/ pc[b] = "none" /\ pc'[b] = "over" /\ answer'[b] = answer[b]
         \/ pc[b] = "close" /\ pc'[b] = "over" /\ answer'[b] = answer[b]
  BY <1>a DEF Silent, TurnAway, Begin, Save, Swap, Line, WriteBlank, Finish, Restore, Close, Goto,
              OutputTypeOK, serverVars
<1>1. OutputTypeOK'
  <2> USE <1>a, <1>b DEF OutputTypeOK, Goto, serverVars
  <2>1. CASE TurnAway(b)
    BY <2>1 DEF TurnAway, Redirecting
  <2>2. CASE Begin(b)
    BY <2>2 DEF Begin, Redirecting, Answer
  <2>o. "output" \in Stream /\ "error" \in Stream
    BY DEF Stream
  <2>3. CASE Save(b)
    <3>1. /\ saved' \in [Build -> [Stream -> Build \cup {Console}]]
          /\ UNCHANGED <<std, held, printed, blanks, answer, overlap>>
      <4>1. \E s \in Stream : saved' = [saved EXCEPT ![b][s] = std[s]]
        BY <2>3, <2>o DEF Save
      <4>2. \A s \in Stream :
               [saved EXCEPT ![b][s] = std[s]] \in [Build -> [Stream -> Build \cup {Console}]]
        BY <2>o
      <4> QED BY <2>3, <4>1, <4>2 DEF Save
    <3>2. /\ pc'[b] \in Redirecting /\ pc'[b] \notin {"respond", "close"}
          /\ pc' = [pc EXCEPT ![b] = pc'[b]]
      BY <2>3 DEF Save, Redirecting
    <3> QED BY <3>1, <3>2
  <2>8. CASE Restore(b)
    <3>1. /\ std' \in [Stream -> Build \cup {Console}]
          /\ UNCHANGED <<saved, held, printed, blanks, answer, overlap>>
      <4>1. \E s \in Stream : std' = [std EXCEPT ![s] = saved[b][s]]
        BY <2>8, <2>o DEF Restore
      <4>2. \A s \in Stream : saved[b][s] \in Build \cup {Console}
        OBVIOUS
      <4> QED BY <2>8, <4>1, <4>2 DEF Restore
    <3>2. /\ pc'[b] \in Redirecting \cup {"respond"} /\ pc' = [pc EXCEPT ![b] = pc'[b]]
          /\ answer[b] \in Answer
      BY <2>8 DEF Restore, Redirecting, Answered
    <3>3. /\ pc' \in [Build -> Redirecting \cup {"none", "respond", "close", "over"}]
          /\ \A c \in Build : pc'[c] \in {"respond", "close"} => answer[c] \in Answer
      BY <3>2
    <3> QED BY <3>1, <3>3
  <2>4. CASE Swap(b)
    <3>1. /\ std' \in [Stream -> Build \cup {Console}]
          /\ UNCHANGED <<saved, held, printed, blanks, answer, overlap>>
      <4>1. \E s \in Stream : std' = [std EXCEPT ![s] = b]
        BY <2>4, <2>o DEF Swap
      <4> QED BY <2>4, <4>1 DEF Swap
    <3>2. /\ pc'[b] \in Redirecting /\ pc'[b] \notin {"respond", "close"}
          /\ pc' = [pc EXCEPT ![b] = pc'[b]]
      BY <2>4 DEF Swap, Redirecting
    <3> QED BY <3>1, <3>2
  <2>5. CASE Line(b)
    <3>1. /\ held' \in [Build -> Build \cup {Console}] /\ printed' \in [Build -> 0..(MaxLines + 1)]
          /\ blanks' \in [Build -> 0..MaxLines]
          /\ UNCHANGED <<std, saved, answer, overlap>>
      <4>1. printed[b] \in 0..(MaxLines + 1) /\ blanks[b] \in 0..MaxLines
        OBVIOUS
      <4>2. printed[b] + 1 \in 0..(MaxLines + 1) /\ blanks[b] + 1 \in 0..MaxLines
        <5>1. printed[b] + blanks[b] < MaxLines /\ MaxLines \in Nat
          BY <2>5 DEF Line
        <5> QED BY ONLY <4>1, <5>1
      <4>3. held' \in [Build -> Build \cup {Console}]
        BY <2>5, <2>o DEF Line
      <4>4. /\ printed' = printed \/ printed' = [printed EXCEPT ![b] = printed[b] + 1]
            /\ blanks' = blanks \/ blanks' = [blanks EXCEPT ![b] = blanks[b] + 1]
            /\ UNCHANGED <<std, saved, answer, overlap>>
        BY <2>5 DEF Line
      <4>5. /\ printed \in [Build -> 0..(MaxLines + 1)] /\ blanks \in [Build -> 0..MaxLines]
        OBVIOUS
      <4>6. printed' \in [Build -> 0..(MaxLines + 1)] /\ blanks' \in [Build -> 0..MaxLines]
        BY ONLY <4>2, <4>4, <4>5
      <4> QED BY <4>3, <4>4, <4>6
    <3>2. /\ pc'[b] \in Redirecting /\ pc'[b] \notin {"respond", "close"}
          /\ pc' = [pc EXCEPT ![b] = pc'[b]]
      BY <2>5 DEF Line, Redirecting
    <3> QED BY <3>1, <3>2
  <2>9. CASE WriteBlank(b)
    <3>1. /\ held' \in [Build -> Build \cup {Console}]
          /\ UNCHANGED <<std, saved, printed, blanks, answer, overlap>>
      BY <2>9 DEF WriteBlank
    <3>2. /\ pc'[b] \in Redirecting /\ pc'[b] \notin {"respond", "close"}
          /\ pc' = [pc EXCEPT ![b] = pc'[b]]
      BY <2>9 DEF WriteBlank, Redirecting
    <3> QED BY <3>1, <3>2
  <2>6. CASE Finish(b)
    BY <2>6 DEF Finish, Redirecting, Answer
  <2>7. CASE Close(b)
    BY <2>7 DEF Close
  <2> QED BY <2>1, <2>2, <2>3, <2>4, <2>5, <2>6, <2>7, <2>8, <2>9 DEF Silent
<1>2. Counted(b)'
  BY <1>a DEF Silent, TurnAway, Begin, Save, Swap, Line, WriteBlank, Finish, Restore, Close, Counted,
              Goto, OutputTypeOK,
     serverVars
<1>3. Answered(b)'
  <2>1. /\ pc'[b] \in {"fail", "restoreOut", "restoreErr", "respond", "close"} =>
              answer'[b] \in Answer
        /\ pc'[b] \in {"close", "over"} =>
              pc[b] = "close" \/ (pc[b] = "none" /\ answer'[b] = answer[b])
    BY <1>a DEF Silent, TurnAway, Begin, Save, Swap, Line, WriteBlank, Finish, Restore, Close, Answered,
                Answer,
       Goto, OutputTypeOK, serverVars
  <2>2. pc'[b] = "none" => answer'[b] = "none"
    BY <1>a, <1>c DEF Silent, TurnAway, Begin, Save, Swap, Line, WriteBlank, Finish, Restore, Close,
                      Goto, OutputTypeOK
  <2> QED BY <1>a, <1>b, <1>c, <1>n, <2>1, <2>2 DEF Answered
<1>4. ASSUME NEW c \in Build \ {b}
      PROVE  Answered(c)' /\ Counted(c)'
  BY <1>a, <1>b, <1>c, <1>4 DEF Answered, Counted
<1> QED BY <1>1, <1>2, <1>3, <1>4 DEF AnswerInv

LEMMA WriteLineAnswer ==
    ASSUME AnswerInv, NEW b \in Build, WriteLine(b)
    PROVE  AnswerInv'
<1>a. /\ MaxLines \in Nat /\ OutputTypeOK
      /\ \A c \in Build : Answered(c) /\ Counted(c)
  BY OutputAssumption DEF AnswerInv
<1> DEFINE m == [by |-> b, line |-> printed[b]]
<1>b. /\ pc[b] = "print" /\ pc' = [pc EXCEPT ![b] = "run"]
      /\ held' = [held EXCEPT ![b] = Console]
      /\ UNCHANGED <<std, saved, printed, blanks, answer, client, shown, overlap>>
  BY DEF WriteLine, Goto
<1>c. m \in Message /\ m.line # 0
  BY <1>a, <1>b DEF Message, OutputTypeOK, Counted
<1>d. /\ wire' \in [Build -> Seq(Message)]
      /\ \A d \in Build : \A n \in DOMAIN wire'[d] :
            wire'[d][n] = m \/ (n \in DOMAIN wire[d] /\ wire'[d][n] = wire[d][n])
      /\ \A d \in Build : HasResponse(wire[d]) => HasResponse(wire'[d])
  <2>1. CASE held[b] = Console
    BY <1>a, <2>1 DEF WriteLine, OutputTypeOK
  <2>2. CASE held[b] # Console
    <3>1. held[b] \in Build /\ Deliver(held[b], m)
      BY <1>a, <2>2 DEF WriteLine, OutputTypeOK
    <3> HIDE DEF m
    <3> QED BY <1>a, <1>c, <3>1, DeliveredMessage
  <2> QED BY <2>1, <2>2
<1> HIDE DEF m
<1>1. OutputTypeOK'
  <2>1. /\ pc'[b] \in Redirecting /\ pc'[b] \notin {"respond", "close"}
        /\ pc' = [pc EXCEPT ![b] = pc'[b]]
    BY <1>a, <1>b DEF OutputTypeOK, Redirecting
  <2> QED BY <1>a, <1>b, <1>d, <2>1 DEF OutputTypeOK
<1>2. ASSUME NEW c \in Build
      PROVE  Answered(c)' /\ Counted(c)'
  <2>1. /\ pc'[c] = pc[c] \/ (pc[c] = "print" /\ pc'[c] = "run")
        /\ answer'[c] = answer[c] /\ client'[c] = client[c] /\ printed'[c] = printed[c]
    BY <1>a, <1>b DEF OutputTypeOK
  <2>2. \A n \in DOMAIN wire'[c] : wire'[c][n].line = 0 =>
           n \in DOMAIN wire[c] /\ wire'[c][n] = wire[c][n]
    BY <1>c, <1>d
  <2> QED BY <1>a, <1>d, <2>1, <2>2 DEF Answered, Counted
<1> QED BY <1>1, <1>2 DEF AnswerInv

LEMMA FailAnswer ==
    ASSUME AnswerInv, NEW b \in Build, Fail(b)
    PROVE  AnswerInv'
<1>a. /\ MaxLines \in Nat /\ OutputTypeOK
      /\ \A c \in Build : Answered(c) /\ Counted(c)
  BY OutputAssumption DEF AnswerInv
<1> DEFINE m == [by |-> b, line |-> printed[b] + 1]
<1>b. /\ pc[b] = "fail" /\ pc' = [pc EXCEPT ![b] = "restoreOut"]
      /\ printed' = [printed EXCEPT ![b] = printed[b] + 1] /\ Deliver(b, m)
      /\ UNCHANGED <<std, saved, held, blanks, answer, client, shown, overlap>>
  BY DEF Fail, Goto
<1>c. printed[b] + 1 \in 0..(MaxLines + 1) /\ m \in Message /\ m.line # 0
  BY <1>a, <1>b DEF Message, OutputTypeOK, Counted
<1> HIDE DEF m
<1>d. /\ wire' \in [Build -> Seq(Message)]
      /\ \A d \in Build : \A n \in DOMAIN wire'[d] :
            wire'[d][n] = m \/ (n \in DOMAIN wire[d] /\ wire'[d][n] = wire[d][n])
      /\ \A d \in Build : HasResponse(wire[d]) => HasResponse(wire'[d])
  BY <1>a, <1>b, <1>c, DeliveredMessage
<1>1. OutputTypeOK'
  <2>1. /\ pc'[b] \in Redirecting /\ pc'[b] \notin {"respond", "close"}
        /\ pc' = [pc EXCEPT ![b] = pc'[b]]
    BY <1>a, <1>b DEF OutputTypeOK, Redirecting
  <2> QED BY <1>a, <1>b, <1>c, <1>d, <2>1 DEF OutputTypeOK
<1>2. ASSUME NEW c \in Build
      PROVE  Answered(c)' /\ Counted(c)'
  <2>1. /\ \/ pc'[c] = pc[c] /\ printed'[c] = printed[c]
           \/ pc[c] = "fail" /\ pc'[c] = "restoreOut"
        /\ answer'[c] = answer[c] /\ client'[c] = client[c]
    BY <1>a, <1>b DEF OutputTypeOK
  <2>2. \A n \in DOMAIN wire'[c] : wire'[c][n].line = 0 =>
           n \in DOMAIN wire[c] /\ wire'[c][n] = wire[c][n]
    BY <1>c, <1>d
  <2> QED BY <1>a, <1>d, <2>1, <2>2 DEF Answered, Counted
<1> QED BY <1>1, <1>2 DEF AnswerInv

LEMMA RespondAnswer ==
    ASSUME AnswerInv, NEW b \in Build, Respond(b)
    PROVE  AnswerInv'
<1>a. /\ MaxLines \in Nat /\ OutputTypeOK
      /\ \A c \in Build : Answered(c) /\ Counted(c)
  BY OutputAssumption DEF AnswerInv
<1> DEFINE m == Response(b)
<1>b. /\ pc[b] = "respond" /\ pc' = [pc EXCEPT ![b] = "close"] /\ Deliver(b, m)
      /\ UNCHANGED <<std, saved, held, printed, blanks, answer, client, shown, overlap>>
  BY DEF Respond, Goto, serverVars, Response
<1>c. m \in Message /\ m.line = 0 /\ m.by = b
  BY <1>a DEF Message, Response
<1> HIDE DEF m
<1>d. /\ wire' \in [Build -> Seq(Message)]
      /\ Connected(b) => wire'[b] = Append(wire[b], m)
      /\ \A d \in Build : \A n \in DOMAIN wire'[d] :
            \/ d = b /\ wire'[d][n] = m
            \/ n \in DOMAIN wire[d] /\ wire'[d][n] = wire[d][n]
      /\ \A d \in Build : HasResponse(wire[d]) => HasResponse(wire'[d])
  BY <1>a, <1>b, <1>c, DeliveredMessage
<1>1. OutputTypeOK'
  <2>1. answer[b] \in Answer
    BY <1>a, <1>b DEF OutputTypeOK
  <2>2. pc' \in [Build -> Redirecting \cup {"none", "respond", "close", "over"}]
    BY <1>a, <1>b DEF OutputTypeOK
  <2>3. \A c \in Build : pc'[c] \in {"respond", "close"} => answer'[c] \in Answer
    BY <1>a, <1>b, <2>1 DEF OutputTypeOK
  <2> QED BY <1>a, <1>b, <1>d, <2>2, <2>3 DEF OutputTypeOK
<1>2. client[b] = "reading" => HasResponse(wire'[b])
  <2>1. client[b] = "reading" => Connected(b)
    BY <1>b DEF Connected
  <2>2. \E n \in DOMAIN Append(wire[b], m) : Append(wire[b], m)[n] = m
    BY <1>a, <1>c, AppendedMessages DEF OutputTypeOK
  <2> QED BY <1>c, <1>d, <2>1, <2>2 DEF HasResponse
<1>3. ASSUME NEW c \in Build
      PROVE  Answered(c)' /\ Counted(c)'
  <2>1. /\ IF c = b THEN pc[c] = "respond" /\ pc'[c] = "close" ELSE pc'[c] = pc[c]
        /\ answer'[c] = answer[c] /\ client'[c] = client[c] /\ printed'[c] = printed[c]
    BY <1>a, <1>b DEF OutputTypeOK
  <2> QED BY <1>a, <1>c, <1>d, <1>2, <2>1 DEF Answered, Counted
<1> QED BY <1>1, <1>3 DEF AnswerInv

\* The client's steps.
LEMMA ReadAnswer ==
    ASSUME AnswerInv, NEW b \in Build, Read(b)
    PROVE  AnswerInv'
<1>a. OutputTypeOK /\ \A c \in Build : Answered(c) /\ Counted(c)
  BY DEF AnswerInv
<1> DEFINE m == Head(wire[b])
<1>b. /\ client[b] = "reading" /\ wire[b] # <<>> /\ wire' = [wire EXCEPT ![b] = Tail(wire[b])]
      /\ m.line = 0 => client' = [client EXCEPT ![b] = answer[m.by]] /\ UNCHANGED shown
      /\ m.line # 0 => shown' = [shown EXCEPT ![b] = Append(shown[b], m)] /\ UNCHANGED client
      /\ UNCHANGED <<std, saved, held, printed, blanks, answer, pc, overlap>>
  BY DEF Read, serverVars
<1>c. /\ m \in Message /\ Tail(wire[b]) \in Seq(Message)
      /\ 1 \in DOMAIN wire[b] /\ m = wire[b][1]
      /\ \A n \in DOMAIN Tail(wire[b]) :
            n + 1 \in DOMAIN wire[b] /\ Tail(wire[b])[n] = wire[b][n + 1]
      /\ \A n \in DOMAIN wire[b] :
            n # 1 => n - 1 \in DOMAIN Tail(wire[b]) /\ Tail(wire[b])[n - 1] = wire[b][n]
  <2>1. wire[b] \in Seq(Message)
    BY <1>a DEF OutputTypeOK
  <2> QED BY <1>b, <2>1, RemainingMessages
<1> HIDE DEF m
<1>d. m.line = 0 => m.by = b /\ pc[b] \in {"close", "over"} /\ answer[b] \in Answer
  BY <1>a, <1>c DEF Answered
<1>e. m.line # 0 => (HasResponse(wire[b]) => HasResponse(Tail(wire[b])))
  BY <1>c DEF HasResponse
<1>1. OutputTypeOK'
  <2>1. m.line # 0 => Append(shown[b], m) \in Seq(Message)
    BY <1>a, <1>c, AppendProperties DEF OutputTypeOK
  <2>2. wire' \in [Build -> Seq(Message)] /\ shown' \in [Build -> Seq(Message)]
    BY <1>a, <1>b, <1>c, <2>1 DEF OutputTypeOK
  <2>3. client' \in [Build -> Answer \cup {"reading", "disconnected", "gone"}]
    BY <1>a, <1>b, <1>d DEF OutputTypeOK
  <2> QED BY <1>a, <1>b, <2>2, <2>3 DEF OutputTypeOK
<1>2. Answered(b)' /\ Counted(b)'
  <2>1. wire'[b] = Tail(wire[b])
    BY <1>a, <1>b DEF OutputTypeOK
  <2>2. \A n \in DOMAIN wire'[b] : wire'[b][n].line = 0 =>
           wire'[b][n].by = b /\ pc[b] \in {"close", "over"} /\ answer[b] \in Answer
    BY <1>a, <1>c, <2>1 DEF Answered
  <2>3. CASE m.line = 0
    <3>1. client'[b] = answer[b] /\ answer[b] \in Answer /\ pc[b] \in {"close", "over"}
      BY <1>a, <1>b, <1>d, <2>3 DEF OutputTypeOK
    <3> QED BY <1>a, <1>b, <2>2, <3>1 DEF Answered, Counted, Answer
  <2>4. CASE m.line # 0
    BY <1>a, <1>b, <1>e, <2>1, <2>2, <2>4 DEF Answered, Counted
  <2> QED BY <2>3, <2>4
<1>3. ASSUME NEW c \in Build \ {b}
      PROVE  Answered(c)' /\ Counted(c)'
  <2>1. wire'[c] = wire[c] /\ client'[c] = client[c]
    BY <1>a, <1>b DEF OutputTypeOK
  <2> QED BY <1>a, <1>b, <2>1 DEF Answered, Counted
<1> QED BY <1>1, <1>2, <1>3 DEF AnswerInv

LEMMA GoneAnswer ==
    ASSUME AnswerInv, NEW b \in Build, ReadEnd(b) \/ Leave(b)
    PROVE  AnswerInv'
<1>a. OutputTypeOK /\ \A c \in Build : Answered(c) /\ Counted(c)
  BY DEF AnswerInv
<1>b. UNCHANGED <<std, saved, held, printed, blanks, answer, pc, shown, overlap>>
  BY DEF ReadEnd, Leave, serverVars
<1>e. <<>> \in Seq(Message) /\ DOMAIN <<>> = {}
  BY EmptySeq
<1>c. \/ /\ client[b] = "reading" /\ client' = [client EXCEPT ![b] = "disconnected"]
         /\ pc[b] = "over" /\ wire[b] = <<>> /\ wire' = wire
      \/ /\ client[b] = "reading" /\ client' = [client EXCEPT ![b] = "gone"]
         /\ wire' = [wire EXCEPT ![b] = <<>>]
  BY DEF ReadEnd, Leave
<1>1. OutputTypeOK'
  <2>1. wire' \in [Build -> Seq(Message)]
    BY <1>a, <1>c, <1>e DEF OutputTypeOK
  <2>2. client' \in [Build -> Answer \cup {"reading", "disconnected", "gone"}]
    BY <1>a, <1>c DEF OutputTypeOK
  <2> QED BY <1>a, <1>b, <2>1, <2>2 DEF OutputTypeOK
<1>2. Answered(b)' /\ Counted(b)'
  <2>1. wire[b] = <<>> => ~HasResponse(wire[b])
    BY <1>e DEF HasResponse
  <2>2. \/ client'[b] = "disconnected" /\ wire'[b] = wire[b] /\ pc[b] = "over" /\ answer[b] = "none"
        \/ client'[b] = "gone" /\ DOMAIN wire'[b] = {}
    BY <1>a, <1>c, <1>e, <2>1 DEF OutputTypeOK, Answered
  <2> QED BY <1>a, <1>b, <2>2 DEF Answered, Counted, Answer
<1>3. ASSUME NEW c \in Build \ {b}
      PROVE  Answered(c)' /\ Counted(c)'
  <2>1. wire'[c] = wire[c] /\ client'[c] = client[c]
    BY <1>a, <1>c DEF OutputTypeOK
  <2> QED BY <1>a, <1>b, <2>1 DEF Answered, Counted
<1> QED BY <1>1, <1>2, <1>3 DEF AnswerInv

LEMMA NextAnswer ==
    ASSUME AnswerInv, [OutputNext]_outputVars
    PROVE  AnswerInv'
<1>1. ASSUME NEW b \in Build, TurnAway(b) \/ Begin(b) \/ Handle(b)
                               \/ Read(b) \/ ReadEnd(b) \/ Leave(b)
      PROVE  AnswerInv'
  BY <1>1, SilentAnswer, WriteLineAnswer, FailAnswer, RespondAnswer, ReadAnswer, GoneAnswer
     DEF Handle, Silent
<1>2. CASE UNCHANGED outputVars
  BY <1>2 DEF outputVars, serverVars, AnswerInv, OutputTypeOK, Answered, Counted
<1> QED BY <1>1, <1>2 DEF OutputNext

\* Throughout, the streams lead to a build's client or to the console, and a build that is
\* to be answered has an exit status (the result of handle_build_request).
THEOREM OutputTypes == OutputSpec => []OutputTypeOK
<1>1. AnswerInv => OutputTypeOK
  BY DEF AnswerInv
<1>2. OutputInit => AnswerInv
  BY InitAnswer
<1>3. AnswerInv /\ [OutputNext]_outputVars => AnswerInv'
  BY NextAnswer
<1> QED
  BY <1>1, <1>2, <1>3, PTL DEF OutputSpec

\* However many builds run, and wherever their output goes: a client that has waited has
\* the exit status of its own build, and its build is over (send_build_request).
THEOREM AnswersAreTrue == OutputSpec => []AnsweredTruly
<1>1. AnswerInv => AnsweredTruly
  BY DEF AnswerInv, Answered, AnsweredTruly
<1>2. OutputInit => AnswerInv
  BY InitAnswer
<1>3. AnswerInv /\ [OutputNext]_outputVars => AnswerInv'
  BY NextAnswer
<1> QED
  BY <1>1, <1>2, <1>3, PTL DEF OutputSpec

-------------------------------------------------------------------------------
(* One build at a time: the streams.                                       *)

\* What b has found in the streams, where they lead while it is where it is, and that it
\* has them for itself.
StreamsOK(b) ==
    /\ pc[b] \in Redirecting \ {"saveOut"} => saved[b]["output"] = Console
    /\ pc[b] \in Redirecting \ {"saveOut", "saveErr"} => saved[b]["error"] = Console
    /\ pc[b] \in Redirecting => \A c \in Streaming : c = b
    /\ pc[b] \in {"swapErr", "run", "print", "blank", "fail", "restoreOut"} => std["output"] = b
    /\ pc[b] \in {"run", "print", "blank", "fail", "restoreOut", "restoreErr"} => std["error"] = b
    /\ pc[b] \in {"saveOut", "saveErr", "swapOut", "restoreErr"} => std["output"] = Console
    /\ pc[b] \in {"saveOut", "saveErr", "swapOut", "swapErr"} => std["error"] = Console
    /\ pc[b] = "print" => held[b] = b

StreamsInv ==
    ~overlap =>
        /\ \A b \in Build : StreamsOK(b)
        /\ Streaming = {} => \A s \in Stream : std[s] = Console

\* A step before the first or after the last of b's steps on the streams.
LEMMA AwayStreams ==
    ASSUME StreamsInv, UNCHANGED <<std, saved, held>>, overlap' \/ ~overlap,
           \A c \in Build : pc'[c] = pc[c] \/ (pc[c] \notin Redirecting /\ pc'[c] \notin Redirecting)
    PROVE  StreamsInv'
<1>1. Streaming' = Streaming
  BY DEF Streaming
<1>2. ASSUME ~overlap, NEW c \in Build, StreamsOK(c)
      PROVE  StreamsOK(c)'
  BY <1>1, <1>2 DEF StreamsOK, Redirecting
<1> QED BY <1>1, <1>2 DEF StreamsInv

LEMMA BeginStreams ==
    ASSUME OutputTypeOK, StreamsInv, NEW b \in Build, Begin(b)
    PROVE  StreamsInv'
<1>1. CASE pc' = [pc EXCEPT ![b] = "respond"] /\ pc[b] = "none" /\ UNCHANGED overlap
  BY <1>1, AwayStreams DEF Begin, OutputTypeOK, Redirecting
<1>2. CASE pc' = [pc EXCEPT ![b] = "saveOut"] /\ overlap' = (overlap \/ Streaming # {})
  <2> SUFFICES ASSUME ~overlap'
               PROVE  /\ \A c \in Build : StreamsOK(c)'
                      /\ Streaming' # {}
    BY DEF StreamsInv
  <2>1. Streaming = {} /\ \A s \in Stream : std'[s] = Console
    BY <1>2 DEF StreamsInv, Begin
  <2>2. pc'[b] = "saveOut" /\ \A c \in Build \ {b} : pc'[c] \notin Redirecting
    BY <1>2, <2>1 DEF Streaming, OutputTypeOK
  <2>3. Streaming' = {b}
    BY <2>2 DEF Streaming, Redirecting
  <2>4. StreamsOK(b)'
    BY <2>1, <2>2, <2>3 DEF StreamsOK, Redirecting, Stream
  <2>5. ASSUME NEW c \in Build \ {b}
        PROVE  StreamsOK(c)'
    BY <2>2 DEF StreamsOK, Redirecting
  <2> QED BY <2>3, <2>4, <2>5
<1> QED BY <1>1, <1>2 DEF Begin, Goto

\* A step with the streams in b's hands.
Holding(b) ==
    \/ Save(b) \/ Swap(b) \/ Line(b) \/ WriteLine(b) \/ WriteBlank(b)
    \/ Finish(b) \/ Fail(b) \/ Restore(b)

LEMMA HoldingStreams ==
    ASSUME OutputTypeOK, StreamsInv, NEW b \in Build, Holding(b), Console \notin Build
    PROVE  StreamsInv'
<1>1. pc[b] \in Redirecting /\ overlap' = overlap
  BY DEF Holding, Save, Swap, Line, WriteLine, WriteBlank, Finish, Fail, Restore, Goto, Redirecting
<1> SUFFICES ASSUME ~overlap
             PROVE  /\ \A c \in Build : StreamsOK(c)'
                    /\ Streaming' = {} => \A s \in Stream : std'[s] = Console
  BY <1>1 DEF StreamsInv
<1>2. StreamsOK(b) /\ \A c \in Build \ {b} : pc[c] \notin Redirecting
  BY <1>1 DEF StreamsInv, StreamsOK, Streaming
<1>3. \A c \in Build \ {b} : pc'[c] \notin Redirecting
  BY <1>2 DEF Holding, Save, Swap, Line, WriteLine, WriteBlank, Finish, Fail, Restore, Goto,
              OutputTypeOK
<1>4. \A c \in Streaming' : c = b
  BY <1>3 DEF Streaming
<1>5. StreamsOK(b)' /\ (pc'[b] \notin Redirecting => \A s \in Stream : std'[s] = Console)
  <2> USE <1>2, <1>4 DEF Goto, OutputTypeOK, StreamsOK
  <2>1. CASE Save(b)
    BY <2>1 DEF Save, Redirecting, Stream
  <2>2. CASE Swap(b)
    BY <2>2 DEF Swap, Redirecting, Stream
  <2>3. CASE Line(b)
    BY <2>3 DEF Line, Redirecting, Stream
  <2>4. CASE WriteLine(b)
    BY <2>4 DEF WriteLine, Redirecting, Stream
  <2>8. CASE WriteBlank(b)
    BY <2>8 DEF WriteBlank, Redirecting, Stream
  <2>5. CASE Finish(b)
    BY <2>5 DEF Finish, Redirecting, Stream
  <2>6. CASE Fail(b)
    BY <2>6 DEF Fail, Redirecting, Stream
  <2>7. CASE Restore(b)
    BY <2>7 DEF Restore, Redirecting, Stream
  <2> QED BY <2>1, <2>2, <2>3, <2>4, <2>5, <2>6, <2>7, <2>8 DEF Holding
<1>6. ASSUME NEW c \in Build \ {b}
      PROVE  StreamsOK(c)'
  BY <1>3 DEF StreamsOK, Redirecting
<1> QED BY <1>5, <1>6 DEF Streaming

LEMMA NextStreams ==
    ASSUME OutputTypeOK, StreamsInv, [OutputNext]_outputVars
    PROVE  StreamsInv'
<1>1. ASSUME NEW b \in Build, TurnAway(b) \/ Respond(b) \/ Close(b)
                               \/ Read(b) \/ ReadEnd(b) \/ Leave(b)
      PROVE  StreamsInv'
  <2>1. /\ UNCHANGED <<std, saved, held, overlap>>
        /\ \A c \in Build :
              pc'[c] = pc[c] \/ (pc[c] \notin Redirecting /\ pc'[c] \notin Redirecting)
    BY <1>1 DEF TurnAway, Respond, Close, Read, ReadEnd, Leave, Goto, serverVars,
                OutputTypeOK, Redirecting
  <2> QED BY <2>1, AwayStreams
<1>2. CASE UNCHANGED outputVars
  BY <1>2, AwayStreams DEF outputVars, serverVars
<1>3. ASSUME NEW b \in Build, Begin(b) \/ Holding(b)
      PROVE  StreamsInv'
  BY <1>3, BeginStreams, HoldingStreams, OutputAssumption
<1> QED BY <1>1, <1>2, <1>3 DEF OutputNext, Handle, Holding

-------------------------------------------------------------------------------
(* One build at a time: the output.                                        *)

Flow(c) == shown[c] \o wire[c]

\* Only a build that has been answered for has its response among the messages.
FlowOK(c) ==
    client[c] # "gone" =>
        \/ Flow(c) = AllLines(c)
        \/ pc[c] \in {"close", "over"} /\ Flow(c) = Append(AllLines(c), Response(c))

FlowInv == ~overlap => \A c \in Build : FlowOK(c)

LEMMA AllLinesType ==
    ASSUME OutputTypeOK, NEW c \in Build, Counted(c)
    PROVE  /\ Written(c) \in 0..(MaxLines + 1) /\ AllLines(c) = LinesTo(c, Written(c))
           /\ AllLines(c) \in Seq(Message) /\ Response(c) \in Message
           /\ Len(AllLines(c)) = Written(c)
           /\ \A n \in 1..Written(c) : AllLines(c)[n].line = n
<1>1. MaxLines \in Nat /\ printed[c] \in 0..(MaxLines + 1)
  BY OutputAssumption DEF OutputTypeOK
<1>2. Written(c) \in 0..(MaxLines + 1) /\ Response(c) \in Message
  BY <1>1 DEF Counted, Written, Response, Message
<1>3. AllLines(c) = LinesTo(c, Written(c))
  BY DEF AllLines, LinesTo
<1>4. AllLines(c) \in Seq(Message) /\ Len(AllLines(c)) = Written(c)
  BY <1>1, <1>2, <1>3, LinesToType
<1> QED BY <1>2, <1>3, <1>4 DEF AllLines

\* The response is the last message to be read, with all the output displayed.
LEMMA ResponseComesLast ==
    ASSUME AnswerInv, NEW b \in Build, FlowOK(b), client[b] # "gone",
           wire[b] # <<>>, Head(wire[b]).line = 0
    PROVE  Tail(wire[b]) = <<>> /\ shown[b] = AllLines(b)
<1> DEFINE s == shown[b]
           t == wire[b]
           a == AllLines(b)
           m == Response(b)
<1>1. /\ s \in Seq(Message) /\ t \in Seq(Message) /\ a \in Seq(Message) /\ m \in Message
      /\ t # <<>> /\ \A n \in 1..Len(a) : a[n] # Head(t)
  BY AllLinesType DEF AnswerInv, OutputTypeOK
<1>2. s \o t = a \/ s \o t = Append(a, m)
  BY DEF FlowOK, Flow
<1> HIDE DEF s, t, a, m
<1>3. /\ Len(s) \in Nat /\ Len(a) \in Nat /\ Len(t) \in Nat \ {0}
      /\ Head(t) = t[1] /\ Tail(t) \in Seq(Message) /\ Len(Tail(t)) = Len(t) - 1
  BY <1>1, LenProperties, HeadTailProperties, EmptySeq
<1>4. /\ Len(s \o t) = Len(s) + Len(t)
      /\ \A n \in 1..Len(s) : (s \o t)[n] = s[n]
      /\ (s \o t)[Len(s) + 1] = t[1]
  BY <1>1, <1>3, ConcatProperties
<1>5. /\ Len(Append(a, m)) = Len(a) + 1
      /\ \A n \in 1..Len(a) : Append(a, m)[n] = a[n]
  BY <1>1, AppendProperties
<1>6. Len(s) + 1 \notin 1..Len(a)
  <2> SUFFICES ASSUME Len(s) + 1 \in 1..Len(a)
               PROVE  FALSE
    OBVIOUS
  <2>1. (s \o t)[Len(s) + 1] = a[Len(s) + 1]
    BY <1>2, <1>5
  <2>2. a[Len(s) + 1] = Head(t)
    BY <1>3, <1>4, <2>1
  <2> QED BY <1>1, <2>2
<1>7. Len(s) = Len(a) /\ Len(t) = 1
  BY <1>2, <1>3, <1>4, <1>5, <1>6
<1>8. s = a
  BY <1>1, <1>2, <1>4, <1>5, <1>7, SeqEqual
<1>9. Tail(t) = <<>>
  <2> DEFINE u == Tail(t)
  <2>1. u \in Seq(Message) /\ Len(u) = 0
    BY <1>3, <1>7
  <2> HIDE DEF u
  <2>2. u = <<>>
    BY <2>1, EmptySeq
  <2> QED BY <2>2 DEF u
<1> QED BY <1>8, <1>9 DEF s, t, a

\* A step that sends and reads nothing.
LEMMA SilentFlow ==
    ASSUME FlowInv, UNCHANGED <<wire, shown, client>>, overlap' \/ ~overlap,
           \A c \in Build : /\ Written(c)' = Written(c)
                            /\ pc[c] \in {"close", "over"} => pc'[c] \in {"close", "over"}
    PROVE  FlowInv'
<1>1. ASSUME NEW c \in Build, FlowOK(c)
      PROVE  FlowOK(c)'
  <2>1. AllLines(c)' = AllLines(c)
    BY DEF AllLines
  <2> QED BY <1>1, <2>1 DEF FlowOK, Flow, Response
<1> QED BY <1>1 DEF FlowInv

\* A message of b's to its own client.
LEMMA SendFlow ==
    ASSUME AnswerInv, NEW b \in Build, NEW m \in Message, Deliver(b, m),
           pc[b] \notin {"none", "close", "over"}, client[b] # "gone"
    PROVE  Append(Flow(b), m) = shown[b] \o wire'[b]
<1>1. /\ client[b] = "reading" /\ OutputTypeOK
      /\ shown[b] \in Seq(Message) /\ wire[b] \in Seq(Message)
  BY DEF AnswerInv, Answered, OutputTypeOK
<1>2. wire'[b] = Append(wire[b], m)
  BY <1>1, DeliveredMessage DEF Connected
<1>3. \A s, t \in Seq(Message) : s \o Append(t, m) = Append(s \o t, m)
  BY SentComesLast
<1>4. shown[b] \o Append(wire[b], m) = Append(shown[b] \o wire[b], m)
  BY <1>1, <1>3
<1> QED BY <1>2, <1>4 DEF Flow

\* What b does leaves what the other clients get alone.
LEMMA OthersFlow ==
    ASSUME OutputTypeOK, NEW b \in Build, NEW c \in Build \ {b}, FlowOK(c),
           wire'[c] = wire[c], shown'[c] = shown[c], client'[c] = client[c],
           pc'[c] = pc[c], printed'[c] = printed[c]
    PROVE  FlowOK(c)'
<1>1. AllLines(c)' = AllLines(c)
  BY DEF AllLines, Written
<1> QED BY <1>1 DEF FlowOK, Flow, Response

\* One more line.
LEMMA LineFlow ==
    ASSUME AnswerInv, NEW b \in Build, FlowOK(b),
           pc[b] \in {"print", "fail"}, pc'[b] \in {"run", "restoreOut"},
           Written(b) + 1 = printed'[b], printed'[b] \in 1..(MaxLines + 1),
           Deliver(b, [by |-> b, line |-> printed'[b]]), client'[b] = client[b],
           shown'[b] = shown[b]
    PROVE  FlowOK(b)'
<1> DEFINE m == [by |-> b, line |-> printed'[b]]
<1> SUFFICES ASSUME client[b] # "gone"
             PROVE  Flow(b)' = AllLines(b)'
  BY DEF FlowOK
<1>1. MaxLines \in Nat /\ m \in Message /\ Deliver(b, m)
  BY OutputAssumption DEF Message
<1>2. Append(Flow(b), m) = shown[b] \o wire'[b]
  BY <1>1, SendFlow
<1>3. Flow(b) = LinesTo(b, Written(b)) /\ Written(b) \in Nat
  BY AllLinesType DEF FlowOK, AnswerInv
<1>4. Append(LinesTo(b, Written(b)), m) = LinesTo(b, printed'[b])
  <2>1. Written(b) \in 0..MaxLines /\ m = [by |-> b, line |-> Written(b) + 1]
    BY <1>1, <1>3
  <2> QED BY <1>1, <2>1, LinesGrow
<1>5. AllLines(b)' = LinesTo(b, printed'[b])
  BY DEF AllLines, LinesTo, Written
<1> QED BY <1>2, <1>3, <1>4, <1>5 DEF Flow

\* The step of the handler or of the client.
LEMMA WriteLineFlow ==
    ASSUME AnswerInv, StreamsInv, FlowInv, NEW b \in Build, WriteLine(b)
    PROVE  FlowInv'
<1> SUFFICES ASSUME ~overlap, NEW c \in Build
             PROVE  FlowOK(c)'
  BY DEF FlowInv, WriteLine
<1>1. OutputTypeOK /\ Counted(b) /\ FlowOK(b) /\ FlowOK(c) /\ held[b] = b
  BY DEF AnswerInv, FlowInv, StreamsInv, StreamsOK, WriteLine, Goto
<1>2. /\ pc[b] = "print" /\ pc' = [pc EXCEPT ![b] = "run"]
      /\ Deliver(b, [by |-> b, line |-> printed[b]])
      /\ UNCHANGED <<printed, client, shown>>
  BY <1>1, OutputAssumption DEF WriteLine, Goto
<1>3. printed[b] \in 1..(MaxLines + 1) /\ Written(b) + 1 = printed[b]
  BY <1>1, <1>2, OutputAssumption DEF OutputTypeOK, Counted, Written
<1>4. FlowOK(b)'
  <2>1. pc'[b] = "run"
    BY <1>1, <1>2 DEF OutputTypeOK
  <2> QED BY <1>1, <1>2, <1>3, <2>1, LineFlow
<1>5. CASE c # b
  <2>1. [by |-> b, line |-> printed[b]] \in Message
    BY <1>3, OutputAssumption DEF Message
  <2>2. wire'[c] = wire[c]
    BY <1>1, <1>2, <1>5, <2>1, DeliveredMessage
  <2> QED BY <1>1, <1>2, <1>5, <2>2, OthersFlow DEF OutputTypeOK
<1> QED BY <1>4, <1>5

LEMMA FailFlow ==
    ASSUME AnswerInv, FlowInv, NEW b \in Build, Fail(b)
    PROVE  FlowInv'
<1> SUFFICES ASSUME ~overlap, NEW c \in Build
             PROVE  FlowOK(c)'
  BY DEF FlowInv, Fail
<1>1. OutputTypeOK /\ Counted(b) /\ FlowOK(b) /\ FlowOK(c)
  BY DEF AnswerInv, FlowInv
<1>2. /\ pc[b] = "fail" /\ pc' = [pc EXCEPT ![b] = "restoreOut"]
      /\ printed' = [printed EXCEPT ![b] = @ + 1]
      /\ Deliver(b, [by |-> b, line |-> printed[b] + 1])
      /\ UNCHANGED <<client, shown>>
  BY DEF Fail, Goto
<1>3. /\ printed'[b] = printed[b] + 1 /\ printed'[b] \in 1..(MaxLines + 1)
      /\ Written(b) + 1 = printed'[b]
  BY <1>1, <1>2, OutputAssumption DEF OutputTypeOK, Counted, Written
<1>4. FlowOK(b)'
  <2>1. pc'[b] = "restoreOut" /\ Deliver(b, [by |-> b, line |-> printed'[b]])
    BY <1>1, <1>2, <1>3 DEF OutputTypeOK
  <2> QED BY <1>1, <1>2, <1>3, <2>1, LineFlow
<1>5. CASE c # b
  <2>1. [by |-> b, line |-> printed[b] + 1] \in Message
    BY <1>3, OutputAssumption DEF Message
  <2>2. wire'[c] = wire[c]
    BY <1>1, <1>2, <1>5, <2>1, DeliveredMessage
  <2> QED BY <1>1, <1>2, <1>5, <2>2, OthersFlow DEF OutputTypeOK
<1> QED BY <1>4, <1>5

LEMMA RespondFlow ==
    ASSUME AnswerInv, FlowInv, NEW b \in Build, Respond(b)
    PROVE  FlowInv'
<1> SUFFICES ASSUME ~overlap, NEW c \in Build
             PROVE  FlowOK(c)'
  BY DEF FlowInv, Respond
<1>1. OutputTypeOK /\ Counted(b) /\ FlowOK(b) /\ FlowOK(c)
  BY DEF AnswerInv, FlowInv
<1>2. /\ pc[b] = "respond" /\ pc' = [pc EXCEPT ![b] = "close"]
      /\ Deliver(b, Response(b)) /\ UNCHANGED <<printed, client, shown>>
  BY DEF Respond, Goto, Response, serverVars
<1>3. Response(b) \in Message
  BY <1>1, AllLinesType
<1>4. CASE c = b
  <2> SUFFICES ASSUME client[b] # "gone"
               PROVE  pc'[b] = "close" /\ Flow(b)' = Append(AllLines(b)', Response(b))
    BY <1>2, <1>4 DEF FlowOK, Response
  <2>1. Append(Flow(b), Response(b)) = shown[b] \o wire'[b]
    BY <1>2, <1>3, SendFlow
  <2>2. Flow(b) = AllLines(b)
    BY <1>1, <1>2 DEF FlowOK
  <2>3. pc'[b] = "close" /\ AllLines(b)' = AllLines(b)
    BY <1>1, <1>2 DEF OutputTypeOK, AllLines, Written
  <2> QED BY <1>2, <2>1, <2>2, <2>3 DEF Flow
<1>5. CASE c # b
  <2>1. wire'[c] = wire[c]
    BY <1>1, <1>2, <1>3, <1>5, DeliveredMessage
  <2> QED BY <1>1, <1>2, <1>5, <2>1, OthersFlow DEF OutputTypeOK
<1> QED BY <1>4, <1>5

LEMMA ReadFlow ==
    ASSUME AnswerInv, FlowInv, NEW b \in Build, Read(b)
    PROVE  FlowInv'
<1> SUFFICES ASSUME ~overlap, NEW c \in Build
             PROVE  FlowOK(c)'
  BY DEF FlowInv, Read
<1>1. OutputTypeOK /\ Counted(b) /\ FlowOK(b) /\ FlowOK(c)
  BY DEF AnswerInv, FlowInv
<1>2. /\ client[b] = "reading" /\ wire[b] # <<>> /\ UNCHANGED <<pc, printed>>
      /\ shown[b] \in Seq(Message) /\ wire[b] \in Seq(Message)
      /\ wire'[b] = Tail(wire[b])
      /\ \A d \in Build \ {b} :
            wire'[d] = wire[d] /\ shown'[d] = shown[d] /\ client'[d] = client[d]
  BY <1>1 DEF Read, serverVars, OutputTypeOK
<1>3. CASE c # b
  BY <1>1, <1>2, <1>3, OthersFlow
<1>4. CASE c = b
  <2>1. AllLines(b)' = AllLines(b) /\ Response(b)' = Response(b)
    BY <1>2 DEF AllLines, Written, Response
  <2>2. CASE Head(wire[b]).line # 0
    <3>1. shown'[b] = Append(shown[b], Head(wire[b])) /\ client'[b] = client[b]
      BY <1>1, <2>2 DEF Read, OutputTypeOK
    <3>2. Flow(b)' = Flow(b)
      BY <1>2, <3>1, ReadStaysInPlace DEF Flow
    <3> QED BY <1>1, <1>2, <1>4, <2>1, <3>1, <3>2 DEF FlowOK
  <2>3. CASE Head(wire[b]).line = 0
    <3>1. shown'[b] = shown[b]
      BY <2>3 DEF Read
    <3>2. Tail(wire[b]) = <<>> /\ shown[b] = AllLines(b)
      BY <1>1, <1>2, <2>3, ResponseComesLast
    <3>3. shown[b] \o <<>> = shown[b]
      BY <1>2, ConcatEmptySeq
    <3>4. Flow(b)' = AllLines(b)
      BY <1>2, <3>1, <3>2, <3>3 DEF Flow
    <3> QED BY <1>4, <2>1, <3>4 DEF FlowOK
  <2> QED BY <2>2, <2>3
<1> QED BY <1>3, <1>4

LEMMA GoneFlow ==
    ASSUME AnswerInv, FlowInv, NEW b \in Build, ReadEnd(b) \/ Leave(b)
    PROVE  FlowInv'
<1> SUFFICES ASSUME ~overlap, NEW c \in Build
             PROVE  FlowOK(c)'
  BY DEF FlowInv, ReadEnd, Leave
<1>1. OutputTypeOK /\ FlowOK(c)
  BY DEF AnswerInv, FlowInv
<1>2. UNCHANGED <<pc, printed, shown>> /\ client[b] = "reading"
  BY DEF ReadEnd, Leave, serverVars
<1>3. \/ client'[c] = "gone"
      \/ wire'[c] = wire[c] /\ client[c] # "gone"
      \/ wire'[c] = wire[c] /\ client'[c] = client[c]
  BY <1>1 DEF ReadEnd, Leave, OutputTypeOK
<1>4. AllLines(c)' = AllLines(c) /\ Response(c)' = Response(c)
  BY <1>2 DEF AllLines, Written, Response
<1> QED BY <1>1, <1>2, <1>3, <1>4 DEF FlowOK, Flow

LEMMA NextFlow ==
    ASSUME AnswerInv, StreamsInv, FlowInv, [OutputNext]_outputVars
    PROVE  FlowInv'
<1>t. OutputTypeOK
  BY DEF AnswerInv
<1>1. ASSUME NEW b \in Build, Silent(b)
      PROVE  FlowInv'
  <2>1. UNCHANGED <<wire, shown, client>> /\ (overlap' \/ ~overlap)
    <3>1. CASE Begin(b)
      BY <3>1, <1>t DEF Begin, OutputTypeOK
    <3>2. CASE ~Begin(b)
      BY <1>1, <3>2 DEF Silent, TurnAway, Save, Swap, Line, WriteBlank, Finish, Restore, Close,
                        serverVars
    <3> QED BY <3>1, <3>2
  <2>2. \/ UNCHANGED printed /\ pc[b] # "print" /\ pc'[b] # "print"
        \/ printed' = [printed EXCEPT ![b] = @ + 1] /\ pc[b] = "run" /\ pc'[b] = "print"
    BY <1>1, <1>t DEF Silent, TurnAway, Begin, Save, Swap, Line, WriteBlank, Finish, Restore, Close,
                      serverVars, Goto, OutputTypeOK
  <2>3. /\ \A c \in Build \ {b} : pc'[c] = pc[c]
        /\ pc[b] \in {"close", "over"} => pc'[b] \in {"close", "over"}
    BY <1>1, <1>t DEF Silent, TurnAway, Begin, Save, Swap, Line, WriteBlank, Finish, Restore, Close,
                      Goto, OutputTypeOK
  <2>4. \A c \in Build : Written(c)' = Written(c)
    BY <1>t, <2>2, <2>3 DEF Written, OutputTypeOK
  <2> QED BY <2>1, <2>3, <2>4, SilentFlow
<1>2. ASSUME NEW b \in Build, WriteLine(b) \/ Fail(b) \/ Respond(b)
                               \/ Read(b) \/ ReadEnd(b) \/ Leave(b)
      PROVE  FlowInv'
  BY <1>2, WriteLineFlow, FailFlow, RespondFlow, ReadFlow, GoneFlow
<1>3. CASE UNCHANGED outputVars
  <2>1. \A c \in Build : Written(c)' = Written(c)
    BY <1>3 DEF outputVars, serverVars, Written
  <2> QED BY <1>3, <2>1, SilentFlow DEF outputVars, serverVars
<1> QED BY <1>1, <1>2, <1>3 DEF OutputNext, Handle, Silent

\* The three invariants together.
SoloInv == AnswerInv /\ StreamsInv /\ FlowInv

LEMMA InitSolo ==
    ASSUME OutputInit
    PROVE  SoloInv
<1>1. AnswerInv
  BY InitAnswer
<1>2. StreamsInv
  BY DEF OutputInit, StreamsInv, StreamsOK, Redirecting
<1>3. ASSUME NEW c \in Build
      PROVE  FlowOK(c)
  <2>1. Flow(c) = <<>>
    BY ConcatEmptySeq, EmptySeq DEF OutputInit, Flow
  <2>2. Written(c) = 0
    BY DEF OutputInit, Written
  <2>3. AllLines(c) \in Seq(Message) /\ Len(AllLines(c)) = 0
    BY <1>1, <2>2, AllLinesType DEF AnswerInv
  <2>4. AllLines(c) = <<>>
    BY <2>3, EmptySeq
  <2> QED BY <2>1, <2>4 DEF FlowOK
<1> QED BY <1>1, <1>2, <1>3 DEF SoloInv, FlowInv

LEMMA NextSolo ==
    ASSUME SoloInv, [OutputNext]_outputVars
    PROVE  SoloInv'
BY NextAnswer, NextStreams, NextFlow DEF SoloInv, AnswerInv

\* As long as no two handlers are between saving and restoring sys.stdout at the same time,
\* a client gets every line of its build that is not blank, in order, the failure last, and
\* no other line (StreamingWriter.write, output_callback and the client's loop).
THEOREM SoloOutputHolds == OutputSpec => []SoloOutput
<1>1. SoloInv => SoloOutput
  BY DEF SoloInv, FlowInv, FlowOK, Flow, SoloOutput
<1>2. OutputInit => SoloInv
  BY InitSolo
<1>3. SoloInv /\ [OutputNext]_outputVars => SoloInv'
  BY NextSolo
<1> QED
  BY <1>1, <1>2, <1>3, PTL DEF OutputSpec

\* ... and the `finally' of handle_build_request leaves the daemon's own streams behind.
THEOREM StreamsRestored == OutputSpec => []SoloRestores
<1>1. SoloInv => SoloRestores
  BY DEF SoloInv, StreamsInv, SoloRestores
<1>2. OutputInit => SoloInv
  BY InitSolo
<1>3. SoloInv /\ [OutputNext]_outputVars => SoloInv'
  BY NextSolo
<1> QED
  BY <1>1, <1>2, <1>3, PTL DEF OutputSpec
================================================================================
