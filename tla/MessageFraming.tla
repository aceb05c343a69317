---------------------------- MODULE MessageFraming ----------------------------
(***************************************************************************)
(* Messages over the byte stream of a daemon connection, in one direction  *)
(* (daemon/framing.py).  send_message writes a message and a newline;      *)
(* receive_message reads chunks into a buffer until the buffer holds a     *)
(* newline.  A byte is its position in the stream: 1, 2, ...  The buffer is*)
(* what lies between `taken' and `got'.  A message is its number of bytes, *)
(* without the newline (json.dumps escapes the newlines inside).           *)
(***************************************************************************)
EXTENDS Naturals, Sequences, FiniteSets

CONSTANTS
    MaxSize,     \* MAX_MESSAGE_SIZE
    BufferSize,  \* BUFFER_SIZE, the most that one recv returns
    Capacity,    \* bytes the kernel keeps for the receiver (external)
    Size,        \* sizes of messages
    MaxMessages  \* bound: messages sent

ASSUME FramingAssumption ==
    /\ MaxSize \in Nat \ {0} /\ BufferSize \in Nat \ {0} /\ Capacity \in Nat \ {0}
    /\ Size \subseteq Nat \ {0} /\ MaxMessages \in Nat

VARIABLES
    ends,       \* ends[i]: the position of the newline that ends the i-th message
    written,    \* how far the socket has accepted the stream
    open,       \* the sender has not closed its socket, and is alive
    got,        \* how far recv has returned the stream
    taken,      \* how far messages have been split off the buffer
    delivered,  \* the sizes of the messages receive_message has returned
    result      \* how the last call of receive_message ended otherwise

sender == <<ends, written, open>>
receiver == <<got, taken, delivered, result>>
framingVars == <<sender, receiver>>

\* The bytes of the i-th message begin after Start(i).
Start(i) == IF i = 1 THEN 0 ELSE ends[i - 1]

Total == Start(Len(ends) + 1)

-------------------------------------------------------------------------------
(* The sender: send_message, send_message_raw, close.                      *)

\* sendall begins when the one before has returned.
SendMessage(size) ==
    /\ open /\ written = Total
    /\ Len(ends) < MaxMessages
    /\ ends' = Append(ends, Total + size + 1)
    /\ UNCHANGED <<written, open, receiver>>

\* The kernel takes the next n bytes of it.
Accept(n) ==
    /\ open
    /\ written + n <= Total /\ written + n <= got + Capacity
    /\ written' = written + n
    /\ UNCHANGED <<ends, open, receiver>>

\* The sender closes, or dies, also in the middle of a message.
CloseSocket == open /\ open' = FALSE /\ UNCHANGED <<ends, written, receiver>>

-------------------------------------------------------------------------------
(* The receiver: receive_message, called again after every message.        *)

Receiving == result = "none"

\* The messages whose newline is in the buffer.
Newlines == {i \in DOMAIN ends : taken < ends[i] /\ ends[i] <= got}

\* (mutant) everything up to the last newline goes.
TakeMessageToLast ==
    /\ Receiving
    /\ \E i \in Newlines :
         /\ \A j \in Newlines : j <= i
         /\ taken' = ends[i]
         /\ delivered' = Append(delivered, ends[i] - 1 - taken)
         /\ UNCHANGED result
    /\ UNCHANGED <<sender, got>>

\* (mutant) split without a limit: what follows the newline is lost.
TakeMessageDropRest ==
    /\ Receiving
    /\ \E i \in Newlines :
         /\ \A j \in Newlines : i <= j
         /\ taken' = got
         /\ delivered' = Append(delivered, ends[i] - 1 - taken)
         /\ UNCHANGED result
    /\ UNCHANGED <<sender, got>>

\* The buffer holds a newline: the message before the first one is split off, checked
\* against the limit, decoded and returned.
TakeMessage ==
    /\ Receiving
    /\ \E i \in Newlines :
         /\ \A j \in Newlines : i <= j
         /\ taken' = ends[i]
         /\ IF ends[i] - 1 - taken > MaxSize
            THEN result' = "too large" /\ UNCHANGED delivered
            ELSE delivered' = Append(delivered, ends[i] - 1 - taken) /\ UNCHANGED result
    /\ UNCHANGED <<sender, got>>

\* (mutant) the limit counts everything that was received, not what the buffer holds.
ReceiveTotal(n) ==
    /\ Receiving /\ Newlines = {}
    /\ got + n <= written
    /\ got' = got + n
    /\ result' = IF got' > MaxSize THEN "too large" ELSE result
    /\ UNCHANGED <<sender, taken, delivered>>

\* No newline: recv returns a chunk of n bytes, which may hold several of them, and the
\* buffer is checked against the limit as a whole.
Receive(n) ==
    /\ Receiving /\ Newlines = {}
    /\ got + n <= written
    /\ got' = got + n
    /\ result' = IF got' - taken > MaxSize THEN "too large" ELSE result
    /\ UNCHANGED <<sender, taken, delivered>>

\* (mutant) an empty chunk is the end, whatever the buffer holds.
ReceiveEndAlways ==
    /\ Receiving /\ Newlines = {}
    /\ ~open /\ got = written
    /\ result' = "closed"
    /\ UNCHANGED <<sender, got, taken, delivered>>

\* (mutant) the end of the stream is taken for nothing to read yet.
ReceiveEndWaits ==
    /\ Receiving /\ Newlines = {}
    /\ ~open /\ got = written /\ got = taken
    /\ result' = "closed"
    /\ UNCHANGED <<sender, got, taken, delivered>>

\* recv returns nothing: None, or an error if the buffer holds a part of a message.
ReceiveEnd ==
    /\ Receiving /\ Newlines = {}
    /\ ~open /\ got = written
    /\ result' = IF got > taken THEN "incomplete" ELSE "closed"
    /\ UNCHANGED <<sender, got, taken, delivered>>

\* recv has waited for too long (the client), or fails: the caller gives up.
ReceiveFails ==
    /\ Receiving /\ Newlines = {}
    /\ got = written
    /\ result' = "failed"
    /\ UNCHANGED <<sender, got, taken, delivered>>

-------------------------------------------------------------------------------
FramingInit ==
    /\ ends = <<>> /\ written = 0 /\ open = TRUE
    /\ got = 0 /\ taken = 0 /\ delivered = <<>> /\ result = "none"

Sendall == \E n \in 1..Capacity : Accept(n)

ReceiveMessage == TakeMessage \/ ReceiveEnd \/ \E n \in 1..BufferSize : Receive(n)

FramingNext == (\E size \in Size : SendMessage(size)) \/ Sendall \/ CloseSocket
        \/ ReceiveMessage \/ ReceiveFails

FramingSpec == FramingInit /\ [][FramingNext]_framingVars

\* A thread in sendall or in receive_message runs when the socket lets it.
FairFramingSpec == FramingSpec /\ WF_framingVars(Sendall) /\ WF_framingVars(ReceiveMessage)

-------------------------------------------------------------------------------
(* Properties.                                                             *)

Results == {"none", "closed", "incomplete", "too large", "failed"}

\* The types, and what has been received was written, and written was sent.
FramingTypeOK ==
    /\ ends \in Seq(Nat) /\ open \in BOOLEAN
    /\ written \in Nat /\ got \in Nat /\ taken \in Nat
    /\ taken <= got /\ got <= written /\ written <= Total
    /\ delivered \in Seq(Nat) /\ result \in Results

\* The messages delivered are the first that were sent: however the stream is cut into
\* chunks, none is lost, torn, joined with another one or delivered twice.
InOrderAndWhole ==
    /\ Len(delivered) <= Len(ends)
    /\ \A k \in DOMAIN delivered : delivered[k] = ends[k] - Start(k) - 1

\* A message that leaves room for another chunk below the limit is never refused for
\* its size, whatever it arrives with: if all that were sent are such, none is.
ShortMessagesPass ==
    result = "too large" =>
        \E i \in DOMAIN ends : ends[i] - Start(i) - 1 + BufferSize > MaxSize

\* receive_message returns None only when the sender stopped between two messages and all
\* of them have been returned, and reports an incomplete message only when it stopped
\* within one.
EndIsTruthful ==
    /\ result = "closed" => ~open /\ written = Start(Len(delivered) + 1)
    /\ result = "incomplete" => ~open /\ Start(Len(ends)) < written /\ written < Total

\* Once the sender is gone the receiver is told so, or that it failed: it does not wait.
ReceiverToldOfEnd == ~open ~> result # "none"

\* How many messages the socket has accepted to the last byte: only the last one sent
\* may be on its way.
Accepted == IF written = Total THEN Len(ends) ELSE Len(ends) - 1

\* Those messages, as the queue that framing is to implement.
Channel == INSTANCE MessageChannel WITH
    Message <- Size,
    sent <- [i \in 1..Accepted |-> ends[i] - Start(i) - 1],
    received <- delivered,
    state <- CASE result = "none" -> "open" [] result = "closed" -> "ended" [] OTHER -> "failed"

\* Framing implements the channel: what a caller of receive_message sees is a queue of
\* messages, whatever happens to their bytes.
ImplementsChannel == Channel!Spec

\* "Maximum message size (1MB)" (daemon/framing.py): only a larger one is refused.
OnlyLargeRefused ==
    result = "too large" => \E i \in DOMAIN ends : ends[i] - Start(i) - 1 > MaxSize
===============================================================================
