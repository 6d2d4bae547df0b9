--------------------------- MODULE SerialTransport ---------------------------
(***************************************************************************)
(* SerialTransport's receive path: the adapter puts AT frames on a wire,   *)
(* the kernel buffers the bytes as they arrive, and receive() moves them   *)
(* into the ring in chunks and takes at most one frame out.  connect() and *)
(* disconnect() are called by another thread, between receive()'s steps.   *)
(***************************************************************************)
EXTENDS SerialRing, FiniteSets

CONSTANTS
  Chunk,       \* size of receive()'s temporary buffer, 64 in the code
  Messages,    \* frame bodies the adapter sends, each of FrameLen - 4 bytes
  Noise,       \* bytes that are not part of any frame
  MaxBacklog,  \* bound: bytes the kernel holds for the port
  MaxNoise,    \* bound: noise bytes
  MaxCloses    \* bound: calls of disconnect()

ASSUME TransportAssumption ==
  /\ Chunk \in Nat \ {0} /\ MaxBacklog \in Nat /\ MaxNoise \in Nat /\ MaxCloses \in Nat
  /\ Noise \subseteq Bytes
  /\ \A m \in Messages : m \in Seq(Bytes) /\ Len(m) = FrameLen - 4

VARIABLES
  open,       \* fd_ >= 0
  ring,       \* ring_buf_
  rxPc,       \* where the receive thread is in receive()
  wire,       \* bytes on their way to the port
  kernel,     \* bytes the operating system holds for the port
  sent,       \* history: messages the adapter has put on the wire, in order
  delivered,  \* history: message bodies receive() has returned, in order
  dropped,    \* history: push() has dropped a byte
  noise,      \* noise bytes so far
  closes      \* calls of disconnect() so far

vars == <<open, ring, rxPc, wire, kernel, sent, delivered, dropped, noise, closes>>

TypeOK ==
  /\ open \in BOOLEAN /\ ring \in Rings
  /\ rxPc \in {"idle", "drain", "pop"}
  /\ wire \in Seq(Bytes) /\ kernel \in Seq(Bytes) /\ Len(kernel) <= MaxBacklog
  /\ sent \in Seq(Messages) /\ delivered \in Seq(Seq(Bytes))
  /\ dropped \in BOOLEAN
  /\ noise \in 0 .. MaxNoise /\ closes \in 0 .. MaxCloses

Framed(m) == <<"A", "T">> \o m \o <<"CR", "LF">>

Body(frame) == SubSeq(frame, 3, FrameLen - 2)

Init ==
  /\ open = TRUE
  /\ ring = [buf |-> [slot \in Slots |-> "0"], head |-> 0, tail |-> 0]
  /\ rxPc = "idle"
  /\ wire = <<>> /\ kernel = <<>> /\ sent = <<>> /\ delivered = <<>>
  /\ dropped = FALSE /\ noise = 0 /\ closes = 0

-----------------------------------------------------------------------------
(* The application thread                                                  *)

Connect ==
  /\ ~open
  /\ open' = TRUE
  /\ ring' = Reset(ring)
  /\ UNCHANGED <<rxPc, wire, kernel, sent, delivered, dropped, noise, closes>>

\* The bytes the kernel still held are lost with the descriptor.
Disconnect ==
  /\ open /\ closes < MaxCloses
  /\ open' = FALSE
  /\ ring' = Reset(ring)
  /\ kernel' = <<>>
  /\ closes' = closes + 1
  /\ UNCHANGED <<rxPc, wire, sent, delivered, dropped, noise>>

-----------------------------------------------------------------------------
(* The receive thread calls receive() again and again                      *)

RxCall ==
  /\ rxPc = "idle" /\ open
  /\ rxPc' = "drain"
  /\ UNCHANGED <<open, ring, wire, kernel, sent, delivered, dropped, noise, closes>>

\* One turn of the poll loop: read at most a chunk and push it.
RxDrain ==
  /\ rxPc = "drain" /\ open /\ kernel # <<>>
  /\ LET n == IF Len(kernel) < Chunk THEN Len(kernel) ELSE Chunk
     IN  /\ ring' = Push(ring, SubSeq(kernel, 1, n))
         /\ kernel' = SubSeq(kernel, n + 1, Len(kernel))
         /\ dropped' = (dropped \/ Accepted(ring, n) < n)
  /\ UNCHANGED <<open, rxPc, wire, sent, delivered, noise, closes>>

\* The poll reports nothing, or the descriptor is gone.
RxDrained ==
  /\ rxPc = "drain" /\ (kernel = <<>> \/ ~open)
  /\ rxPc' = "pop"
  /\ UNCHANGED <<open, ring, wire, kernel, sent, delivered, dropped, noise, closes>>

\* pop_frame and the return: a frame, or ERR_TIMEOUT.
RxPop ==
  /\ rxPc = "pop"
  /\ rxPc' = "idle"
  /\ ring' = AfterPop(ring)
  /\ delivered' = IF HasFrame(ring) THEN Append(delivered, Body(PoppedFrame(ring)))
                                    ELSE delivered
  /\ UNCHANGED <<open, wire, kernel, sent, dropped, noise, closes>>

RxStep == RxCall \/ RxDrain \/ RxDrained \/ RxPop

-----------------------------------------------------------------------------
(* The adapter and the kernel (external)                                   *)

\* The adapter sends each message once.
Transmit(m) ==
  /\ \A i \in DOMAIN sent : sent[i] # m
  /\ wire' = wire \o Framed(m)
  /\ sent' = Append(sent, m)
  /\ UNCHANGED <<open, ring, rxPc, kernel, delivered, dropped, noise, closes>>

Disturb(b) ==
  /\ noise < MaxNoise
  /\ wire' = Append(wire, b)
  /\ noise' = noise + 1
  /\ UNCHANGED <<open, ring, rxPc, kernel, sent, delivered, dropped, closes>>

\* Some bytes reach the kernel; a closed port hears nothing.
Arrive ==
  /\ wire # <<>>
  /\ \E n \in 1 .. Len(wire) :
       /\ IF open
            THEN /\ Len(kernel) + n <= MaxBacklog
                 /\ kernel' = kernel \o SubSeq(wire, 1, n)
            ELSE UNCHANGED kernel
       /\ wire' = SubSeq(wire, n + 1, Len(wire))
  /\ UNCHANGED <<open, ring, rxPc, sent, delivered, dropped, noise, closes>>

Next == \/ Connect \/ Disconnect
        \/ RxStep
        \/ \E m \in Messages : Transmit(m)
        \/ \E b \in Noise : Disturb(b)
        \/ Arrive

Spec == Init /\ [][Next]_vars

\* The receive thread keeps calling receive(), and what is sent arrives.
FairSpec == Spec /\ WF_vars(RxStep) /\ WF_vars(Arrive)

-----------------------------------------------------------------------------
(* What the transport promises                                             *)

Queue == INSTANCE FrameQueue
           WITH Bound <- Capacity - 1, queue <- Contents(ring), out <- delivered

\* The index arithmetic of the ring implements that queue: wrapping around,
\* overflowing and resetting never lose, reorder or corrupt a byte that waits.
ImplementsQueue == Queue!Spec

\* The delivered messages are sent ones, in the order they were sent.
Genuine == \E at \in [DOMAIN delivered -> DOMAIN sent] :
             /\ \A i \in DOMAIN delivered : delivered[i] = sent[at[i]]
             /\ \A i, j \in DOMAIN delivered : i < j => at[i] < at[j]

\* Bytes x and y follow each other at place c of every frame and nowhere else on the line.
Distinctive(x, y, c) ==
  /\ ~({x, y} \subseteq Noise)
  /\ \A m \in Messages : \A i \in 1 .. FrameLen - 1 :
       Framed(m)[i] = x /\ Framed(m)[i + 1] = y => i = c

\* The scan looks for the two delimiters at their distance: it mistakes nothing for a
\* frame if one of the two occurs in no body and in no noise.
Unmistakable == Distinctive("A", "T", 1) \/ Distinctive("CR", "LF", FrameLen - 1)

Arrived(m) == \E i \in DOMAIN delivered : delivered[i] = m

\* As long as the ring never overflows, receive() on an unmistakable line returns only
\* messages the adapter sent, in order and at most once each, however the bytes were
\* split, whatever noise lay between them and whenever the port was closed.
DeliveredInOrder == ~dropped => Genuine

\* Over a clean link receive() skips nothing either, even if message bodies contain
\* the delimiters of a frame: it returns the messages one by one as they were sent.
DeliveredOneByOne ==
  ~dropped /\ noise = 0 /\ closes = 0
    => /\ Len(delivered) <= Len(sent)
       /\ \A i \in DOMAIN delivered : delivered[i] = sent[i]

\* If besides the port stays open, every message sent is returned.
EveryMessageDelivered ==
  \A m \in Messages : (\E i \in DOMAIN sent : sent[i] = m)
                       ~> (Arrived(m) \/ dropped \/ closes > 0)

-----------------------------------------------------------------------------
(* What the comments say and the code does not do                          *)

\* robstride_transport.h:66: push() "Drops oldest data if full", which would
\* leave the newest bytes contiguous in the ring, and every frame popped genuine.
NothingSpliced == Genuine

\* robstride_transport.cpp:262: without a frame in the ring "caller retries", so
\* a message that follows noise is returned at some retry.
RetriesSucceed ==
  \A m \in Messages : (\E i \in DOMAIN sent : sent[i] = m)
                       ~> (Arrived(m) \/ closes > 0)
=============================================================================
