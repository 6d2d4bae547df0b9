----------------------------- MODULE Transports -----------------------------
(***************************************************************************)
(* SocketCANTransport and SerialTransport as a program and its receive     *)
(* thread share one: the descriptor, the link flag SocketCAN keeps beside  *)
(* it, and the interface or adapter underneath.  What travels is left to   *)
(* the module that extends this one.                                       *)
(***************************************************************************)
CONSTANT Faults   \* what may go wrong outside the SDK

VARIABLES
  fd,        \* fd_ >= 0
  linkOk,    \* SocketCANTransport::link_ok_
  medium     \* the interface is up, or the adapter is plugged in

transportVars == <<fd, linkOk, medium>>

TransportTypeOK == fd \in BOOLEAN /\ linkOk \in BOOLEAN /\ medium \in BOOLEAN

TransportInit == fd = FALSE /\ linkOk = FALSE /\ medium \in BOOLEAN

\* SocketCAN answers is_connected() from its flag, the serial port from fd_.
IsConnected(kind) == IF kind = "socketcan" THEN linkOk ELSE fd

\* connect() on a transport that is not open.
Opens(kind) == /\ medium
               /\ fd' = TRUE
               /\ linkOk' = (kind = "socketcan")
               /\ UNCHANGED medium

OpenFails == ~medium /\ UNCHANGED transportVars

\* transmit(): both refuse without a descriptor, SocketCAN without a link as well.
Usable(kind) == fd /\ IsConnected(kind)

Transmits(kind) == Usable(kind) /\ medium /\ UNCHANGED transportVars

\* Only SocketCAN takes an error as news about the link; a full queue is no such
\* error, and a vanished serial adapter is one it never looks at.
TransmitFails(kind) ==
  \/ ~Usable(kind) /\ UNCHANGED transportVars
  \/ Usable(kind) /\ medium /\ "refused" \in Faults /\ UNCHANGED transportVars
  \/ /\ Usable(kind) /\ ~medium
     /\ linkOk' = FALSE
     /\ UNCHANGED <<fd, medium>>

\* receive() calling read(): the serial port polls and never fails, SocketCAN blocks
\* if interface and descriptor are there, and else takes the link for dead.
Readable(kind) == kind = "serial" \/ (fd /\ medium)

ReadFails(kind) ==
  /\ ~Readable(kind)
  /\ linkOk' = FALSE
  /\ UNCHANGED <<fd, medium>>

\* disconnect(): SocketCAN drops the flag (a serial port never sets it), then both
\* close the descriptor.
Unlink == linkOk' = FALSE /\ UNCHANGED <<fd, medium>>

CloseFd == fd' = FALSE /\ UNCHANGED <<linkOk, medium>>

\* The interface goes down, or the adapter is pulled out (external).
MediumDown == /\ "down" \in Faults /\ medium
              /\ medium' = FALSE
              /\ UNCHANGED <<fd, linkOk>>
=============================================================================
