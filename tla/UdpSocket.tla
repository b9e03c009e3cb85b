------------------------------- MODULE UdpSocket -------------------------------
(***************************************************************************)
(* The datagram socket (core/src/net/udp_socket.cpp).  It never blocks: a  *)
(* send is taken or refused at once, and a receive gives a datagram or     *)
(* nothing.  A socket is the queue of the datagrams that wait in it.       *)
(* Retries of interrupted calls, addresses and counters are left out.      *)
(***************************************************************************)
EXTENDS Wire, Sequences

\* send_to(), into the socket at the other end: a refused datagram is gone.
SendTo(queue, datagram, ok) == IF ok THEN Append(queue, datagram) ELSE queue

\* wait_readable(), wait_any_readable()
Readable(queue) == queue # <<>>

\* recv_from(), with the buffer of MaxDatagram every caller has: the rest of a
\* longer datagram is cut off, and the caller is not told.
RecvFrom(datagram) ==
  [datagram EXCEPT !.size = IF @ > MaxDatagram THEN MaxDatagram ELSE @]
===============================================================================
