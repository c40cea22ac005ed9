----------------------------- MODULE UDPListener -----------------------------
(***************************************************************************)
(* src/src/network/udp_listener.rs: a non-blocking UDP socket bound to one *)
(* address and port, read one datagram at a time.  The operating system is *)
(* the environment: it queues the datagrams that arrive for the socket,    *)
(* and it may refuse a call.                                               *)
(***************************************************************************)
EXTENDS Integers, Sequences

CONSTANTS
  None,        \* no socket yet
  BUFFER_SIZE, \* 64 * 1024 in the source
  Multicast    \* the addresses for which Ipv4Addr::is_multicast holds

VARIABLES
  listener,     \* the UDPListener: its token and socket, and the groups
                \* the socket is a member of
  socket_queue, \* the datagrams the operating system holds for the socket
  returned      \* what the last call returned

listener_vars == <<listener, socket_queue, returned>>

Init ==
  /\ listener = None
  /\ socket_queue = << >>
  /\ returned = None

\* UDPListener::new; a bind or a set_nonblocking that fails (bound = FALSE)
\* is the panic of expect, and there is no listener to call.
new(token, host, port, bound) ==
  /\ listener = None
  /\ listener' = [token |-> token, address |-> <<host, port>>,
                  bound |-> bound, nonblocking |-> TRUE, groups |-> {}]
  /\ UNCHANGED <<socket_queue, returned>>

\* There is a listener to call.
exists == listener # None /\ listener.bound

get_token == listener.token

\* A datagram for the socket's port arrives, addressed to the address the
\* socket is bound to or to a group it has joined.
os_receives(datagram, destination) ==
  /\ exists
  /\ destination = listener.address[1] \/ destination \in listener.groups
  /\ socket_queue' = Append(socket_queue, datagram)
  /\ UNCHANGED <<listener, returned>>

\* get_message: the next datagram, cut to the buffer; with nothing to read
\* recv would block, which is an error of the non-blocking socket, and the
\* message is empty.
get_message ==
  /\ exists
  /\ IF socket_queue = << >>
     THEN returned' = << >> /\ UNCHANGED socket_queue
     ELSE LET datagram == Head(socket_queue)
              nbytes   == IF Len(datagram) < BUFFER_SIZE
                          THEN Len(datagram) ELSE BUFFER_SIZE
          IN  /\ returned' = SubSeq(datagram, 1, nbytes)
              /\ socket_queue' = Tail(socket_queue)
  /\ UNCHANGED listener

\* join_multicast: an address that is no multicast address is refused
\* here, any other by the operating system if it likes (ok = FALSE).
join_multicast(address, ok) ==
  /\ exists
  /\ IF address \in Multicast /\ ok
     THEN /\ listener' = [listener EXCEPT !.groups = @ \cup {address}]
          /\ returned' = "Ok"
     ELSE /\ returned' = "Err"
          /\ UNCHANGED listener
  /\ UNCHANGED socket_queue

\* leave_multicast: likewise; the operating system refuses to leave a
\* group the socket is no member of.
leave_multicast(address, ok) ==
  /\ exists
  /\ IF address \in Multicast /\ address \in listener.groups /\ ok
     THEN /\ listener' = [listener EXCEPT !.groups = @ \ {address}]
          /\ returned' = "Ok"
     ELSE /\ returned' = "Err"
          /\ UNCHANGED listener
  /\ UNCHANGED socket_queue

=============================================================================
