----------------------------- MODULE Unbuffered -----------------------------
(***************************************************************************)
(* The response of a server with "proxy_buffering off" (..._non_buffered_...  *)
(* of src/http/ngx_http_upstream.c): it is read into u->buffer, behind its    *)
(* header, and passed on from there; the buffer is used again when all of it  *)
(* has been sent.                                                          *)
(*                                                                         *)
(* The buffer holds the numbers of units, 0 for the header, and out_bufs and  *)
(* busy_bufs are the places in it that are still to be sent; what the client  *)
(* gets is what is in a place when it is sent.  The pieces are marked to be   *)
(* flushed, so the output chain holds nothing back, and limit_rate is off.    *)
(* Events are edge-triggered.  Each half of a round of the loop is a step.    *)
(***************************************************************************)
EXTENDS Integers, Sequences, FiniteSets, FiniteSetsExt

CONSTANTS
  Responses,  \* [total : Nat (units sent), length : Int (Content-Length, or -1),
              \*  chunked : BOOLEAN]
  BufSize,    \* units of u->buffer (proxy_buffer_size), the header included
  Room        \* what the socket of the client takes

(* What is assumed of the constants; the modules of the instances state it.  A server may
   send less than the length that it announces, or more. *)
UnbufferedAssumption ==
  /\ BufSize \in Nat /\ BufSize > 1
  /\ Room \in Nat /\ Room > 0
  /\ Responses \subseteq [total : Nat, length : Nat \cup {-1}, chunked : BOOLEAN]

VARIABLES
  resp,
  srv,     \* the server: units sent, units read from the socket, FIN sent
  cli,     \* the client: units received, room in its socket
  u,       \* what u->buffer holds up to b->last; out_bufs and busy_bufs; length
  rev,     \* read event of the server: ready, eof, error, and an event of epoll
  wev,     \* write event of the client: ready, and an event of epoll
  pc       \* the half of the round, or how the request ended

vars == <<resp, srv, cli, u, rev, wev, pc>>

(* The n numbers behind k *)
Behind(k, n) == [i \in 1..n |-> k + i]

(* The input filter for n more units: they are another piece, right behind what the buffer
   holds.  Nothing is checked against the length: more than that makes it negative, and one
   unit more makes it -1, which means that there is none and is counted no further. *)
InputFilter(v, n, seen) ==
  LET last == Len(v.mem) IN
  [mem    |-> v.mem \o Behind(seen, n),
   unsent |-> v.unsent \o Behind(last, n),
   length |-> CASE resp.chunked -> IF seen + n = resp.total THEN 0 ELSE 1
                [] ~resp.chunked /\ v.length = -1 -> -1
                [] OTHER -> v.length - n]

(* ngx_http_upstream_send_response(): some of it may have been read with the header. *)
Init ==
  /\ resp \in Responses
  /\ \E pre \in 0..Min({BufSize - 1, resp.total}) :
       LET length == IF resp.chunked THEN 1 ELSE resp.length
           header == [mem |-> <<0>>, unsent |-> <<>>, length |-> length]
       IN  /\ srv = [sent |-> pre, read |-> pre, fin |-> FALSE]
           /\ u = IF pre = 0 THEN [header EXCEPT !.mem = <<>>]
                  ELSE InputFilter(header, pre, 0)
           /\ pc = IF pre > 0 \/ length = 0 THEN "write" ELSE "read"
  /\ cli = [got |-> <<>>, room |-> Room]
  /\ rev = [ready |-> TRUE, eof |-> FALSE, error |-> FALSE, event |-> FALSE]
  /\ wev = [ready |-> TRUE, event |-> FALSE]

-----------------------------------------------------------------------------
(* ngx_http_upstream_process_non_buffered_request() *)

(* do_write: ngx_http_output_filter() *)
Write ==
  /\ pc = "write"
  /\ LET n == IF wev.ready THEN Min({Len(u.unsent), cli.room}) ELSE 0 IN
       /\ cli' = [got  |-> cli.got \o [i \in 1..n |-> u.mem[u.unsent[i]]],
                  room |-> cli.room - n]
       /\ u' = [u EXCEPT !.unsent = SubSeq(@, n + 1, Len(@))]
       /\ wev' = [wev EXCEPT !.ready = @ /\ n = Len(u.unsent)]
  /\ pc' = "written"
  /\ UNCHANGED <<resp, srv, rev>>

\* Bug: the end of a connection is not noticed when a length is known.
Written_Trusting ==
  /\ pc = "written"
  /\ \/ /\ u.unsent # <<>>
        /\ pc' = "read" /\ UNCHANGED u
     \/ /\ u.unsent = <<>> /\ (u.length = 0 \/ (rev.eof /\ u.length = -1))
        /\ pc' = "complete" /\ UNCHANGED u
     \/ /\ u.unsent = <<>> /\ u.length # 0 /\ rev.error
        /\ pc' = "broken" /\ UNCHANGED u
     \/ /\ u.unsent = <<>> /\ u.length # 0 /\ ~(rev.eof /\ u.length = -1) /\ ~rev.error
        /\ pc' = "read" /\ u' = [u EXCEPT !.mem = <<>>]
  /\ UNCHANGED <<resp, srv, cli, rev, wev>>

(* All that was read is sent: that was the response, or the buffer is used again. *)
Written ==
  /\ pc = "written"
  /\ \/ /\ u.unsent # <<>>
        /\ pc' = "read" /\ UNCHANGED u
     \/ /\ u.unsent = <<>> /\ (u.length = 0 \/ (rev.eof /\ u.length = -1))
        /\ pc' = "complete" /\ UNCHANGED u
     \/ /\ u.unsent = <<>> /\ u.length # 0 /\ (rev.error \/ (rev.eof /\ u.length # -1))
        /\ pc' = "broken" /\ UNCHANGED u
     \/ /\ u.unsent = <<>> /\ u.length # 0 /\ ~rev.eof /\ ~rev.error
        /\ pc' = "read" /\ u' = [u EXCEPT !.mem = <<>>]
  /\ UNCHANGED <<resp, srv, cli, rev, wev>>

Full == Len(u.mem) = BufSize

(* recv(): data, the end, or nothing yet *)
Read ==
  /\ pc = "read"
  /\ \/ /\ Full \/ ~rev.ready
        /\ pc' = "idle" /\ UNCHANGED <<srv, u, rev>>
     \/ /\ ~Full /\ rev.ready /\ srv.read < srv.sent
        /\ \E n \in 1..Min({BufSize - Len(u.mem), srv.sent - srv.read}) :
             /\ u' = InputFilter(u, n, srv.read)
             /\ srv' = [srv EXCEPT !.read = @ + n]
        /\ pc' = "write" /\ UNCHANGED rev
     \/ /\ ~Full /\ rev.ready /\ srv.read = srv.sent
        /\ rev' = [rev EXCEPT !.ready = FALSE, !.eof = srv.fin]
        /\ pc' = IF srv.fin THEN "write" ELSE "idle"
        /\ UNCHANGED <<srv, u>>
  /\ UNCHANGED <<resp, cli, wev>>

ReadError ==
  /\ pc = "read" /\ ~Full /\ rev.ready
  /\ rev' = [rev EXCEPT !.ready = FALSE, !.error = TRUE]
  /\ pc' = "write"
  /\ UNCHANGED <<resp, srv, cli, u, wev>>

WriteError ==
  /\ pc = "write" /\ u.unsent # <<>> /\ wev.ready
  /\ pc' = "broken"
  /\ UNCHANGED <<resp, srv, cli, u, rev, wev>>

-----------------------------------------------------------------------------
(* Events *)

ServerSends ==
  /\ ~srv.fin /\ srv.sent < resp.total
  /\ srv' = [srv EXCEPT !.sent = @ + 1]
  /\ rev' = [rev EXCEPT !.event = TRUE]
  /\ UNCHANGED <<resp, cli, u, wev, pc>>

ServerCloses ==
  /\ ~srv.fin
  /\ srv' = [srv EXCEPT !.fin = TRUE]
  /\ rev' = [rev EXCEPT !.event = TRUE]
  /\ UNCHANGED <<resp, cli, u, wev, pc>>

ClientReads ==
  /\ cli.room < Room
  /\ cli' = [cli EXCEPT !.room = @ + 1]
  /\ wev' = [wev EXCEPT !.event = TRUE]
  /\ UNCHANGED <<resp, srv, u, rev, pc>>

(* ..._process_non_buffered_upstream(), without do_write unless the length is 0 *)
ReadEvent ==
  /\ pc = "idle" /\ rev.event
  /\ rev' = [rev EXCEPT !.ready = TRUE, !.event = FALSE]
  /\ pc' = IF u.length = 0 THEN "write" ELSE "read"
  /\ UNCHANGED <<resp, srv, cli, u, wev>>

(* ..._process_non_buffered_downstream() *)
WriteEvent ==
  /\ pc = "idle" /\ wev.event
  /\ wev' = [ready |-> TRUE, event |-> FALSE]
  /\ pc' = "write"
  /\ UNCHANGED <<resp, srv, cli, u, rev>>

(* The timers of the two sides, which are set while they are not ready. *)
Timeout ==
  /\ pc = "idle" /\ (~rev.ready \/ ~wev.ready)
  /\ pc' = "broken"
  /\ UNCHANGED <<resp, srv, cli, u, rev, wev>>

-----------------------------------------------------------------------------
Worker == Write \/ Written \/ Read \/ ReadEvent \/ WriteEvent

Next ==
  \/ Worker \/ ReadError \/ WriteError \/ Timeout
  \/ ServerSends \/ ServerCloses \/ ClientReads

SafetySpec == Init /\ [][Next]_vars

(* The worker goes on when it has something to do, the server ends some day, the client
   reads.  No timeout is needed for the end. *)
Spec ==
  SafetySpec /\ WF_vars(Worker) /\ WF_vars(ServerCloses) /\ WF_vars(ClientReads)

(* The promise (module ByteStream): the client gets the response in order and to its end, or
   the connection breaks.  A server that sends more than it announced is cut off after its
   length if nothing more was read until then; otherwise the client gets the surplus too. *)
Stream == INSTANCE ByteStream WITH total <- resp.total,
            length <- IF resp.chunked THEN -1 ELSE resp.length, sent <- srv.sent, got <- cli.got,
            closed <- srv.fin,
            ended <- IF pc \in {"complete", "broken"} THEN pc ELSE "no"
Delivered == Stream!Spec
=============================================================================
