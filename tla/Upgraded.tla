------------------------------ MODULE Upgraded ------------------------------
(***************************************************************************)
(* A connection after "101 Switching Protocols"                             *)
(* (ngx_http_upstream_upgrade() and ngx_http_upstream_process_upgraded() of   *)
(* src/http/ngx_http_upstream.c): what either side sends is passed on to the  *)
(* other one, until one of them is done.                                    *)
(*                                                                         *)
(* A direction has a source, a destination and a buffer.  "response" goes     *)
(* through u->buffer; "request" through r->header_in while that holds what    *)
(* the client sent behind its request, and through u->from_client after it.   *)
(* A buffer holds the numbers of the units from b->pos to b->last; the places  *)
(* are used again when all of it is sent.  Events are edge-triggered.  Each    *)
(* half of a round of the loop is a step.                                    *)
(***************************************************************************)
EXTENDS Integers, Sequences, FiniteSetsExt

CONSTANTS
  Talks,    \* [response, request : Nat (units of each side),
            \*  header : Nat (units read behind the header of the response),
            \*  ahead : Nat (units that the client sent behind its request)]
  BufSize,  \* units of a buffer (proxy_buffer_size)
  Room      \* what a socket takes

UpgradedAssumption ==
  /\ BufSize > 1 /\ Room > 0
  /\ \A t \in Talks : t.header < BufSize /\ t.header =< t.response /\ t.ahead =< t.request

VARIABLES
  talk,
  peer,   \* of a direction: units sent, units read by nginx, FIN sent; units received by
          \* the other side, room in its socket
  buf,    \* u->buffer, header_in, from_client: units, places up to b->last, and b->end
  rev,    \* read event of a source: ready, eof, error, event of epoll
  wev,    \* write event of a destination: ready, event of epoll
  posted, \* the read event of the client is posted
  call    \* the call of ngx_http_upstream_process_upgraded(), or how the request ended

vars == <<talk, peer, buf, rev, wev, posted, call>>

Directions == {"response", "request"}

(* ngx_http_upstream_process_upgraded(): b is chosen when the function is entered, and what
   header_in holds is written at once. *)
Ahead == buf.header_in.data # <<>>

Chosen(d) ==
  IF d = "response" THEN "response" ELSE IF Ahead THEN "header_in" ELSE "from_client"

Entered(d, do_write) ==
  [at |-> "write", from |-> d, b |-> Chosen(d),
   do_write |-> do_write \/ Chosen(d) = "header_in"]

Enter(d, do_write) ==
  /\ call' = Entered(d, do_write)
  /\ buf' = IF Chosen(d) = "header_in"
            THEN [buf EXCEPT !.header_in.end = buf.header_in.last] ELSE buf

(* Behind its header, u->buffer may hold units already, and so may header_in. *)
Init ==
  /\ talk \in Talks
  /\ LET side(early) == [sent |-> early, read |-> early, fin |-> FALSE,
                         got |-> <<>>, room |-> Room]
     IN  peer = [response |-> side(talk.header), request |-> side(talk.ahead)]
  /\ LET b(n, last, end) == [data |-> [i \in 1..n |-> i], last |-> last, end |-> end]
     IN  buf = [response    |-> b(talk.header, talk.header + 1, BufSize),
                header_in   |-> b(talk.ahead, talk.ahead + 1, talk.ahead + 1),
                from_client |-> b(0, 0, BufSize)]
  /\ \E ready \in BOOLEAN :
       /\ rev = [d \in Directions |->
                  [ready |-> d = "request" \/ ready, eof |-> FALSE, error |-> FALSE,
                   event |-> FALSE]]
       /\ posted = (ready \/ talk.header > 0)
       /\ call = Entered(IF posted THEN "response" ELSE "request", TRUE)
  /\ wev = [d \in Directions |-> [ready |-> TRUE, event |-> FALSE]]

-----------------------------------------------------------------------------
(* dst->send() *)
Write ==
  /\ call.at = "write"
  /\ LET d == call.from
         data == buf[call.b].data
         n == IF call.do_write /\ wev[d].ready THEN Min({Len(data), peer[d].room}) ELSE 0
         left == SubSeq(data, n + 1, Len(data))
     IN  /\ peer' = [peer EXCEPT ![d].got = @ \o SubSeq(data, 1, n), ![d].room = @ - n]
         /\ buf' = [buf EXCEPT ![call.b].data = left,
                               ![call.b].last = IF n > 0 /\ left = <<>> THEN 0 ELSE @]
         /\ wev' = [wev EXCEPT ![d].ready = @ /\ (call.do_write => left = <<>>)]
  /\ call' = [call EXCEPT !.at = "read"]
  /\ UNCHANGED <<talk, rev, posted>>

WriteError ==
  /\ call.at = "write" /\ call.do_write
  /\ buf[call.b].data # <<>> /\ wev[call.from].ready
  /\ call' = [at |-> "broken"]
  /\ UNCHANGED <<talk, peer, buf, rev, wev, posted>>

\* Bug: what was read before the end need not be passed on.
Finished_Unsent(r) == r["response"].eof \/ r["request"].eof

(* One side has ended and what it sent has been passed on, or both have ended.  Of what the
   client sent, header_in is not looked at. *)
Finished(r) ==
  \/ r["response"].eof /\ buf["response"].data = <<>>
  \/ r["request"].eof /\ buf["from_client"].data = <<>>
  \/ r["response"].eof /\ r["request"].eof

Leave(r) == call' = [at |-> IF Finished(r) THEN "done" ELSE "idle"]

(* src->recv(): data, the end, an error, or nothing yet *)
Read ==
  /\ call.at = "read"
  /\ LET d == call.from
         size == buf[call.b].end - buf[call.b].last
         p == peer[d]
         data == p.sent > p.read
     IN  \/ /\ size = 0 \/ ~rev[d].ready
            /\ Leave(rev)
            /\ UNCHANGED <<peer, buf, rev>>
         \/ /\ size > 0 /\ rev[d].ready /\ data
            /\ \E n \in 1..Min({size, p.sent - p.read}) :
                 /\ buf' = [buf EXCEPT ![call.b].data = @ \o [i \in 1..n |-> p.read + i],
                                       ![call.b].last = @ + n]
                 /\ peer' = [peer EXCEPT ![d].read = @ + n]
            /\ call' = [call EXCEPT !.at = "write", !.do_write = TRUE]
            /\ UNCHANGED rev
         \/ /\ size > 0 /\ rev[d].ready /\ ~data
            /\ rev' = [rev EXCEPT ![d].ready = FALSE, ![d].eof = p.fin]
            /\ Leave(rev')
            /\ UNCHANGED <<peer, buf>>
         \/ /\ size > 0 /\ rev[d].ready
            /\ rev' = [rev EXCEPT ![d].ready = FALSE, ![d].eof = TRUE, ![d].error = TRUE]
            /\ Leave(rev')
            /\ UNCHANGED <<peer, buf>>
  /\ UNCHANGED <<talk, wev, posted>>

-----------------------------------------------------------------------------
(* Events *)

Sends(d) ==
  /\ ~peer[d].fin /\ peer[d].sent < talk[d]
  /\ peer' = [peer EXCEPT ![d].sent = @ + 1]
  /\ rev' = [rev EXCEPT ![d].event = TRUE]
  /\ UNCHANGED <<talk, buf, wev, posted, call>>

Closes(d) ==
  /\ ~peer[d].fin
  /\ peer' = [peer EXCEPT ![d].fin = TRUE]
  /\ rev' = [rev EXCEPT ![d].event = TRUE]
  /\ UNCHANGED <<talk, buf, wev, posted, call>>

Receives(d) ==
  /\ peer[d].room < Room
  /\ peer' = [peer EXCEPT ![d].room = @ + 1]
  /\ wev' = [wev EXCEPT ![d].event = TRUE]
  /\ UNCHANGED <<talk, buf, rev, posted, call>>

(* ..._upgraded_read_upstream(), ..._upgraded_read_downstream() *)
ReadEvent(d) ==
  /\ call.at = "idle" /\ rev[d].event
  /\ rev' = [rev EXCEPT ![d].ready = TRUE, ![d].event = FALSE]
  /\ Enter(d, FALSE)
  /\ UNCHANGED <<talk, peer, wev, posted>>

(* ..._upgraded_write_downstream(), ..._upgraded_write_upstream() *)
WriteEvent(d) ==
  /\ call.at = "idle" /\ wev[d].event
  /\ wev' = [wev EXCEPT ![d] = [ready |-> TRUE, event |-> FALSE]]
  /\ Enter(d, TRUE)
  /\ UNCHANGED <<talk, peer, rev, posted>>

(* Posted by ngx_http_upstream_upgrade() *)
PostedRead ==
  /\ call.at = "idle" /\ posted
  /\ posted' = FALSE
  /\ Enter("request", FALSE)
  /\ UNCHANGED <<talk, peer, rev, wev>>

(* The timers of both sides of the server and of writing to the client *)
Timeout ==
  /\ call.at = "idle"
  /\ ~rev["response"].ready \/ \E d \in Directions : ~wev[d].ready
  /\ call' = [at |-> "broken"]
  /\ UNCHANGED <<talk, peer, buf, rev, wev, posted>>

-----------------------------------------------------------------------------
Worker ==
  Write \/ Read \/ PostedRead \/ \E d \in Directions : ReadEvent(d) \/ WriteEvent(d)

Next ==
  \/ Worker \/ WriteError \/ Timeout
  \/ \E d \in Directions : Sends(d) \/ Closes(d) \/ Receives(d)

(* The worker goes on when it has something to do, the server ends some day, the client
   reads what it gets. *)
Spec ==
  Init /\ [][Next]_vars /\ WF_vars(Worker) /\ WF_vars(Closes("response"))
       /\ WF_vars(Receives("response"))

(* How a direction has ended.  It is complete if its source has ended and the other side
   goes on, unless the end of the client was seen behind what header_in holds. *)
Ended(d) ==
  CASE call.at = "done" /\ rev[d].eof /\ ~rev[d].error
         /\ \A e \in Directions \ {d} : ~rev[e].eof
         /\ (d = "request" => ~Ahead) -> "complete"
    [] call.at = "broken" -> "broken"
    [] call.at = "done" -> "broken"
    [] OTHER -> "no"
=============================================================================
