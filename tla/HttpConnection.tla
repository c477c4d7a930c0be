--------------------------- MODULE HttpConnection ---------------------------
(***************************************************************************)
(* A client connection and the requests that come over it one after the     *)
(* other, from ngx_http_init_connection() to the end of the connection       *)
(* (src/http/ngx_http_request.c, src/http/ngx_http_request_body.c): reading  *)
(* headers into c->buffer and the large buffers, reading or discarding the    *)
(* body, keepalive, pipelined requests and lingering close.                 *)
(*                                                                         *)
(* What the client sends is a sequence of units: line breaks between the    *)
(* requests, pieces of header lines, pieces of bodies (a chunk is one unit,  *)
(* and the chunked parser asks for one at a time).  A buffer holds numbers   *)
(* of units, so that a buffer which is reused too early, or a body that is   *)
(* taken for a request, can be seen.  Every recv() and every parsed unit is  *)
(* one step; the client goes on between them.  Events are edge-triggered,    *)
(* and as with epoll a short recv() does not clear rev->ready.               *)
(***************************************************************************)
EXTENDS Naturals, Sequences, FiniteSets, SequencesExt, FiniteSetsExt

CONSTANTS
  Streams,     \* the streams that are tried; a unit is a record
               \* [n : its request, part : {"crlf", "line", "body"},
               \*  end : it ends a line, head : it ends the header, and for the
               \*  whole request body : units, chunked, keep : BOOLEAN]
  HeaderSize,  \* client_header_buffer_size, in units
  LargeSize,   \* large_client_header_buffers, second number
  Num,         \* large_client_header_buffers, first number
  BodySize     \* client_body_buffer_size

(* What is assumed of the constants; the modules of the instances state it. *)
HttpConnectionAssumption ==
  /\ {HeaderSize, LargeSize, Num, BodySize} \subseteq Nat \ {0}
  /\ \A s \in Streams :
       /\ s # <<>>
       /\ s \in Seq([n : Nat, part : {"crlf", "line", "body"}, end : BOOLEAN, head : BOOLEAN,
                     body : Nat, chunked : BOOLEAN, keep : BOOLEAN])

VARIABLES
  stream,  \* the stream of this client
  net,     \* units sent and read, the client has closed its side
  rev,     \* c->read: ready, timer, posted, eof, and an event of epoll is pending
  buf,     \* c->buffer (0) and the large buffers: units, how many are parsed
  hc,      \* hc->busy and hc->free
  c,       \* the handler of c->read, c->reusable, and where the process is
  r        \* the request

vars == <<stream, net, rev, buf, hc, c, r>>

Unit(i) == stream[i]
Empty   == [data |-> <<>>, pos |-> 0]

NoRequest ==
  [n |-> 0, in |-> 0, start |-> 0, partial |-> FALSE, lines |-> <<>>, keep |-> FALSE,
   linger |-> FALSE, discard |-> FALSE, chunked |-> FALSE, left |-> 0, lt |-> FALSE,
   count |-> 1, resp |-> "none", reh |-> "block", body |-> <<>>, read |-> FALSE,
   unf |-> <<>>, used |-> 0, cap |-> 0, valid |-> TRUE]

(* ngx_http_init_connection(): with deferred accept the data is there already and  *)
(* the event is posted, else the connection waits with a timer.               *)
Init ==
  /\ stream \in Streams
  /\ \E deferred \in BOOLEAN :
       /\ net = [sent |-> IF deferred THEN 1 ELSE 0, read |-> 0, fin |-> FALSE]
       /\ rev = [ready |-> deferred, posted |-> deferred, timer |-> ~deferred,
                 event |-> FALSE, eof |-> FALSE]
       /\ c = [handler |-> "wait", reusable |-> ~deferred, pc |-> "idle"]
  /\ buf = [i \in 0..Num |-> Empty]
  /\ hc = [busy |-> <<>>, free |-> <<>>]
  /\ r = NoRequest

-----------------------------------------------------------------------------
(* The functions below map a state, as a record, to the next one. *)

Now == [net |-> net, rev |-> rev, buf |-> buf, hc |-> hc, c |-> c, r |-> r]

Becomes(new) ==
  /\ \E s \in {new} : /\ net' = s.net /\ rev' = s.rev /\ buf' = s.buf
                      /\ hc' = s.hc /\ c' = s.c /\ r' = s.r
  /\ UNCHANGED stream

Goto(s, pc) == [s EXCEPT !.c.pc = pc]

(* ngx_http_close_connection(): nothing is left of it. *)
Closed(s) ==
  [s EXCEPT !.c = [handler |-> "closed", reusable |-> FALSE, pc |-> "closed"],
            !.rev = [ready |-> FALSE, posted |-> FALSE, timer |-> FALSE,
                     event |-> FALSE, eof |-> FALSE],
            !.buf = [i \in 0..Num |-> Empty], !.hc = [busy |-> <<>>, free |-> <<>>],
            !.r = NoRequest]

(* ngx_http_close_request() *)
CloseRequest(s) ==
  IF s.r.count = 1 THEN Closed(s) ELSE Goto([s EXCEPT !.r.count = @ - 1], "idle")

(* ngx_unix_recv(): how many units it gives, and what it does to the event. *)
Arrived(size) == Min({size, net.sent - net.read})
Eof(size)     == net.sent = net.read /\ net.fin /\ size > 0
Received(n)   == [i \in 1..n |-> net.read + i]

Recv(s, n) ==
  [s EXCEPT !.net.read = @ + n,
            !.rev.ready = @ /\ n > 0,
            !.rev.eof = @ \/ (n = 0 /\ net.fin)]

Last_(s)  == Len(s.buf[s.r.in].data)
Pos(s)    == s.buf[s.r.in].pos
End(s)    == IF s.r.in = 0 THEN HeaderSize ELSE LargeSize
Ahead(s)  == Last_(s) - Pos(s)
Content(b, lo, hi) == SubSeq(b.data, lo, hi)

(* ngx_http_create_request(): on c->buffer, unless large buffers are busy. *)
CreateRequest(s) ==
  [s EXCEPT !.r = [NoRequest EXCEPT !.n = s.r.n + 1,
                     !.in = IF s.hc.busy = <<>> THEN 0 ELSE s.hc.busy[1]],
            !.c.handler = "line"]

-----------------------------------------------------------------------------
(* The client *)

ClientSends ==
  /\ c.pc # "closed" /\ net.sent < Len(stream) /\ ~net.fin
  /\ net' = [net EXCEPT !.sent = @ + 1]
  /\ rev' = [rev EXCEPT !.event = TRUE]
  /\ UNCHANGED <<stream, buf, hc, c, r>>

ClientCloses ==
  /\ c.pc # "closed" /\ ~net.fin
  /\ net' = [net EXCEPT !.fin = TRUE]
  /\ rev' = [rev EXCEPT !.event = TRUE]
  /\ UNCHANGED <<stream, buf, hc, c, r>>

-----------------------------------------------------------------------------
(* Events *)

(* The handler of c->read, and behind ngx_http_request_handler() the one of r. *)
Dispatched ==
  CASE c.handler \in {"line", "headers"} -> "parse"
    [] c.handler = "request" /\ r.reh = "block" -> "idle"
    [] c.handler = "request" /\ r.reh # "block" -> r.reh
    [] OTHER -> c.handler

(* An event of epoll; those that are posted are handled before the next epoll_wait(). *)
Event ==
  /\ c.pc = "idle"
  /\ \/ rev.posted /\ rev' = [rev EXCEPT !.posted = FALSE]
     \/ ~rev.posted /\ rev.event /\ rev' = [rev EXCEPT !.event = FALSE, !.ready = TRUE]
  /\ c' = [c EXCEPT !.pc = Dispatched]
  /\ UNCHANGED <<stream, net, buf, hc, r>>

(* The timer of c->read: all handlers that have one give up. *)
Timeout == c.pc = "idle" /\ rev.timer /\ ~rev.posted /\ Becomes(Closed(Now))

(* ngx_drain_connections() takes the structure for another client. *)
DrainConnection == c.pc = "idle" /\ c.reusable /\ Becomes(Closed(Now))

(* ngx_http_wait_request_handler() and ngx_http_keepalive_handler(), which differ    *)
(* in when the timer is set and deleted.                                     *)
FirstData(s) ==
  Goto(CreateRequest([s EXCEPT !.c.reusable = FALSE]), "parse")

WaitRequest ==
  /\ c.pc \in {"wait", "keepalive"}
  /\ LET n == Arrived(HeaderSize)
         s == Recv([Now EXCEPT !.buf[0].data = @ \o Received(n)], n)
     IN  CASE n > 0 ->
                Becomes([FirstData(s) EXCEPT !.rev.timer = @ /\ c.pc = "wait"])
           [] n = 0 /\ net.fin -> Becomes(Closed(Now))
           [] OTHER ->
                Becomes(Goto([s EXCEPT !.rev.timer = TRUE,
                                       !.c.reusable = @ \/ ~rev.timer], "idle"))

-----------------------------------------------------------------------------
(* ngx_http_process_request_line(), ngx_http_process_request_headers() *)

Parsing == c.pc = "parse"

(* One unit: line breaks before a request are skipped; a unit that ends a line   *)
(* records where the line is; the empty line at the end leads to the handlers.*)
ParseUnit ==
  /\ Parsing /\ Ahead(Now) > 0
  /\ LET u == Unit(buf[r.in].data[Pos(Now) + 1])
         s == [Now EXCEPT !.buf[r.in].pos = @ + 1]
         from == IF r.partial THEN r.start ELSE Pos(Now)
         line == [buf |-> r.in, lo |-> from + 1, hi |-> Pos(Now) + 1]
     IN  CASE c.handler = "line" /\ ~r.partial /\ u.part = "crlf" -> Becomes(s)
           [] u.head -> Becomes(Goto([s EXCEPT !.r.partial = FALSE], "handle"))
           [] u.end /\ ~u.head ->
                Becomes([s EXCEPT !.r.partial = FALSE, !.r.lines = Append(@, line),
                                  !.c.handler = "headers"])
           [] OTHER -> Becomes([s EXCEPT !.r.partial = TRUE, !.r.start = from])

(* ngx_http_read_request_header() *)
ReadHeader ==
  /\ Parsing /\ Ahead(Now) = 0 /\ Last_(Now) < End(Now)
  /\ LET n == IF rev.ready THEN Arrived(End(Now) - Last_(Now)) ELSE 0
         s == IF rev.ready THEN Recv(Now, n) ELSE Now
     IN  CASE n > 0 -> Becomes([s EXCEPT !.buf[r.in].data = @ \o Received(n)])
           [] n = 0 /\ s.rev.eof -> Becomes(Closed(Now))
           [] OTHER -> Becomes(Goto([s EXCEPT !.rev.timer = TRUE], "idle"))

(* ngx_http_finalize_request() with an error: the error page; keepalive is off. *)
ErrorPage(s) ==
  Goto([s EXCEPT !.r.keep = FALSE, !.r.resp = "on", !.r.valid = FALSE,
                 !.rev.timer = FALSE, !.c.handler = "request"], "idle")

(* The buffer that ngx_http_alloc_large_header_buffer() takes. *)
HasLarge == hc.free # <<>> \/ Len(hc.busy) < Num
LargeBuffer ==
  IF hc.free # <<>> THEN Last(hc.free)
  ELSE Min((1..Num) \ {hc.busy[i] : i \in DOMAIN hc.busy})

Taken(s, b) ==
  [s EXCEPT !.hc.busy = Append(@, b),
            !.hc.free = IF @ = <<>> THEN @ ELSE Front(@), !.r.in = b]

(* ngx_http_alloc_large_header_buffer(): the buffer is full.  It is reset if there *)
(* were only line breaks in it; else a large one follows, into which a line    *)
(* that is not complete is copied.                                           *)
AllocLarge ==
  /\ Parsing /\ Pos(Now) = End(Now)
  /\ LET part == Content(buf[r.in], r.start + 1, Pos(Now))
     IN  CASE c.handler = "line" /\ ~r.partial -> Becomes([Now EXCEPT !.buf[r.in] = Empty])
           [] r.partial /\ Len(part) < LargeSize /\ HasLarge ->
                Becomes([Taken(Now, LargeBuffer) EXCEPT
                           !.buf[LargeBuffer] = [data |-> part, pos |-> Len(part)],
                           !.r.start = 0])
           [] c.handler = "headers" /\ ~r.partial /\ HasLarge ->
                Becomes([Taken(Now, LargeBuffer) EXCEPT !.buf[LargeBuffer] = Empty])
           [] OTHER ->
                Becomes(ErrorPage([Now EXCEPT !.r.linger = c.handler = "headers"]))

-----------------------------------------------------------------------------
(* ngx_http_process_request(), ngx_http_handler() and the handler of the content. *)

Respond(s) == Goto([s EXCEPT !.r.resp = "on"], "idle")

(* What the body filters take of the units in header_in. *)
Preread(s) == Min({s.r.left, Ahead(s)})

Filtered(s, units) ==
  [s EXCEPT !.r.left = @ - Len(units),
            !.r.body = IF s.r.read THEN @ \o units ELSE @]

PrereadFiltered(s) ==
  LET k == Preread(s)
  IN  [Filtered(s, Content(s.buf[s.r.in], Pos(s) + 1, Pos(s) + k)) EXCEPT
         !.buf[s.r.in].pos = @ + k]

(* ngx_http_discard_request_body() *)
Discard(s) ==
  LET f == PrereadFiltered(s)
  IN  IF f.r.left = 0 THEN Respond(f) ELSE Goto(f, "discard")

(* ngx_http_read_client_request_body(): the rest of the body may follow in          *)
(* header_in, or gets a buffer of its own.                                   *)
Plenty(size) == size + size \div 4

ReadBody(s) ==
  LET f    == PrereadFiltered([s EXCEPT !.r.read = TRUE])
      rest == f.r.left
      room == End(f) - Last_(f)
      own  == IF ~f.r.chunked /\ rest < Plenty(BodySize) THEN rest ELSE BodySize
      same == ~f.r.chunked /\ Ahead(s) > 0 /\ rest <= room
  IN  IF rest = 0 THEN Respond(f)
      ELSE Goto([f EXCEPT !.r.reh = "body", !.r.cap = IF same THEN room ELSE own], "body")

(* ngx_http_process_request_header() rejects the request before its body is known, or *)
(* TRACE ("early"), which ngx_http_handler() does not see; a handler reads or    *)
(* discards the body, as do all error pages.                                 *)
Handle ==
  /\ c.pc = "handle"
  /\ LET u == Unit(buf[r.in].data[Pos(Now)])
     IN  \/ Becomes(ErrorPage(Now))
         \/ \E keep, read, early \in BOOLEAN :
              LET s == [Now EXCEPT !.rev.timer = FALSE, !.c.handler = "request",
                                   !.r.keep = keep, !.r.chunked = u.chunked,
                                   !.r.left = u.body, !.r.linger = u.body > 0 /\ ~early]
              IN  /\ keep => u.keep
                  /\ early => ~keep /\ ~read
                  /\ Becomes(IF read THEN ReadBody(s) ELSE Discard(s))

-----------------------------------------------------------------------------
(* ngx_http_do_read_client_request_body() *)

\* rb->rest: how much the filter wants to see
Wants(q) == IF q.chunked THEN 1 ELSE q.left

Passed(s) == [Filtered(s, s.r.unf) EXCEPT !.r.unf = <<>>]

Refilled(s) == IF s.r.used = s.r.cap THEN [Passed(s) EXCEPT !.r.used = 0] ELSE s

DoReadBody ==
  /\ c.pc = "body"
  /\ \E s \in {Refilled(Now)} :
       LET rest == Wants(s.r) - Len(s.r.unf)
           size == Min({s.r.cap - s.r.used, rest})
           n    == Arrived(size)
           t    == [Recv(s, n) EXCEPT !.r.used = @ + n, !.r.unf = @ \o Received(n)]
           p    == IF n = rest THEN Passed(t) ELSE t
       IN  CASE n > 0 /\ p.r.left = 0 ->
                  Becomes(Respond([p EXCEPT !.rev.timer = FALSE, !.r.reh = "block"]))
             [] n > 0 /\ p.r.left > 0 -> Becomes(p)
             [] n = 0 /\ Eof(size) -> Becomes(Closed(Now))
             [] OTHER -> Becomes(Goto([t EXCEPT !.rev.timer = TRUE], "idle"))

-----------------------------------------------------------------------------
(* The end of a request *)

(* ngx_http_set_lingering_close(): nothing more is written. *)
SetLingeringClose(s) ==
  Goto([s EXCEPT !.c.handler = "linger", !.rev.timer = TRUE, !.r.lt = TRUE, !.r.resp = "done"],
       IF s.rev.ready THEN "linger" ELSE "idle")

(* ngx_http_set_keepalive().  A pipelined request goes on in the buffer that the   *)
(* last one ended in; the other large buffers can be used again.             *)
\* Bug: all large buffers are put on the free list.
Recycled_All(s) ==
  IF s.r.in = 0 THEN s
  ELSE [s EXCEPT !.hc.free = @ \o s.hc.busy, !.hc.busy = <<s.r.in>>,
                 !.buf = [i \in 0..Num |-> IF i \in {s.hc.busy[k] : k \in 1..Len(s.hc.busy) - 1}
                                           THEN Empty ELSE @[i]]]

Recycled(s) ==
  IF s.r.in = 0 THEN s
  ELSE LET done == Front(s.hc.busy)
       IN  [s EXCEPT !.hc.free = @ \o done, !.hc.busy = <<s.r.in>>,
                     !.buf = [i \in 0..Num |-> IF i \in {done[k] : k \in DOMAIN done}
                                               THEN Empty ELSE @[i]]]

\* Bug: an idle connection waits for the next event whatever has arrived.
Idle_Unposted(s) ==
  Goto([s EXCEPT !.c.handler = "keepalive", !.c.reusable = TRUE, !.rev.timer = TRUE,
                 !.hc = [busy |-> <<>>, free |-> <<>>],
                 !.buf = [i \in 0..Num |-> Empty],
                 !.r = [NoRequest EXCEPT !.n = s.r.n]], "idle")

Idle(s) ==
  Goto([s EXCEPT !.c.handler = "keepalive", !.c.reusable = TRUE, !.rev.timer = TRUE,
                 !.rev.posted = @ \/ s.rev.ready,
                 !.hc = [busy |-> <<>>, free |-> <<>>],
                 !.buf = [i \in 0..Num |-> Empty],
                 !.r = [NoRequest EXCEPT !.n = s.r.n]], "idle")

SetKeepalive(s) ==
  IF Ahead(s) > 0
    THEN Goto([CreateRequest(Recycled(s)) EXCEPT !.rev.timer = FALSE, !.rev.posted = TRUE],
              "idle")
    ELSE Idle(s)

(* ngx_http_finalize_connection() *)
FinalizeConnection(s) ==
  IF s.r.count # 1
    THEN CloseRequest(IF s.r.discard
                        THEN [s EXCEPT !.r.reh = "discard", !.rev.timer = TRUE, !.r.lt = TRUE]
                        ELSE s)
  ELSE IF s.r.keep THEN SetKeepalive(s)
  ELSE IF s.r.linger \/ Ahead(s) > 0 \/ s.rev.ready THEN SetLingeringClose(s)
  ELSE CloseRequest(s)

(* ngx_http_finalize_request(): the response has been sent. *)
ResponseDone ==
  /\ c.pc = "idle" /\ r.resp = "on"
  /\ \E s \in {[Now EXCEPT !.rev.timer = FALSE, !.r.resp = "done"]} :
       Becomes(IF rev.eof THEN CloseRequest(s) ELSE FinalizeConnection(s))

(* The client cannot be written to: ngx_http_terminate_request(). *)
Terminate == c.pc = "idle" /\ r.resp = "on" /\ Becomes(Closed(Now))

(* ngx_http_read_discarded_request_body(), for ngx_http_discard_request_body()      *)
(* before the response, and later for ngx_http_discarded_request_body_handler().*)
Discarded(s) ==
  IF s.r.resp # "none"
    THEN FinalizeConnection([s EXCEPT !.r.discard = FALSE, !.r.linger = FALSE])
    ELSE Respond([s EXCEPT !.r.linger = FALSE])

DiscardAgain(s) ==
  IF s.r.resp # "none" THEN Goto([s EXCEPT !.rev.timer = @ \/ s.r.lt], "idle")
  ELSE Respond([s EXCEPT !.r.reh = "discard", !.r.count = @ + 1, !.r.discard = TRUE])

ReadDiscarded ==
  /\ c.pc = "discard"
  /\ LET size == Wants(r)
         n == IF r.left > 0 /\ rev.ready THEN Arrived(size) ELSE 0
         s == IF r.left > 0 /\ rev.ready THEN Recv(Now, n) ELSE Now
     IN  CASE r.left = 0 -> Becomes(Discarded([Now EXCEPT !.r.reh = "block"]))
           [] r.left > 0 /\ n > 0 -> Becomes([s EXCEPT !.r.left = @ - n])
           [] r.left > 0 /\ n = 0 /\ rev.ready /\ net.fin -> Becomes(Discarded(s))
           [] OTHER -> Becomes(DiscardAgain(s))

(* ngx_http_lingering_close_handler() *)
LingeringClose ==
  /\ c.pc = "linger"
  /\ LET n == net.sent - net.read
         s == Recv(Now, n)
     IN  CASE n > 0 -> Becomes(s)
           [] n = 0 /\ net.fin -> Becomes(Closed(Now))
           [] OTHER -> Becomes(Goto([s EXCEPT !.rev.timer = TRUE], "idle"))

(* The time of lingering_time is over. *)
LingeringOver == c.pc \in {"discard", "linger"} /\ r.lt /\ Becomes(Closed(Now))

Done == c.pc = "closed" /\ UNCHANGED vars

-----------------------------------------------------------------------------
Next ==
  \/ ClientSends \/ ClientCloses
  \/ Event \/ Timeout \/ DrainConnection
  \/ WaitRequest \/ ParseUnit \/ ReadHeader \/ AllocLarge \/ Handle
  \/ DoReadBody \/ ReadDiscarded \/ ResponseDone \/ Terminate
  \/ LingeringClose \/ LingeringOver \/ Done

Spec == Init /\ [][Next]_vars

-----------------------------------------------------------------------------
Numbers(part) ==
  SelectSeq([i \in DOMAIN stream |-> i],
            LAMBDA i : Unit(i).n = r.n /\ Unit(i).part = part)

(* The units of the lines that have been parsed, as they are in memory now. *)
InMemory ==
  FlattenSeq([k \in DOMAIN r.lines |-> Content(buf[r.lines[k].buf], r.lines[k].lo, r.lines[k].hi)])
  \o (IF r.partial THEN Content(buf[r.in], r.start + 1, buf[r.in].pos) ELSE <<>>)

(* Every request is what the client sent as this request: wherever its lines are,   *)
(* in c->buffer or in large buffers that earlier requests have used, they are    *)
(* intact until the response has been sent; a body that was read is the whole body *)
(* of this request; and what follows a body that was read or discarded is the   *)
(* beginning of the next request.  header_in is the last large buffer in use, and *)
(* no buffer is both in use and free.                                        *)
Framing ==
  LET line == Numbers("line")
      body == Numbers("body")
      mem  == InMemory
  IN
  /\ r.n > 0 /\ c.handler \in {"line", "headers", "request"} =>
       /\ IsPrefix(mem, line) /\ IsPrefix(r.body, body)
       /\ r.resp # "none" /\ r.valid =>
            /\ \A i \in Len(mem) + 1..Len(line) - 1 : ~Unit(line[i]).end
            /\ r.read => r.body = body
       /\ r.in = IF hc.busy = <<>> THEN 0 ELSE Last(hc.busy)
  /\ IsInjective(hc.busy \o hc.free)
  /\ Len(hc.busy \o hc.free) <= Num

(* The connection is never forgotten: when the process is elsewhere, whatever has   *)
(* arrived has an event that will be handled, unless a response is under way, and *)
(* a silent client meets a timer.                                            *)
Attended ==
  c.pc = "idle" =>
    /\ net.read < net.sent \/ (net.fin /\ ~rev.eof) =>
         rev.event \/ rev.posted \/ (r.resp = "on" /\ r.reh = "block")
    /\ rev.timer \/ rev.posted \/ r.resp = "on"
=============================================================================
