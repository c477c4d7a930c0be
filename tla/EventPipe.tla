------------------------------ MODULE EventPipe ------------------------------
(***************************************************************************)
(* The event pipe (src/event/ngx_event_pipe.c), which passes the response   *)
(* of a server to a client that may be slower, with the handlers of         *)
(* ngx_http_upstream.c that drive it.                                       *)
(*                                                                         *)
(* The response is the sequence of units 1, 2, ...  A raw buffer holds      *)
(* BufSize units; the input filter puts pieces that point into the raw      *)
(* buffer ("shadows") on the chain p->in, from where they go to the client, *)
(* or to a temporary file and then, as ranges of the file, on p->out.  What *)
(* the client gets is what the memory or the file holds when the unit is    *)
(* sent, so that a buffer which is reused too early corrupts the stream.    *)
(* Unit 0 stands for the header, which is at the start of u->buffer and,     *)
(* when the response is cacheable, at the start of the file.                *)
(*                                                                         *)
(* The loops of ngx_event_pipe() are taken apart into their rounds: server, *)
(* client and kernel go on between them.  readv() into several buffers is   *)
(* a sequence of reads into one.  Events are edge-triggered, and a unit is  *)
(* not below postpone_output.  "cyclic_temp_file" is disabled in all        *)
(* modules and left out, as is AIO.                                         *)
(***************************************************************************)
EXTENDS Naturals, Integers, Sequences, FiniteSets, SequencesExt, FiniteSetsExt

CONSTANTS
  Configs,    \* [filter : {"copy", "chunked"}, cacheable : BOOLEAN,
              \*  length : BOOLEAN (Content-Length), limit : BOOLEAN (limit_rate),
              \*  maxfile : Nat (proxy_max_temp_file_size, in units),
              \*  total : Nat (units of the response)]
  BufSize,    \* units of a raw buffer (proxy_buffers, second number)
  Num,        \* raw buffers besides the one of the header (first number)
  BusySize,   \* proxy_busy_buffers_size, in units
  WriteSize,  \* proxy_temp_file_write_size
  Room        \* units that the socket of the client takes

\* ngx_http_proxy_merge_loc_conf() refuses anything else.
ASSUME ConfAssumption ==
  /\ BusySize >= BufSize /\ BusySize <= (Num - 1) * BufSize
  /\ WriteSize >= BufSize
  /\ \A c \in Configs : c.maxfile = 0 \/ c.maxfile >= BufSize

VARIABLES
  conf,
  srv,     \* the server: units sent, units read from the socket, FIN sent
  cli,     \* the client: units received, room in its socket
  p,       \* the pipe: memory, chains, temporary file and p->buf_to_file, the
           \* header that is not yet written to the file
  rev,     \* read event of the server: ready, an event of epoll is pending
  wev,     \* write event of the client: the same, and delayed by limit_rate
  st       \* pc, p->read, p->upstream_blocked, upstream_eof etc., downstream_error,
           \* and what became of the cache file

vars == <<conf, srv, cli, p, rev, wev, st>>

Raws == 0..Num      \* 0 is u->buffer

Mem(i, lo, hi, last) == [file |-> FALSE, raw |-> i, lo |-> lo, hi |-> hi, last |-> last]
File(lo, hi)         == [file |-> TRUE, raw |-> 0, lo |-> lo, hi |-> hi, last |-> FALSE]
Size(b)              == b.hi - b.lo + 1
SizeOf(c)            == FoldSeq(LAMBDA b, n : n + Size(b), 0, c)

-----------------------------------------------------------------------------
(* Buffers *)

Over == st.over # "no"

\* p->length: -1, or how much is still to be seen; a chunked response asks for
\* at least a byte until its last chunk is parsed.
Length(q) ==
  CASE conf.filter = "chunked" -> IF q.passed = conf.total THEN 0 ELSE 1
    [] conf.length -> conf.total - q.passed
    [] OTHER -> -1

\* The units of a raw buffer from b->pos to b->last, behind the header.
Held(q, i) == SelectSeq(q.mem[i], LAMBDA u : u > 0)

\* A buffer is emptied, except for a header that the file has not got yet.
Emptied(q, i) == IF q.header /\ i = 0 THEN <<0>> ELSE <<>>

(* ngx_event_pipe_add_free_buf(): behind a buffer that is partly filled. *)
AddFree(q, i) ==
  [q EXCEPT !.mem[i] = Emptied(q, i),
            !.free = IF @ # <<>> /\ Held(q, Head(@)) # <<>>
                     THEN <<Head(@), i>> \o Tail(@) ELSE <<i>> \o @]

(* The input filter: one shadow for the whole buffer, or one for each chunk,  *)
(* of which the last gives the buffer back.                                  *)
InputFilter(q, i) ==
  LET n   == Len(Held(q, i))
      pos == Len(q.mem[i]) - n
      pieces == IF n = 0 THEN <<>>
                ELSE IF conf.filter = "copy" THEN <<Mem(i, pos + 1, pos + n, TRUE)>>
                ELSE [u \in 1..n |-> Mem(i, pos + u, pos + u, u = n)]
  IN [q EXCEPT !.in = @ \o pieces, !.passed = @ + n]

PassFirst(q) == InputFilter([q EXCEPT !.free = Tail(@)], Head(q.free))

(* ngx_event_pipe_write_chain_to_temp_file(): all of p->in for a cacheable      *)
(* response, else up to the raw buffer whose first piece would exceed a limit.*)
Exceeds(q, n) ==
  LET size == SizeOf(SubSeq(q.in, 1, n))
  IN size > WriteSize \/ Len(q.file) + size > conf.maxfile

Stops(q, n) == ~conf.cacheable /\ (n = 0 \/ q.in[n].last) /\ Exceeds(q, n + 1)

ToFile(q) == Min({Len(q.in)} \cup {n \in 0..Len(q.in) - 1 : Stops(q, n)})

Content(q, b) == IF b.file THEN SubSeq(q.file, b.lo, b.hi)
                 ELSE SubSeq(q.mem[b.raw], b.lo, b.hi)

Data(q, c) == FlattenSeq([n \in 1..Len(c) |-> Content(q, c[n])])

WriteTemp(q) ==
  LET n    == ToFile(q)
      head == IF q.header THEN SubSeq(q.mem[0], 1, 1) ELSE <<>>
      old  == Len(q.file) + Len(head)
      data == Data(q, SubSeq(q.in, 1, n))
      back == SelectSeq(SubSeq(q.in, 1, n), LAMBDA b : b.last)
      join == q.out # <<>> /\ Last(q.out).hi = old
  IN [q EXCEPT !.file = @ \o head \o data,
               !.header = FALSE,
               !.in = SubSeq(@, n + 1, Len(@)),
               !.out = IF data = <<>> THEN @
                       ELSE IF join THEN [@ EXCEPT ![Len(@)].hi = old + Len(data)]
                       ELSE Append(@, File(old + 1, old + Len(data))),
               !.mem = [i \in Raws |-> IF \E k \in 1..Len(back) : back[k].raw = i
                                       THEN <<>> ELSE @[i]],
               !.free = @ \o [k \in 1..Len(back) |-> back[k].raw]]

(* The units that came with the header (preread) are in u->buffer; the header    *)
(* has been sent to the client and may fill its socket.                      *)
Init ==
  /\ conf \in Configs
  /\ \E pre \in 0..BufSize - 1 :
       LET q == [mem |-> [i \in Raws |-> IF i = 0 THEN [u \in 1..pre + 1 |-> u - 1] ELSE <<>>],
                 free |-> <<0>>, allocated |-> 0, passed |-> 0, header |-> conf.cacheable,
                 in |-> <<>>, out |-> <<>>, busy |-> <<>>, file |-> <<>>]
       IN /\ srv = [sent |-> pre, read |-> pre, fin |-> FALSE]
          /\ p = IF pre = BufSize - 1 THEN PassFirst(q) ELSE q
  /\ cli = [got |-> <<>>, room |-> 0]
  /\ rev = [ready |-> TRUE, event |-> FALSE]
  /\ wev = [ready |-> TRUE, event |-> FALSE, delayed |-> FALSE]
  /\ st = [pc |-> "read", read |-> srv.read > 0, blocked |-> FALSE, over |-> "no",
           error |-> FALSE, cache |-> "none"]

-----------------------------------------------------------------------------
(* Server, client, kernel *)

ServerSends ==
  /\ srv.sent < conf.total /\ ~srv.fin
  /\ srv' = [srv EXCEPT !.sent = @ + 1]
  /\ rev' = [rev EXCEPT !.event = TRUE]
  /\ UNCHANGED <<conf, cli, p, wev, st>>

ServerCloses ==
  /\ ~srv.fin
  /\ srv' = [srv EXCEPT !.fin = TRUE]
  /\ rev' = [rev EXCEPT !.event = TRUE]
  /\ UNCHANGED <<conf, cli, p, wev, st>>

ClientReads ==
  /\ cli.room < Room
  /\ cli' = [cli EXCEPT !.room = Room]
  /\ wev' = [wev EXCEPT !.event = TRUE]
  /\ UNCHANGED <<conf, srv, p, rev, st>>

-----------------------------------------------------------------------------
(* ngx_event_pipe_read_upstream() *)

(* One read into the first raw buffer of q.free. *)
Filled(q, i, n) ==
  LET m == [q EXCEPT !.mem[i] = @ \o [u \in 1..n |-> srv.read + u]]
  IN IF Len(q.mem[i]) + n = BufSize THEN PassFirst(m) ELSE m

Recv(chains) ==
  \E q \in {chains} :
  \E n \in {Min({srv.sent - srv.read, BufSize - Len(q.mem[Head(q.free)])})} :
     IF n > 0
     THEN /\ p' = Filled(q, Head(q.free), n)
          /\ srv' = [srv EXCEPT !.read = @ + n]
          /\ st' = IF Length(p') = 0
                   THEN [st EXCEPT !.read = TRUE, !.over = "done", !.pc = "readend"]
                   ELSE [st EXCEPT !.read = TRUE]
          /\ UNCHANGED rev
     ELSE /\ p' = q
          /\ rev' = [rev EXCEPT !.ready = FALSE]
          /\ st' = IF srv.fin
                   THEN [st EXCEPT !.read = TRUE, !.over = "eof", !.pc = "readend"]
                   ELSE [st EXCEPT !.pc = "readend"]
          /\ UNCHANGED srv

Break == st' = [st EXCEPT !.pc = "readend"] /\ UNCHANGED <<srv, p, rev>>

\* Which raw buffer is read into.
ReadFree == p.free # <<>> /\ Recv(p)

ReadAllocate ==
  /\ p.free = <<>> /\ p.allocated < Num
  /\ Recv([p EXCEPT !.allocated = @ + 1, !.free = <<p.allocated + 1>>])

Exhausted == p.free = <<>> /\ p.allocated = Num
Direct    == ~conf.cacheable /\ wev.ready /\ ~wev.delayed

\* The downstream is ready: write first.
ReadBlocked ==
  /\ Exhausted /\ Direct
  /\ st' = [st EXCEPT !.pc = "readend", !.blocked = TRUE]
  /\ UNCHANGED <<srv, p, rev>>

\* Make room with the temporary file.  The code takes p->in->buf unasked: on an
\* empty p->in it would read through a null pointer.
NeedsTempFile == Exhausted /\ ~Direct /\ (conf.cacheable \/ Len(p.file) < conf.maxfile)

ReadTempFile ==
  /\ NeedsTempFile
  /\ \/ ToFile(p) = 0 /\ Break
     \/ ToFile(p) > 0 /\ Recv(WriteTemp(p))

ReadNoBufs ==
  Exhausted /\ ~Direct /\ ~conf.cacheable /\ Len(p.file) >= conf.maxfile /\ Break

Read ==
  /\ st.pc = "read"
  /\ \/ Over /\ st' = [st EXCEPT !.pc = "request"] /\ UNCHANGED <<srv, p, rev>>
     \/ ~Over /\ ~rev.ready /\ Break
     \/ ~Over /\ rev.ready /\ (ReadFree \/ ReadAllocate \/ ReadBlocked
                               \/ ReadTempFile \/ ReadNoBufs)
  /\ UNCHANGED <<conf, cli, wev>>

(* readv() fails: the loop is left at once. *)
ReadError ==
  /\ st.pc = "read" /\ ~Over /\ rev.ready /\ ~Exhausted
  /\ srv.fin
  /\ rev' = [rev EXCEPT !.ready = FALSE]
  /\ st' = [st EXCEPT !.over = "error", !.pc = IF st.read THEN "write" ELSE "request"]
  /\ UNCHANGED <<conf, srv, cli, p, wev>>

(* After the loop: a buffer that is not full goes to the input filter when it  *)
(* completes the length, or at the end of the stream; a cacheable response   *)
(* is written to the file.                                                   *)
ByLength(q) ==
  IF q.free # <<>> /\ Length(q) # -1 /\ Len(Held(q, Head(q.free))) >= Length(q)
  THEN PassFirst(q) ELSE q

ByEof(q) == IF st.over = "eof" /\ q.free # <<>> THEN PassFirst(q) ELSE q

\* Bug: what the last round has read is not written to the file of the cache.
Saved_Not(q) == q

Saved(q) == IF conf.cacheable /\ q.in # <<>> THEN WriteTemp(q) ELSE q

ReadEnd ==
  /\ st.pc = "readend"
  /\ \E q1 \in {ByLength(p)} : \E done \in {Length(q1) = 0}, q2 \in {ByEof(q1)} :
        /\ p' = Saved(q2)
        /\ st' = [st EXCEPT !.over = IF done THEN "done" ELSE @,
                            !.pc = IF st.read \/ st.blocked \/ done
                                   THEN "write" ELSE "request"]
  /\ UNCHANGED <<conf, srv, cli, rev, wev>>

-----------------------------------------------------------------------------
(* ngx_event_pipe_write_to_downstream() and the output filter *)

Reading == [st EXCEPT !.pc = "read", !.read = FALSE, !.blocked = FALSE]

GiveBack(q, pieces) ==
  FoldSeq(LAMBDA b, r : IF b.last THEN AddFree(r, b.raw) ELSE r, q, pieces)

(* k units of the chain of the request are sent; what is sent completely is     *)
(* freed, and with its last shadow the raw buffer (ngx_chain_update_chains()).*)
Gone(c, k)  == {n \in 1..Len(c) : SizeOf(SubSeq(c, 1, n)) <= k}
Sent(q, k) ==
  LET g == IF Gone(q.busy, k) = {} THEN 0 ELSE Max(Gone(q.busy, k))
      d == k - SizeOf(SubSeq(q.busy, 1, g))
      rest == SubSeq(q.busy, g + 1, Len(q.busy))
  IN GiveBack([q EXCEPT !.busy = IF d = 0 THEN rest ELSE [rest EXCEPT ![1].lo = @ + d]],
              SubSeq(q.busy, 1, g))

OutputFilter(chains) ==
  \E q \in {chains}, size \in {SizeOf(chains.busy)} :
    \E k \in {Min({cli.room, size})}, d \in {FALSE, conf.limit} :
      /\ cli' = [got |-> cli.got \o SubSeq(Data(q, q.busy), 1, k), room |-> cli.room - k]
      /\ p' = Sent(q, k)
      /\ wev' = [wev EXCEPT !.ready = @ /\ k = size, !.delayed = @ \/ (d /\ k > 0)]

(* The size of the raw buffers that wait for the client, and how many pieces    *)
(* of p->in may follow: whole raw buffers, up to busy_size.                  *)
BusyRaws == {p.busy[n].raw : n \in {m \in 1..Len(p.busy) : ~p.busy[m].file}}
Busy     == Cardinality(BusyRaws) * BufSize

Lasts(n) == Cardinality({k \in 1..n : p.in[k].last})

Takes ==
  IF conf.cacheable THEN 0
  ELSE Max({0} \cup {n \in 1..Len(p.in) :
                       p.in[n].last /\ Busy + Lasts(n) * BufSize <= BusySize})

(* One round: the response is over and all of it goes to the filter; the client *)
(* is not ready; too much is busy already, which is sent first; or what there*)
(* is follows.                                                               *)
HeaderSaved(q) == IF q.header THEN WriteTemp(q) ELSE q

WriteFlush ==
  /\ Over
  /\ OutputFilter(HeaderSaved(
       [p EXCEPT !.busy = @ \o p.out \o p.in, !.out = <<>>, !.in = <<>>]))
  /\ st' = Reading

WriteNotReady ==
  /\ ~Over /\ (~wev.ready \/ wev.delayed)
  /\ st' = Reading
  /\ UNCHANGED <<cli, p, wev>>

WriteBusy ==
  /\ ~Over /\ wev.ready /\ ~wev.delayed /\ Busy >= BusySize
  /\ OutputFilter(p)
  /\ UNCHANGED st

WriteOut ==
  /\ ~Over /\ wev.ready /\ ~wev.delayed /\ Busy < BusySize
  /\ IF p.out = <<>> /\ Takes = 0 /\ (p.in = <<>> \/ conf.cacheable)
     THEN st' = Reading /\ UNCHANGED <<cli, p, wev>>
     ELSE /\ OutputFilter([p EXCEPT !.busy = @ \o p.out \o SubSeq(p.in, 1, Takes),
                                    !.out = <<>>,
                                    !.in = SubSeq(@, Takes + 1, Len(@))])
          /\ UNCHANGED st

Write ==
  /\ st.pc = "write" /\ ~st.error
  /\ WriteFlush \/ WriteNotReady \/ WriteBusy \/ WriteOut
  /\ UNCHANGED <<conf, srv, rev>>

(* ngx_event_pipe_drain_chains(): the client is gone, now (the output filter     *)
(* fails) or before.                                                         *)
Drain ==
  /\ st.pc = "write"
  /\ p' = GiveBack([p EXCEPT !.busy = <<>>, !.out = <<>>, !.in = <<>>],
                   p.busy \o p.out \o p.in)
  /\ st' = [Reading EXCEPT !.error = TRUE]
  /\ UNCHANGED <<conf, srv, cli, rev, wev>>

-----------------------------------------------------------------------------
(* ngx_http_upstream_process_request(), after the pipe returned *)

Whole == st.over = "done" \/ (st.over = "eof" /\ Length(p) = -1)

Request ==
  /\ st.pc = "request"
  /\ st' = IF Over
           THEN [st EXCEPT !.cache = IF ~conf.cacheable THEN "none"
                                     ELSE IF Whole /\ p.file # <<>> THEN "stored" ELSE "dropped",
                           !.pc = "writer"]
           ELSE [st EXCEPT !.pc = IF st.error /\ ~conf.cacheable THEN "writer" ELSE "idle"]
  /\ UNCHANGED <<conf, srv, cli, p, rev, wev>>

(* The request is finalized; ngx_http_writer() sends the rest. *)
Writer ==
  /\ st.pc = "writer"
  /\ \/ /\ st.error \/ p.busy = <<>>
        /\ st' = [st EXCEPT !.pc = IF ~st.error /\ Whole THEN "complete" ELSE "broken"]
        /\ UNCHANGED <<cli, p, wev>>
     \/ /\ ~st.error /\ p.busy # <<>> /\ wev.ready /\ ~wev.delayed
        /\ OutputFilter(p)
        /\ UNCHANGED st
  /\ UNCHANGED <<conf, srv, rev>>

(* Events: ngx_http_upstream_process_upstream(), ..._process_downstream() *)
ReadEvent ==
  /\ st.pc = "idle" /\ rev.event
  /\ rev' = [ready |-> TRUE, event |-> FALSE]
  /\ st' = Reading
  /\ UNCHANGED <<conf, srv, cli, p, wev>>

\* Bug: the event of the client is noted, and the pipe is not resumed.
WriteEvent_Noted ==
  /\ st.pc \in {"idle", "writer"} /\ wev.event
  /\ wev' = [wev EXCEPT !.ready = TRUE, !.event = FALSE]
  /\ UNCHANGED <<conf, srv, cli, p, rev, st>>

WriteEvent ==
  /\ st.pc \in {"idle", "writer"} /\ wev.event
  /\ wev' = [wev EXCEPT !.ready = TRUE, !.event = FALSE]
  /\ st' = IF st.pc = "idle" /\ ~wev.delayed THEN [st EXCEPT !.pc = "write"] ELSE st
  /\ UNCHANGED <<conf, srv, cli, p, rev>>

DelayTimer ==
  /\ st.pc \in {"idle", "writer"} /\ wev.delayed
  /\ wev' = [wev EXCEPT !.delayed = FALSE]
  /\ st' = IF st.pc = "idle" /\ wev.ready THEN [st EXCEPT !.pc = "write"] ELSE st
  /\ UNCHANGED <<conf, srv, cli, p, rev>>

(* The timers of the two sides, set while they are not ready. *)
ReadTimeout ==
  /\ st.pc = "idle" /\ ~rev.ready
  /\ st' = [st EXCEPT !.over = "error", !.pc = "request"]
  /\ UNCHANGED <<conf, srv, cli, p, rev, wev>>

ClientTimeout ==
  /\ st.pc \in {"idle", "writer"} /\ ~wev.ready /\ ~wev.delayed /\ ~st.error
  /\ st' = [st EXCEPT !.error = TRUE, !.pc = IF @ = "idle" THEN "request" ELSE @]
  /\ UNCHANGED <<conf, srv, cli, p, rev, wev>>

-----------------------------------------------------------------------------
Worker == Read \/ ReadEnd \/ Write \/ Request \/ Writer

Next ==
  \/ ServerSends \/ ServerCloses \/ ClientReads
  \/ Worker \/ ReadError \/ Drain
  \/ ReadEvent \/ WriteEvent \/ DelayTimer \/ ReadTimeout \/ ClientTimeout

(* The worker goes on as long as it has something to do: an event that epoll      *)
(* reports, the timer of limit_rate.  The server ends its response and a client *)
(* reads.  Neither timeout is needed for the end.                            *)
Spec ==
  /\ Init /\ [][Next]_vars
  /\ WF_vars(Worker \/ Drain \/ ReadEvent \/ WriteEvent \/ DelayTimer)
  /\ WF_vars(ServerCloses) /\ WF_vars(ClientReads)

-----------------------------------------------------------------------------
(* The promise of the pipe (module ByteStream): the client gets what the server   *)
(* sent, in order, whatever buffers and files it went through; a response that  *)
(* ends as complete has been received completely; and every response ends, with *)
(* buffers, busy size and temporary file at their limits, without a timeout.    *)
Stream == INSTANCE ByteStream WITH total <- conf.total, length <- -1, sent <- srv.sent,
            got <- cli.got, closed <- srv.fin,
            ended <- IF st.pc \in {"complete", "broken"} THEN st.pc ELSE "no"
Streamed == Stream!Spec

(* A response that is stored in the cache is stored as a whole, also when the     *)
(* client is gone and its chains are drained.                                *)
StoredWhole ==
  st.cache = "stored" =>
    /\ p.file = [u \in 1..Len(p.file) |-> u - 1]
    /\ Len(p.file) - 1 = conf.total \/ (srv.fin /\ Len(p.file) - 1 = srv.sent)

(* Buffers are within their bounds, and none is free twice. *)
TypeOK ==
  /\ p.allocated \in 0..Num
  /\ \A i \in Raws : Len(p.mem[i]) <= BufSize
  /\ IsInjective(p.free)
  /\ cli.room \in 0..Room

(* When all buffers are taken, one of them can be written to the temporary file:  *)
(* the busy size never lets the client have all of them, so that the code never *)
(* looks for the first piece of an empty chain.                              *)
NeverEmptyHanded ==
  st.pc = "read" /\ ~Over /\ rev.ready /\ NeedsTempFile => p.in # <<>>

(* The safety of the pipe: buffers within their bounds, one that can be written out when  *)
(* all are taken, and whole responses in the cache.                            *)
PipeSafe == TypeOK /\ NeverEmptyHanded /\ StoredWhole
==============================================================================
