----------------------------- MODULE OutputChain -----------------------------
(***************************************************************************)
(* The way of a response to its client (src/core/ngx_output_chain.c and the  *)
(* copy, postpone and write filters): buffers that can be sent as they are  *)
(* pass through, the others are copied into a few buffers of the chain,     *)
(* which are used again when their content has been sent.  The write filter *)
(* holds back what is too little to send, and waits for its timer when more *)
(* than limit_rate or sendfile_max_chunk allows has been sent.              *)
(*                                                                         *)
(* A unit of content is a number, and a buffer holds the units lo + 1 .. hi; *)
(* chains are sequences of buffers, so that one which is used again too     *)
(* early shows.  A round of the loops is a step.  Left out: AIO, direct I/O *)
(* and subrequests (module Subrequests), which the postpone filter is for.  *)
(***************************************************************************)
EXTENDS Naturals, Sequences, FiniteSets, FiniteSetsExt, SequencesExt

CONSTANTS
  Setups,    \* [num, size : Nat (output_buffers), postpone : Nat (postpone_output),
             \*  limit : BOOLEAN (limit_rate or sendfile_max_chunk), total : Nat (units)]
  Shapes,    \* buffers of the content handler: [size : Nat, copy, flush : BOOLEAN]
  MaxBufs,   \* how many buffers it makes
  Room       \* units that the socket of the client takes

(* What is assumed of the constants; the modules of the instances state it. *)
OutputChainAssumption ==
  /\ MaxBufs \in Nat /\ Room \in Nat \ {0}
  /\ \A s \in Setups : s.num > 0 /\ s.size > 0

VARIABLES
  setup,
  src,    \* the content handler: units and buffers made, and whether that is all
  buf,    \* the buffers, of the handler and of the chain
  ctx,    \* ngx_output_chain_ctx_t: in, free, busy, and how many buffers are allocated
  out,    \* r->out, the chain of the write filter
  cli,    \* the client: what it has got, and the room in the socket
  wev,    \* c->write: ready, delayed; c->buffered; the timer of limit_rate was waited for
  st      \* where ngx_output_chain() is, its variables out and last, the short path

vars == <<setup, src, buf, ctx, out, cli, wev, st>>

Size(b) == buf[b].hi - buf[b].lo

\* ngx_buf_special(): flags, and neither memory nor a file.
Special(b) == buf[b].size = 0

Init ==
  /\ setup \in Setups
  /\ src = [sent |-> 0, made |-> 0, fin |-> FALSE]
  /\ buf = <<>>
  /\ ctx = [in |-> <<>>, free |-> <<>>, busy |-> <<>>, allocated |-> 0]
  /\ out = <<>>
  /\ cli = [got |-> <<>>, room |-> Room]
  /\ wev = [ready |-> TRUE, delayed |-> FALSE, buffered |-> FALSE, waited |-> FALSE]
  /\ st = [pc |-> "idle", out |-> <<>>, last |-> "none", short |-> FALSE]

-----------------------------------------------------------------------------
\* ngx_output_chain_as_is()
AsIs(b) == b.size = 0 \/ ~b.copy

Handed(shape, lo, last) ==
  [lo |-> lo, hi |-> lo + shape.size, size |-> shape.size, copy |-> shape.copy,
   flush |-> shape.flush, last |-> last, own |-> FALSE, recycled |-> FALSE]

(* The content handler has output: a buffer or two, perhaps the last ones of the
   response.  The short path is for a single buffer that nothing is ahead of. *)
Emit ==
  /\ st.pc = "idle" /\ ~src.fin
  /\ \E n \in 1..2, fin \in BOOLEAN : \E shape \in [1..n -> Shapes] :
       LET lo(i) == src.sent + (IF i = 1 THEN 0 ELSE shape[1].size)
           new   == [i \in 1..n |-> Handed(shape[i], lo(i), fin /\ i = n)]
           ids   == [i \in 1..n |-> Len(buf) + i]
       IN
       /\ src.made + n <= MaxBufs /\ new[n].hi <= setup.total
       /\ new[n].hi = setup.total \/ src.made + n = MaxBufs => fin
       /\ \A i \in 1..n : new[i].size > 0 \/ new[i].flush \/ new[i].last
       /\ src' = [sent |-> new[n].hi, made |-> src.made + n, fin |-> fin]
       /\ buf' = buf \o new
       /\ IF ctx.in = <<>> /\ ctx.busy = <<>> /\ n = 1 /\ AsIs(new[1])
          THEN /\ st' = [pc |-> "filter", out |-> ids, last |-> "none", short |-> TRUE]
               /\ UNCHANGED ctx
          ELSE /\ st' = [pc |-> "copy", out |-> <<>>, last |-> "none", short |-> FALSE]
               /\ ctx' = [ctx EXCEPT !.in = @ \o ids]
  /\ UNCHANGED <<setup, out, cli, wev>>

(* Output without anything new: ngx_http_output_filter(r, NULL). *)
Again ==
  LET short == ctx.in = <<>> /\ ctx.busy = <<>>
  IN  st' = [pc |-> IF short THEN "filter" ELSE "copy",
             out |-> <<>>, last |-> "none", short |-> short]

-----------------------------------------------------------------------------
(* One buffer of ctx->in *)

(* ngx_output_chain_get_buf(): a small last part gets a small buffer, and the only
   buffer is made a little larger if that is enough for the last part. *)
GetBuf(b) ==
  LET small == buf[b].last /\ (Size(b) < setup.size
                               \/ (setup.num = 1 /\ Size(b) < setup.size + setup.size \div 4))
  IN  [lo |-> 0, hi |-> 0, size |-> IF small THEN Size(b) ELSE setup.size, copy |-> FALSE,
       flush |-> FALSE, last |-> FALSE, own |-> TRUE, recycled |-> ~small]

(* ngx_output_chain_copy_buf(): flags follow the last unit; before that the buffer keeps
   the ones that it had. *)
Copied(bufs, b, d) ==
  LET n   == Min({bufs[b].hi - bufs[b].lo, bufs[d].size})
      all == bufs[b].lo + n = bufs[b].hi
  IN  [bufs EXCEPT ![d].lo = bufs[b].lo, ![d].hi = bufs[b].lo + n,
                   ![d].flush = IF all THEN bufs[b].flush ELSE @,
                   ![d].last = IF all THEN bufs[b].last ELSE @,
                   ![b].lo = @ + n]

(* The buffer d is filled from b, the first one of ctx->in. *)
Fill(bufs, b, d) ==
  /\ buf' = Copied(bufs, b, d)
  /\ ctx' = [ctx EXCEPT !.in = IF buf'[b].lo = buf'[b].hi THEN Tail(@) ELSE @,
                        !.free = IF @ = <<>> THEN @ ELSE Tail(@),
                        !.allocated = IF ctx.free = <<>> THEN @ + 1 ELSE @]
  /\ st' = [st EXCEPT !.out = Append(@, d)]

Full == st.out # <<>> \/ ctx.allocated = setup.num

Copy ==
  /\ st.pc = "copy" /\ ctx.in # <<>>
  /\ LET b == Head(ctx.in) IN
     \/ /\ AsIs(buf[b])
        /\ ctx' = [ctx EXCEPT !.in = Tail(@)]
        /\ st' = [st EXCEPT !.out = Append(@, b)]
        /\ UNCHANGED buf
     \/ /\ ~AsIs(buf[b]) /\ ctx.free # <<>>
        /\ Fill(buf, b, Head(ctx.free))
     \/ /\ ~AsIs(buf[b]) /\ ctx.free = <<>> /\ ~Full
        /\ Fill(Append(buf, GetBuf(b)), b, Len(buf) + 1)
  /\ UNCHANGED <<setup, src, out, cli, wev>>

(* Nothing is left to copy, or no buffer to copy to. *)
CopyEnd ==
  /\ st.pc = "copy"
  /\ ctx.in # <<>> => ~AsIs(buf[Head(ctx.in)]) /\ ctx.free = <<>> /\ Full
  /\ st' = [st EXCEPT !.pc = IF st.out = <<>> /\ st.last # "none" THEN "return" ELSE "filter"]
  /\ UNCHANGED <<setup, src, buf, ctx, out, cli, wev>>

-----------------------------------------------------------------------------
(* ngx_http_write_filter() *)

SizeOf(chain) == FoldLeft(LAMBDA n, b : n + Size(b), 0, chain)

\* Bug: a buffer of the chain does not have to be sent at once.
Pushes_Flush(b) == buf[b].flush

Pushes(b) == buf[b].flush \/ buf[b].recycled

HoldsBack(chain) ==
  /\ st.out # <<>> /\ SizeOf(chain) < setup.postpone
  /\ \A b \in ToSet(chain) : ~buf[b].last /\ ~Pushes(b)

(* "zero size buf in writer", "the http output chain is empty" *)
Nonsense(chain) ==
  chain = <<>> \/ \E b \in ToSet(chain) : Size(b) = 0 /\ ~Special(b)

(* send_chain(): the first k units of the chain, and the special buffers before the next
   one. *)
Units(chain) ==
  FlattenSeq([i \in DOMAIN chain |-> [u \in 1..Size(chain[i]) |-> buf[chain[i]].lo + u]])

SentOf(chain, k, i) ==
  LET before == SizeOf(SubSeq(chain, 1, i - 1))
  IN  IF k <= before THEN 0 ELSE Min({k - before, Size(chain[i])})

SendChain(chain, k) ==
  LET left == {i \in DOMAIN chain : SentOf(chain, k, i) < Size(chain[i])}
  IN  /\ cli' = [got |-> cli.got \o SubSeq(Units(chain), 1, k), room |-> cli.room - k]
      /\ buf' = [b \in DOMAIN buf |->
                   IF \E i \in DOMAIN chain : chain[i] = b
                   THEN [buf[b] EXCEPT !.lo = @ + SentOf(chain, k, CHOOSE i \in DOMAIN chain :
                                                                     chain[i] = b)]
                   ELSE buf[b]]
      /\ out' = IF left = {} THEN <<>> ELSE SubSeq(chain, Min(left), Len(chain))

(* What is sent is limited by limit_rate and sendfile_max_chunk, and then the timer is set,
   or by the socket, which is then not ready.  After the timer something may be sent. *)
Send(chain) ==
  LET size == SizeOf(chain)
      most == Min({size, cli.room})
      keep == out' = chain /\ UNCHANGED <<buf, cli>>
  IN
  \/ /\ setup.limit /\ ~wev.waited /\ keep
     /\ wev' = [wev EXCEPT !.delayed = TRUE, !.buffered = TRUE]
  \/ /\ ~wev.ready /\ keep
     /\ wev' = [wev EXCEPT !.buffered = TRUE]
  \/ /\ wev.ready
     /\ SendChain(chain, most)
     /\ wev' = [ready |-> most = size, delayed |-> FALSE, buffered |-> most < size,
                waited |-> FALSE]
  \/ /\ wev.ready /\ setup.limit
     /\ \E k \in 1..most, ready \in BOOLEAN :
          /\ ready \/ (k = cli.room /\ k < size)
          /\ SendChain(chain, k)
          /\ wev' = [ready |-> ready, delayed |-> TRUE, buffered |-> k < size,
                     waited |-> FALSE]

(* The result is "ok", "again", or "alert" for what must not happen.  The postpone filter
   does not call the write filter when there is nothing to write. *)
WriteFilter(rc) ==
  LET chain   == out \o st.out
      nothing == st.out = <<>> /\ ~wev.buffered
      kept    == nothing \/ Nonsense(chain) \/ HoldsBack(chain) \/ wev.delayed
      waits   == kept /\ ~nothing /\ ~HoldsBack(chain)
  IN
  \/ /\ kept
     /\ rc = IF ~waits THEN "ok" ELSE IF Nonsense(chain) THEN "alert" ELSE "again"
     /\ out' = chain
     /\ wev' = [wev EXCEPT !.buffered = @ \/ waits]
     /\ UNCHANGED <<buf, cli>>
  \/ /\ ~kept /\ SizeOf(chain) = 0
     /\ rc = "ok"
     /\ out' = <<>>
     /\ wev' = [wev EXCEPT !.buffered = FALSE]
     /\ UNCHANGED <<buf, cli>>
  \/ /\ ~kept /\ SizeOf(chain) > 0
     /\ Send(chain)
     /\ rc = IF out' = <<>> THEN "ok" ELSE "again"

-----------------------------------------------------------------------------
(* ngx_chain_update_chains(): what has been sent is free again, or forgotten. *)
Updated ==
  LET busy == ctx.busy \o st.out
      left == {i \in DOMAIN busy : buf'[busy[i]].lo < buf'[busy[i]].hi}
      n    == IF left = {} THEN Len(busy) ELSE Min(left) - 1
      own  == SelectSeq(SubSeq(busy, 1, n), LAMBDA b : buf[b].own)
  IN  [ctx EXCEPT !.busy = SubSeq(busy, n + 1, Len(busy)), !.free = Reverse(own) \o @]

(* The call of the output filter *)
Filter ==
  /\ st.pc = "filter"
  /\ \E rc \in {"ok", "again", "alert"} :
       /\ WriteFilter(rc)
       /\ ctx' = IF st.short THEN ctx ELSE Updated
       /\ st' = [st EXCEPT !.out = <<>>, !.last = rc,
                           !.pc = CASE rc = "alert" -> "alert"
                                    [] rc # "alert" /\ st.short -> "return"
                                    [] OTHER -> "copy"]
  /\ UNCHANGED <<setup, src>>

(* Back in the handler, or in ngx_http_writer(): the request is over if all of it is made
   and nothing is buffered; otherwise the writer waits for an event. *)
Return ==
  /\ st.pc = "return"
  /\ st' = [st EXCEPT !.pc = IF src.fin /\ ctx.in = <<>> /\ ~wev.buffered
                              THEN "complete" ELSE "idle"]
  /\ UNCHANGED <<setup, src, buf, ctx, out, cli, wev>>

-----------------------------------------------------------------------------
(* Events *)

ClientReads ==
  /\ cli.room < Room
  /\ cli' = [cli EXCEPT !.room = @ + 1]
  /\ UNCHANGED <<setup, src, buf, ctx, out, wev, st>>

(* ngx_http_writer(), when epoll reports that there is room again *)
WriteEvent ==
  /\ st.pc = "idle" /\ ~wev.ready /\ cli.room > 0
  /\ wev' = [wev EXCEPT !.ready = TRUE]
  /\ IF wev.delayed THEN UNCHANGED st ELSE Again
  /\ UNCHANGED <<setup, src, buf, ctx, out, cli>>

DelayTimer ==
  /\ st.pc = "idle" /\ wev.delayed
  /\ wev' = [wev EXCEPT !.delayed = FALSE, !.waited = TRUE]
  /\ IF wev.ready THEN Again ELSE UNCHANGED st
  /\ UNCHANGED <<setup, src, buf, ctx, out, cli>>

(* NGX_CHAIN_ERROR: writev() or sendfile() fails. *)
SendError ==
  LET chain == out \o st.out IN
  /\ st.pc = "filter" /\ wev.ready /\ ~wev.delayed
  /\ SizeOf(chain) > 0 /\ ~HoldsBack(chain)
  /\ st' = [st EXCEPT !.pc = "broken"]
  /\ UNCHANGED <<setup, src, buf, ctx, out, cli, wev>>

(* send_timeout *)
ClientTimeout ==
  /\ st.pc = "idle" /\ ~wev.ready /\ ~wev.delayed
  /\ st' = [st EXCEPT !.pc = "broken"]
  /\ UNCHANGED <<setup, src, buf, ctx, out, cli, wev>>

Worker == Emit \/ Copy \/ CopyEnd \/ Filter \/ Return \/ WriteEvent \/ DelayTimer

Next == Worker \/ ClientReads \/ SendError \/ ClientTimeout

(* The handler makes all of the response, the worker goes on as long as it has something
   to do, and a client reads.  The timeout is not needed for the end. *)
Spec == Init /\ [][Next]_vars /\ WF_vars(Worker) /\ WF_vars(ClientReads)

-----------------------------------------------------------------------------
(* The promise of the chain (module ByteStream): the client gets the content in order,
   whatever was copied and held back; a response that ends as complete has been received
   completely; and every response ends without a timeout, so that no part of it is left
   in a chain that no event will look at again.  A result "alert" is no end. *)
Stream == INSTANCE ByteStream WITH total <- setup.total, length <- -1, sent <- src.sent,
            got <- cli.got, closed <- src.fin,
            ended <- IF st.pc \in {"complete", "broken", "alert"} THEN st.pc ELSE "no"
Delivered == Stream!Spec
==============================================================================
