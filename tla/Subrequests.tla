---------------------------- MODULE Subrequests ----------------------------
(***************************************************************************)
(* A client request and its tree of subrequests, from the content handlers *)
(* to the end of the response: ngx_http_subrequest()                        *)
(* (src/http/ngx_http_core_module.c), the postpone filter                   *)
(* (src/http/ngx_http_postpone_filter_module.c), and the posting, writing,  *)
(* finalizing and terminating of requests (src/http/ngx_http_request.c).    *)
(*                                                                         *)
(* All requests share one client connection; c->data names the one whose    *)
(* output may go out, and the output of the others is postponed.  One       *)
(* process runs all of it: a step is one operation of a content handler or  *)
(* one round of ngx_http_run_posted_requests().                             *)
(***************************************************************************)
EXTENDS Integers, Sequences, FiniteSets, SequencesExt

CONSTANTS
  MaxRequests,  \* bound on the requests; the first is the main request
  MaxChunks,    \* bound on the pieces of output, the last ones not counted
  MaxSubrequests, \* NGX_HTTP_MAX_SUBREQUESTS: subrequests at the same time
  MaxErrors     \* bound on the failures of the output filters

ASSUME SubrequestsAssumption ==
  /\ MaxRequests \in Nat \ {0} /\ MaxChunks \in Nat
  /\ MaxSubrequests \in Nat /\ MaxErrors \in Nat

Requests == 1..MaxRequests
Main     == 1
None     == 0

VARIABLES
  made,      \* requests created so far
  parent,    \* r->parent
  handler,   \* r->write_event_handler
  postponed, \* r->postponed: a request, or output, in document order
  posted,    \* r->main->posted_requests
  active,    \* c->data
  count,     \* r->main->count
  room,      \* r->main->subrequests: subrequests that may still be made, plus one
  buffered,  \* c->buffered: output is left, and the socket is full or ready again
  timer,     \* the write event of the client connection has a timer
  timedout,  \* the timer of the write event has expired
  sent,      \* output that has reached the write filter
  outcome,   \* what became of the request
  cur,       \* the request whose content handler runs
  call,      \* how it was called
  pc,        \* in the event loop, a handler, or ngx_http_run_posted_requests()
  ended,     \* requests whose content handlers have finalized them
  doc,       \* what each content handler has put into its response so far
  chunks,    \* pieces of output so far
  errors     \* failures of the output filters so far

tree == <<handler, postponed, posted, active, count, room, buffered, timer, sent,
          outcome>>
vars == <<made, parent, tree, timedout, cur, call, pc, ended, doc, chunks, errors>>

Handlers == {"start", "busy", "writer", "finalizer", "empty", "terminate"}

(* A piece of output: the position in the response of its request. *)
Chunk == Requests \X (1..MaxChunks + MaxRequests)
Item  == [request : Requests \cup {None}, out : Seq(Chunk)]

TypeOK ==
  /\ made \in Requests
  /\ parent \in [Requests -> Requests \cup {None}]
  /\ handler \in [Requests -> Handlers]
  /\ postponed \in [Requests -> Seq(Item)]
  /\ posted \in Seq(1..made)
  /\ active \in 1..made
  /\ count \in 0..MaxRequests + 1
  /\ room \in 1..MaxSubrequests + 1
  /\ buffered \in {"no", "full", "ready"}
  /\ timer \in BOOLEAN /\ timedout \in BOOLEAN
  /\ sent \in Seq(Chunk)
  /\ outcome \in {"open", "done", "aborted"}
  /\ cur \in Requests \cup {None}
  /\ call \in {"sync", "async", "finished", "event"}
  /\ pc \in {"idle", "call", "posted", "closed"}
  /\ ended \subseteq 1..made
  /\ doc \in [Requests -> Seq(Item)]
  /\ chunks \in 0..MaxChunks
  /\ errors \in 0..MaxErrors

(* The content phase calls the content handler of the main request. *)
Init ==
  /\ made = 1
  /\ parent = [r \in Requests |-> None]
  /\ handler = [r \in Requests |-> IF r = Main THEN "busy" ELSE "start"]
  /\ postponed = [r \in Requests |-> <<>>]
  /\ posted = <<>>
  /\ active = Main
  /\ room = MaxSubrequests + 1
  /\ buffered = "no" /\ timer = FALSE /\ timedout = FALSE
  /\ sent = <<>>
  /\ outcome = "open"
  /\ cur = Main /\ pc = "call"
  /\ \/ call = "sync" /\ count = 1
     \/ call = "async" /\ count = 2
  /\ doc = [r \in Requests |-> <<>>]
  /\ ended = {}
  /\ chunks = 0 /\ errors = 0

-----------------------------------------------------------------------------
(* What the functions below change, as a record.                           *)

Tree == [handler |-> handler, postponed |-> postponed, posted |-> posted,
         active |-> active, count |-> count, room |-> room,
         buffered |-> buffered, timer |-> timer, sent |-> sent, outcome |-> outcome]

Becomes(new) ==
  \E t \in {new} :
    /\ handler' = t.handler
    /\ postponed' = t.postponed
    /\ posted' = t.posted
    /\ active' = t.active
    /\ count' = t.count
    /\ room' = t.room
    /\ buffered' = t.buffered
    /\ timer' = t.timer
    /\ sent' = t.sent
    /\ outcome' = t.outcome

(* ngx_http_post_request() *)
Post(t, r) == [t EXCEPT !.posted = Append(@, r)]

(* ngx_http_close_request(): one reference less; the last one frees. *)
Unreferenced(t, outcomeIfLast) ==
  [t EXCEPT !.count = @ - 1,
            !.outcome = IF t.count = 1 THEN outcomeIfLast ELSE @]

(* ngx_http_finalize_connection(): other references are left, or keepalive, a
   lingering close or the end of the connection, which are the same here. *)
ConnectionFinalized(t) ==
  IF t.count # 1 THEN Unreferenced(t, "aborted") ELSE [t EXCEPT !.outcome = "done"]

(* ngx_http_terminate_request(): the main request is posted alone. *)
Terminated(t) == [t EXCEPT !.posted = <<Main>>, !.handler[Main] = "terminate"]

(* ngx_http_set_write_handler() *)
WriteHandlerSet(t, r) == [t EXCEPT !.handler[r] = "writer", !.timer = TRUE]

-----------------------------------------------------------------------------
(* The postpone filter.                                                    *)

Output(out) == [request |-> None, out |-> out]

(* ngx_http_postpone_filter_add() *)
Added(q, out) ==
  IF q # <<>> /\ Last(q).request = None
    THEN [q EXCEPT ![Len(q)].out = @ \o out]
    ELSE Append(q, Output(out))

(* ngx_http_next_body_filter(): the write filter sends what the client takes, and
   nothing before the socket of the client is ready.  The rounds that it takes to
   send the rest are one. *)
Written(t, out, full) ==
  [t EXCEPT !.sent = @ \o out,
            !.buffered = IF t.buffered = "full" \/ (full /\ out # <<>>)
                           THEN "full" ELSE "no"]

(* The place of the first subrequest in a list, or 0. *)
Ahead(q) == SelectInSeq(q, LAMBDA i : i.request # None)

(* The loop over the postponed list of the active request: send the output up to
   the first subrequest, which becomes active and is posted. *)
Flushed(t, r, full) ==
  LET q    == t.postponed[r]
      n    == Ahead(q)
      lead == IF n = 0 THEN q ELSE SubSeq(q, 1, n - 1)
      w    == IF lead = <<>> THEN t
              ELSE Written(t, FlattenSeq([i \in DOMAIN lead |-> lead[i].out]), full)
  IN  IF n = 0 THEN [w EXCEPT !.postponed[r] = <<>>]
      ELSE Post([w EXCEPT !.postponed[r] = SubSeq(q, n + 1, Len(q)),
                          !.active = q[n].request],
                q[n].request)

(* ngx_http_postpone_filter(); "full" is what the socket of the client makes of
   what is written. *)
Filtered(t, r, out, full) ==
  IF r # t.active
    THEN IF out = <<>> THEN t ELSE [t EXCEPT !.postponed[r] = Added(@, out)]
  ELSE IF t.postponed[r] = <<>>
    THEN IF out # <<>> \/ t.buffered # "no" THEN Written(t, out, full) ELSE t
  ELSE Flushed(IF out = <<>> THEN t
               ELSE [t EXCEPT !.postponed[r] = Added(@, out)], r, full)

-----------------------------------------------------------------------------
(* ngx_http_finalize_request(), as long as nothing has failed.              *)

\* Bug: a subrequest that is not active gives up its reference, too
ResignedEarly(t, r) ==
  Post([t EXCEPT !.handler[r] = "finalizer", !.count = @ - 1], parent[r])

(* A subrequest that is not active is finalized again when it is. *)
Resigned(t, r) == Post([t EXCEPT !.handler[r] = "finalizer"], parent[r])

\* Bug: the parent is not woken
LeftSilently(t, r) ==
  LET p == parent[r]
      q == t.postponed[p]
  IN  [t EXCEPT !.count = @ - 1, !.room = @ + 1,
                !.postponed[p] = IF q # <<>> /\ q[1].request = r THEN Tail(q) ELSE q,
                !.active = p]

(* The active subrequest leaves the tree, and its parent is active and woken. *)
Left(t, r) ==
  LET p == parent[r]
      q == t.postponed[p]
  IN  Post([t EXCEPT !.count = @ - 1, !.room = @ + 1,
                     !.postponed[p] = IF q # <<>> /\ q[1].request = r
                                        THEN Tail(q) ELSE q,
                     !.active = p], p)

Finalized(t, r) ==
  IF r # Main
    THEN IF t.postponed[r] # <<>> THEN WriteHandlerSet(t, r)
         ELSE IF r = t.active THEN Left(t, r) ELSE Resigned(t, r)
  ELSE IF t.buffered # "no" \/ t.postponed[r] # <<>> THEN WriteHandlerSet(t, r)
  ELSE IF r # t.active THEN t
  ELSE ConnectionFinalized([t EXCEPT !.handler[r] = "empty", !.timer = FALSE])

(* ngx_http_writer() *)
WriterRun(t, r, full) ==
  LET w == Filtered(t, r, <<>>, full)
  IN  IF w.postponed[r] # <<>> \/ (r = Main /\ w.buffered # "no")
        THEN [w EXCEPT !.timer = TRUE]
        ELSE Finalized([w EXCEPT !.handler[r] = "empty"], r)

-----------------------------------------------------------------------------
(* The content handlers.                                                   *)

Calling(r) == pc = "call" /\ cur = r /\ call # "finished"

(* The handler has finalized its request; in the content phase a handler that
   waits for events has still to return NGX_DONE. *)
Leave ==
  /\ ended' = ended \cup {cur}
  /\ \/ call = "async" /\ call' = "finished" /\ UNCHANGED <<cur, pc>>
     \/ call # "async" /\ call' = "event" /\ cur' = None /\ pc' = "posted"

(* The output filters fail: ngx_http_finalize_request() with NGX_ERROR. *)
OutputFails(t, r) ==
  /\ r = active /\ errors < MaxErrors
  /\ errors' = errors + 1
  /\ Becomes(Terminated(t))

Piece(r) == <<<<r, Len(doc[r]) + 1>>>>

(* The handler passes a piece of output to the filters. *)
Emit(r) ==
  /\ Calling(r) /\ chunks < MaxChunks
  /\ chunks' = chunks + 1
  /\ doc' = [doc EXCEPT ![r] = Append(@, Output(Piece(r)))]
  /\ \/ /\ \E full \in BOOLEAN : Becomes(Filtered(Tree, r, Piece(r), full))
        /\ UNCHANGED <<cur, call, pc, ended, errors>>
     \/ OutputFails(Tree, r) /\ Leave
  /\ UNCHANGED <<made, parent, timedout>>

\* Bug: the new subrequest is active whatever its parent has postponed
SubrequestMadeActive(t, r, sr) ==
  Post([t EXCEPT !.active = IF t.active = r THEN sr ELSE @,
                 !.postponed[r] = Append(@, [request |-> sr, out |-> <<>>]),
                 !.count = @ + 1, !.room = @ - 1], sr)

(* ngx_http_subrequest() *)
SubrequestMade(t, r, sr) ==
  Post([t EXCEPT !.active = IF t.active = r /\ t.postponed[r] = <<>> THEN sr ELSE @,
                 !.postponed[r] = Append(@, [request |-> sr, out |-> <<>>]),
                 !.count = @ + 1, !.room = @ - 1], sr)

(* ngx_http_subrequest() succeeds; with no room left it changes nothing. *)
Subrequest(r) ==
  /\ Calling(r) /\ made < MaxRequests
  /\ room > 1
  /\ made' = made + 1
  /\ parent' = [parent EXCEPT ![made + 1] = r]
  /\ doc' = [doc EXCEPT ![r] = Append(@, [request |-> made + 1, out |-> <<>>])]
  /\ Becomes(SubrequestMade(Tree, r, made + 1))
  /\ UNCHANGED <<timedout, cur, call, pc, ended, chunks, errors>>

(* The handler has all of its response: it sends the last buffer, which follows
   every subrequest, and finalizes.  A subrequest kept in memory has no output. *)
Finish(r) ==
  /\ Calling(r)
  /\ \/ /\ doc' = [doc EXCEPT ![r] = Append(@, Output(Piece(r)))]
        /\ \E full \in BOOLEAN :
             Becomes(Finalized(Filtered(Tree, r, Piece(r), full), r))
        /\ UNCHANGED errors
     \/ /\ r # Main /\ doc[r] = <<>>
        /\ Becomes(Finalized(Tree, r))
        /\ UNCHANGED <<doc, errors>>
     \/ OutputFails(Tree, r) /\ UNCHANGED doc
  /\ Leave
  /\ UNCHANGED <<made, parent, timedout, chunks>>

(* The handler returns: from the content phase with NGX_DONE, which gives back
   the reference that it took to wait for events, or from an event. *)
Return(r) ==
  /\ pc = "call" /\ cur = r
  /\ \/ call \in {"async", "finished"} /\ Becomes(ConnectionFinalized(Tree))
     \/ call = "event" /\ UNCHANGED tree
  /\ cur' = None /\ pc' = "posted" /\ call' = "event"
  /\ UNCHANGED <<made, parent, timedout, ended, doc, chunks, errors>>

(* An event for a content handler that waits: its upstream, a file, a timer. *)
Event(r) ==
  /\ pc = "idle" /\ r <= made /\ handler[r] = "busy" /\ r \notin ended
  /\ cur' = r /\ pc' = "call" /\ call' = "event"
  /\ UNCHANGED <<made, parent, tree, timedout, ended, doc, chunks, errors>>

-----------------------------------------------------------------------------
(* ngx_http_run_posted_requests(), one posted request at a time.            *)

Popped == [Tree EXCEPT !.posted = Tail(@)]

Turn(r, h) ==
  pc = "posted" /\ outcome = "open" /\ posted # <<>> /\ Head(posted) = r /\ handler[r] = h

history == <<made, parent, ended, doc, chunks>>

(* ngx_http_handler(): a new subrequest comes to its content handler. *)
RunStart(r) ==
  /\ Turn(r, "start")
  /\ cur' = r /\ pc' = "call"
  /\ LET t == [Popped EXCEPT !.handler[r] = "busy"]
     IN  \/ call' = "sync" /\ Becomes(t)
         \/ call' = "async" /\ Becomes([t EXCEPT !.count = @ + 1])
  /\ UNCHANGED <<history, timedout, errors>>

(* ngx_http_request_empty_handler() *)
RunEmpty(r) ==
  /\ Turn(r, "busy") \/ Turn(r, "empty")
  /\ Becomes(Popped)
  /\ UNCHANGED <<history, timedout, cur, call, pc, errors>>

(* ngx_http_writer(), which gives up after a timeout of the client. *)
Write(t, r, late) ==
  \/ late /\ Becomes(Terminated(t)) /\ UNCHANGED errors
  \/ /\ ~ late
     /\ \E full \in BOOLEAN : Becomes(WriterRun(t, r, full))
     /\ UNCHANGED errors
  \/ ~ late /\ OutputFails(t, r)

RunWriter(r) ==
  /\ Turn(r, "writer")
  /\ Write(Popped, r, timedout)
  /\ UNCHANGED <<history, timedout, cur, call, pc>>

(* ngx_http_request_finalizer() *)
RunFinalizer(r) ==
  /\ Turn(r, "finalizer")
  /\ Becomes(Finalized(Popped, r))
  /\ UNCHANGED <<history, timedout, cur, call, pc, errors>>

(* ngx_http_terminate_handler() *)
RunTerminate(r) ==
  /\ Turn(r, "terminate")
  /\ Becomes(Unreferenced([Popped EXCEPT !.count = 1], "aborted"))
  /\ UNCHANGED <<history, timedout, cur, call, pc, errors>>

PostedDone ==
  /\ pc = "posted"
  /\ \/ outcome # "open" /\ pc' = "closed"
     \/ outcome = "open" /\ posted = <<>> /\ pc' = "idle"
  /\ UNCHANGED <<history, tree, timedout, cur, call, errors>>

-----------------------------------------------------------------------------
(* ngx_http_request_handler(): a write event of the client connection goes to the
   active request. *)
Handle(t, late) ==
  \/ handler[active] = "writer" /\ Write(t, active, late)
  \/ handler[active] # "writer" /\ Becomes(t) /\ UNCHANGED errors

ClientReady ==
  /\ pc = "idle" /\ buffered = "full"
  /\ pc' = "posted"
  /\ Handle([Tree EXCEPT !.buffered = "ready"], timedout)
  /\ UNCHANGED <<history, timedout, cur, call>>

ClientTimeout ==
  /\ pc = "idle" /\ timer
  /\ pc' = "posted"
  /\ timedout' = TRUE
  /\ Handle([Tree EXCEPT !.timer = FALSE], TRUE)
  /\ UNCHANGED <<history, cur, call>>

Closed == pc = "closed" /\ UNCHANGED vars

Handler(r) == Emit(r) \/ Subrequest(r) \/ Finish(r) \/ Return(r)

Run(r) == RunStart(r) \/ RunEmpty(r) \/ RunWriter(r) \/ RunFinalizer(r) \/ RunTerminate(r)

Next ==
  \/ \E r \in Requests : Handler(r) \/ Event(r) \/ Run(r)
  \/ PostedDone \/ ClientReady \/ ClientTimeout \/ Closed

(* The process goes on: handlers return, posted requests run, and events come for
   those who wait for them.  A content handler that is given its events comes to
   an end, since all that it waits for has a timeout. *)
Step ==
  \/ PostedDone \/ ClientReady
  \/ \E r \in Requests : Return(r) \/ Event(r) \/ Run(r)

Fairness == WF_vars(Step) /\ SF_vars(\E r \in Requests : Finish(r))

SafetySpec == Init /\ [][Next]_vars

Spec == SafetySpec /\ Fairness

-----------------------------------------------------------------------------
(* The response as a reader of the document expects it: the output of each
   request with that of its subrequests in their places.  A subrequest is
   younger than its parent. *)
Document ==
  LET text[n \in 0..MaxRequests] ==
        IF n = 0 THEN [r \in Requests |-> <<>>]
        ELSE LET r == MaxRequests + 1 - n
             IN  [text[n - 1] EXCEPT ![r] =
                    FlattenSeq([i \in DOMAIN doc[r] |->
                      IF doc[r][i].request = None THEN doc[r][i].out
                      ELSE text[n - 1][doc[r][i].request]])]
  IN  text[MaxRequests][Main]

(* The client sees the document in order: whatever the order in which the
   subrequests produce their output, what has gone out is a beginning of it.  A
   response that ends normally is complete, and every subrequest has gone. *)
DocumentOrder ==
  /\ IsPrefix(sent, Document)
  /\ outcome = "done" => sent = Document /\ buffered = "no" /\ count = 1

(* A subrequest that has not been finalized as the active request. *)
Waiting(p) == {postponed[p][i].request : i \in DOMAIN postponed[p]} \ {None}
Above[r \in Requests \cup {None}] == IF r = None THEN {} ELSE {r} \cup Above[parent[r]]
Pending == UNION {Waiting(p) : p \in 1..made} \cup (Above[active] \ {Main})

(* The main request has one reference of its own, one for each subrequest that is
   to come in the output, and one for a content handler that will return
   NGX_DONE; it is never freed under a running subrequest.  The limit on the
   subrequests counts the same ones.  And the state is well typed. *)
CountExact ==
  TypeOK /\ (outcome = "open" /\ handler[Main] # "terminate" =>
    /\ count = (IF pc = "call" /\ call = "finished" /\ cur = Main /\ handler[Main] = "empty"
               THEN 0 ELSE 1)
            + Cardinality(Pending)
            + (IF pc = "call" /\ call \in {"async", "finished"} THEN 1 ELSE 0)
    /\ room + Cardinality(Pending) = MaxSubrequests + 1)

(* Every request ends: no subrequest is left that nobody would wake. *)
Ends == <>(pc = "closed")
=============================================================================
