----------------------------- MODULE Connections -----------------------------
(***************************************************************************)
(* The connection structures of one worker (src/core/ngx_connection.c) and *)
(* the events that epoll delivers for them                                 *)
(* (src/event/modules/ngx_epoll_module.c, src/event/ngx_event_posted.c).   *)
(*                                                                         *)
(* epoll_wait() returns a batch of events.  The handler of one event may    *)
(* close any connection and open new ones in the same structures while      *)
(* later events of the batch are still waiting: the instance bit, the test  *)
(* fd == -1 and the deletion of posted events are there to keep an event    *)
(* from reaching a connection that it does not belong to.  What a handler   *)
(* does is any sequence of operations on connections.                       *)
(***************************************************************************)
EXTENDS Naturals, Sequences, FiniteSets, SequencesExt

CONSTANTS
  Conns,      \* the connection structures (worker_connections of them)
  MaxSerial,  \* bound on how often a structure is used
  MaxOps,     \* bound on the operations of one handler
  Drain       \* how many connections ngx_drain_connections() closes (32)

ASSUME ConnectionsAssumption ==
  /\ IsFiniteSet(Conns) /\ Conns # {}
  /\ MaxSerial \in Nat /\ MaxOps \in Nat /\ Drain \in Nat

VARIABLES
  open,      \* c->fd # -1
  serial,    \* how often the structure has been taken; not in the code
  instance,  \* c->read->instance, which c->write shares
  active,    \* the events of c that are marked active: a subset of {r, w}
  epoll,     \* the kernel's interest list: the events asked for, the data pointer
  free,      \* the list ngx_cycle->free_connections
  reusable,  \* ngx_cycle->reusable_connections_queue, the oldest one last
  posted,    \* ngx_posted_events, the next one first
  batch,     \* the events of event_list that are still to be looked at
  post,      \* NGX_POST_EVENTS
  pc,        \* "wait", "read" and "write" (of a batch), "posted", "handler"
  after,     \* where the loop goes on after the handler
  ops        \* operations left to the handler

vars == <<open, serial, instance, active, epoll, free, reusable, posted, batch,
          post, pc, after, ops>>

Kinds == {"r", "w"}
NoInterest == [events |-> {}, bit |-> FALSE]
Event  == [c : Conns, bit : BOOLEAN, events : SUBSET Kinds, serial : 0..MaxSerial]
Posted == [c : Conns, kind : Kinds, serial : 0..MaxSerial]

TypeOK ==
  /\ open \in [Conns -> BOOLEAN]
  /\ serial \in [Conns -> 0..MaxSerial]
  /\ instance \in [Conns -> BOOLEAN]
  /\ active \in [Conns -> SUBSET Kinds]
  /\ epoll \in [Conns -> [events : SUBSET Kinds, bit : BOOLEAN]]
  /\ free \in Seq(Conns) /\ Len(free) <= Cardinality(Conns)
  /\ reusable \in Seq(Conns)
  /\ posted \in Seq(Posted)
  /\ batch \in Seq(Event)
  /\ post \in BOOLEAN
  /\ pc \in {"wait", "read", "write", "posted", "handler"}
  /\ after \in {"wait", "write", "next", "posted"}
  /\ ops \in 0..MaxOps

(* ngx_event_process_init() links all the structures into the free list. *)
Init ==
  /\ open = [c \in Conns |-> FALSE]
  /\ serial = [c \in Conns |-> 0]
  /\ instance = [c \in Conns |-> TRUE]
  /\ active = [c \in Conns |-> {}]
  /\ epoll = [c \in Conns |-> NoInterest]
  /\ free \in SetToSeqs(Conns)
  /\ reusable = <<>> /\ posted = <<>> /\ batch = <<>>
  /\ post = FALSE
  /\ pc = "wait" /\ after = "wait" /\ ops = 0

-----------------------------------------------------------------------------
(* Operations on connections, as state functions so that they compose: a     *)
(* record of the variables that they change.                                 *)

World == [open |-> open, serial |-> serial, instance |-> instance, active |-> active,
          epoll |-> epoll, free |-> free, reusable |-> reusable, posted |-> posted]

Becomes(w) ==
  /\ open' = w.open /\ serial' = w.serial /\ instance' = w.instance
  /\ active' = w.active /\ epoll' = w.epoll /\ free' = w.free
  /\ reusable' = w.reusable /\ posted' = w.posted

(* ngx_queue_remove() and ngx_delete_posted_event() unlink one entry; I holds its
   index, or nothing when the entry is not in the queue. *)
Unlinked(s, I) == IF I = {} THEN s ELSE RemoveAt(s, CHOOSE i \in I : TRUE)

Without(s, c) == Unlinked(s, {i \in DOMAIN s : s[i] = c})
Unposted(s, c, kind) == Unlinked(s, {i \in DOMAIN s : s[i].c = c /\ s[i].kind = kind})

\* Bug: the posted events of a connection survive it
ClosedKeepsPosted(w, c) ==
  [w EXCEPT !.open[c] = FALSE, !.active[c] = {}, !.epoll[c] = NoInterest,
            !.reusable = Without(@, c), !.free = <<c>> \o @]

(* ngx_close_connection(): posted events and the place in the reusable queue go,
   the structure is pushed on the free list, and close() removes the descriptor
   from the interest list. *)
Closed(w, c) ==
  [w EXCEPT !.open[c] = FALSE, !.active[c] = {}, !.epoll[c] = NoInterest,
            !.posted = Unposted(Unposted(@, c, "r"), c, "w"),
            !.reusable = Without(@, c), !.free = <<c>> \o @]

(* ngx_drain_connections(): as long as the queue is not empty, up to 32 times, the
   read handler of the oldest reusable connection closes it. *)
OldestClosed(w) ==
  IF w.reusable = <<>> THEN w ELSE Closed(w, Last(w.reusable))

Drained(w) ==
  LET drained[n \in 0..Drain] ==
        IF n = 0 THEN w ELSE OldestClosed(drained[n - 1])
  IN  drained[Drain]

(* ngx_get_connection() takes the head of the free list and flips its bit. *)
Taken(w, c) ==
  [w EXCEPT !.open[c] = TRUE, !.serial[c] = @ + 1, !.instance[c] = ~ @,
            !.free = Tail(@)]

(* ngx_epoll_add_event(), ngx_epoll_add_connection(): the data pointer carries
   the bit, and MOD keeps the other event. *)
Registered(w, c, kinds) ==
  [w EXCEPT !.active[c] = @ \cup kinds,
            !.epoll[c] = [events |-> w.active[c] \cup kinds, bit |-> w.instance[c]]]

(* ngx_epoll_del_event(): MOD while the other event is active, else DEL. *)
Deleted(w, c, kind) ==
  [w EXCEPT !.active[c] = @ \ {kind},
            !.epoll[c] = IF w.active[c] \ {kind} = {} THEN NoInterest
                         ELSE [events |-> w.active[c] \ {kind}, bit |-> w.instance[c]]]

-----------------------------------------------------------------------------
(* The handler of an event, or of a timer.                                 *)

Op == /\ pc = "handler" /\ ops > 0
      /\ ops' = ops - 1
      /\ UNCHANGED <<batch, post, pc, after>>

(* ngx_close_connection(); a second call finds fd == -1 and only logs that. *)
Close(c) ==
  /\ Op
  /\ open[c]
  /\ Becomes(Closed(World, c))

(* A new connection: accepted, or to an upstream server.  The free list is empty
   and nothing can be drained: "worker_connections are not enough". *)
Open(kinds) ==
  /\ Op
  /\ LET w == IF free = <<>> THEN Drained(World) ELSE World
     IN  \/ w.free = <<>> /\ Becomes(w)
         \/ /\ w.free # <<>>
            /\ w.serial[Head(w.free)] < MaxSerial
            /\ Becomes(Registered(Taken(w, Head(w.free)), Head(w.free), kinds))

AddEvent(c, kind) ==
  /\ Op
  /\ open[c] /\ kind \notin active[c]
  /\ Becomes(Registered(World, c, {kind}))

DelEvent(c, kind) ==
  /\ Op
  /\ open[c] /\ kind \in active[c]
  /\ Becomes(Deleted(World, c, kind))

(* ngx_reusable_connection(c, 1) and (c, 0) *)
SetReusable(c, value) ==
  /\ Op
  /\ open[c]
  /\ Becomes([World EXCEPT !.reusable =
                (IF value THEN <<c>> ELSE <<>>) \o Without(@, c)])

(* ngx_post_event(): once in the queue, an event is not put there again. *)
PostedBy(w, c, kind) ==
  IF \E i \in DOMAIN w.posted : w.posted[i].c = c /\ w.posted[i].kind = kind
    THEN w
    ELSE [w EXCEPT !.posted = <<[c |-> c, kind |-> kind, serial |-> w.serial[c]]>> \o @]

PostEvent(c, kind) ==
  /\ Op
  /\ open[c]
  /\ Becomes(PostedBy(World, c, kind))

Return ==
  /\ pc = "handler"
  /\ ops' = 0
  /\ \/ /\ after = "next"
        /\ batch' = Tail(batch)
        /\ pc' = IF Len(batch) = 1 THEN "posted" ELSE "read"
     \/ after # "next" /\ pc' = after /\ UNCHANGED batch
  /\ after' = "wait"
  /\ UNCHANGED <<open, serial, instance, active, epoll, free, reusable, posted, post>>

Enter(next) == pc' = "handler" /\ after' = next /\ ops' = MaxOps

-----------------------------------------------------------------------------
(* epoll_wait() returns events of some descriptors of the interest list; an error
   is reported as both events by the code. *)
Wait ==
  /\ pc = "wait"
  /\ \E S \in SUBSET {c \in Conns : epoll[c].events # {}} :
       /\ S # {}
       /\ \E order \in SetToSeqs(S), ev \in [S -> SUBSET Kinds \ {{}}] :
            /\ \A c \in S : ev[c] \subseteq epoll[c].events \/ ev[c] = Kinds
            /\ batch' = [i \in DOMAIN order |->
                           [c |-> order[i], bit |-> epoll[order[i]].bit,
                            events |-> ev[order[i]], serial |-> serial[order[i]]]]
  /\ post' \in BOOLEAN
  /\ pc' = "read"
  /\ UNCHANGED <<open, serial, instance, active, epoll, free, reusable, posted,
                 after, ops>>

(* A timer expires: its handler runs when the batch has been dealt with. *)
Timer ==
  /\ pc = "wait"
  /\ Enter("posted")
  /\ UNCHANGED <<open, serial, instance, active, epoll, free, reusable, posted,
                 batch, post>>

First == Head(batch)

Stale(e) == ~ open[e.c] \/ instance[e.c] # e.bit

SkipEvent ==
  /\ batch' = Tail(batch)
  /\ pc' = IF Len(batch) = 1 THEN "posted" ELSE "read"

(* The read event calls its handler, or is posted. *)
DispatchRead ==
  /\ pc = "read"
  /\ ~ Stale(First) /\ "r" \in First.events \cap active[First.c]
  /\ \/ ~ post /\ Enter("write") /\ UNCHANGED <<batch, posted>>
     \/ post /\ posted' = PostedBy(World, First.c, "r").posted
        /\ pc' = "write" /\ UNCHANGED <<batch, after, ops>>
  /\ UNCHANGED <<open, serial, instance, active, epoll, free, reusable, post>>

(* The stale event from a file descriptor that was closed in this batch, or no
   read event to report. *)
NoRead ==
  /\ pc = "read"
  /\ \/ Stale(First) /\ SkipEvent
     \/ /\ ~ Stale(First) /\ "r" \notin First.events \cap active[First.c]
        /\ pc' = "write" /\ UNCHANGED batch
  /\ UNCHANGED <<open, serial, instance, active, epoll, free, reusable, posted,
                 post, after, ops>>

\* Bug: the write event is not checked again after the read handler
DispatchWriteUnchecked ==
  /\ pc = "write"
  /\ "w" \in First.events \cap active[First.c]
  /\ \/ ~ post /\ Enter("next") /\ UNCHANGED <<batch, posted>>
     \/ post /\ posted' = PostedBy(World, First.c, "w").posted
        /\ SkipEvent /\ UNCHANGED <<after, ops>>
  /\ UNCHANGED <<open, serial, instance, active, epoll, free, reusable, post>>

DispatchWrite ==
  /\ pc = "write"
  /\ "w" \in First.events \cap active[First.c] /\ ~ Stale(First)
  /\ \/ ~ post /\ Enter("next") /\ UNCHANGED <<batch, posted>>
     \/ post /\ posted' = PostedBy(World, First.c, "w").posted
        /\ SkipEvent /\ UNCHANGED <<after, ops>>
  /\ UNCHANGED <<open, serial, instance, active, epoll, free, reusable, post>>

NoWrite ==
  /\ pc = "write"
  /\ "w" \notin First.events \cap active[First.c] \/ Stale(First)
  /\ SkipEvent
  /\ UNCHANGED <<open, serial, instance, active, epoll, free, reusable, posted,
                 post, after, ops>>

(* ngx_event_process_posted(): the first event leaves the queue and is handled. *)
ProcessPosted ==
  /\ pc = "posted"
  /\ \/ posted # <<>> /\ posted' = Tail(posted) /\ Enter("posted")
     \/ posted = <<>> /\ pc' = "wait" /\ UNCHANGED <<posted, after, ops>>
  /\ UNCHANGED <<open, serial, instance, active, epoll, free, reusable, batch, post>>

Next ==
  \/ \E c \in Conns : Close(c)
  \/ \E kinds \in SUBSET Kinds \ {{}} : Open(kinds)
  \/ \E c \in Conns, kind \in Kinds :
       AddEvent(c, kind) \/ DelEvent(c, kind) \/ PostEvent(c, kind)
  \/ \E c \in Conns, value \in BOOLEAN : SetReusable(c, value)
  \/ Return \/ Wait \/ Timer \/ DispatchRead \/ NoRead \/ DispatchWrite \/ NoWrite
  \/ ProcessPosted

Spec == Init /\ [][Next]_vars

-----------------------------------------------------------------------------
(* The free list holds exactly the closed connections, each one once: nothing
   leaks, and no structure is given out twice.  The queue of reusable connections
   holds open ones, each once.  A posted event belongs to the connection that it was
   posted for, and that connection is open.  The active flags agree with the interest
   list of the kernel, and the data pointer there carries the present instance bit, so
   that no event of an open connection is taken for a stale one.  And the state is well
   typed. *)
ListsExact ==
  /\ TypeOK
  /\ {free[i] : i \in DOMAIN free} = {c \in Conns : ~ open[c]}
  /\ Len(free) = Cardinality({c \in Conns : ~ open[c]})
  /\ \A i \in DOMAIN reusable : open[reusable[i]]
  /\ \A i, j \in DOMAIN reusable : reusable[i] = reusable[j] => i = j
  /\ \A i \in DOMAIN posted :
       open[posted[i].c] /\ serial[posted[i].c] = posted[i].serial
  /\ \A c \in Conns :
       /\ epoll[c].events = active[c]
       /\ open[c] /\ active[c] # {} => epoll[c].bit = instance[c]

Dispatch == DispatchRead \/ DispatchWrite

(* An event that is handed to a handler belongs to the connection that now uses
   the structure, unless the structure was taken twice during the batch. *)
StaleDetected ==
  [][Dispatch => serial[First.c] \in {First.serial} \cup (First.serial + 2)..MaxSerial]_vars
=============================================================================
