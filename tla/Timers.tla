-------------------------------- MODULE Timers --------------------------------
(***************************************************************************)
(* The timers of one process: ngx_add_timer(), ngx_del_timer(),             *)
(* ngx_event_find_timer() and ngx_event_expire_timers()                     *)
(* (src/event/ngx_event_timer.h, ngx_event_timer.c), in the loop of         *)
(* ngx_process_events_and_timers() (src/event/ngx_event.c), without the     *)
(* directive timer_resolution.                                              *)
(*                                                                         *)
(* The red-black tree is the sequence of its nodes in order; module RbTree  *)
(* shows that the tree is such a sequence.  ngx_current_msec and the keys   *)
(* wrap around.  The variables due and wish are not in the code: they       *)
(* measure true distances, which never wrap.                                *)
(***************************************************************************)
EXTENDS Integers, Sequences, FiniteSets, SequencesExt

CONSTANTS
  Events,    \* the events that can have a timer
  Modulus,   \* the range of ngx_msec_t (2^32 or 2^64)
  Timeouts,  \* the values that handlers pass to ngx_add_timer()
  Lazy,      \* NGX_TIMER_LAZY_DELAY (300)
  Late,      \* by how much epoll_wait() can return late
  MaxOps     \* bound on the timers that one handler sets or deletes

\* What the constants have to be.
TimersAssumption ==
  /\ Modulus \in Nat /\ Modulus % 2 = 0
  /\ Timeouts \subseteq Nat \ {0}
  /\ Lazy \in Nat /\ Late \in Nat /\ MaxOps \in Nat

VARIABLES
  now,    \* ngx_current_msec
  tree,   \* the events in ngx_event_timer_rbtree, in order
  key,    \* ev->timer.key
  due,    \* the time from now to the key of each timer that is set
  wish,   \* the time from now to the moment asked for last
  wait,   \* the timeout of epoll_wait()
  delta,  \* how much time epoll_wait() took
  pc,     \* "find", "wait", "handlers", "expire", "fired", "posted"
  ops     \* operations left to the handlers of this place

vars == <<now, tree, key, due, wish, wait, delta, pc, ops>>

Infinite == Modulus \div 2  \* NGX_TIMER_INFINITE, as far as the model waits

Set == {tree[i] : i \in DOMAIN tree}  \* the events with ev->timer_set

TypeOK ==
  /\ now \in 0..Modulus - 1
  /\ tree \in Seq(Events) /\ Len(tree) = Cardinality(Set)
  /\ key \in [Events -> 0..Modulus - 1]
  /\ due \in [Events -> -Modulus..Modulus]
  /\ wish \in [Events -> -Modulus..Modulus]
  /\ wait \in 0..Modulus
  /\ delta \in 0..Modulus
  /\ pc \in {"find", "wait", "handlers", "expire", "fired", "posted"}
  /\ ops \in 0..MaxOps

Init ==
  /\ now = 0
  /\ tree = <<>>
  /\ key = [e \in Events |-> 0]
  /\ due = [e \in Events |-> 0] /\ wish = [e \in Events |-> 0]
  /\ wait = 0 /\ delta = 0
  /\ pc = "find" /\ ops = 0

(* The conversion of an unsigned difference to ngx_msec_int_t *)
Signed(d) == LET u == d % Modulus IN IF u < Modulus \div 2 THEN u ELSE u - Modulus

Magnitude(d) == IF d < 0 THEN -d ELSE d

\* Bug: the order of the tree ignores the overflow
EarlierUnsigned(a, b) == a < b

(* The comparison of ngx_rbtree_insert_timer_value() *)
Earlier(a, b) == Signed(a - b) < 0

Removed(e) == SelectSeq(tree, LAMBDA f : f # e)

Inserted(t, e, k) ==
  SelectSeq(t, LAMBDA f : ~ Earlier(k, key[f])) \o <<e>> \o
  SelectSeq(t, LAMBDA f : Earlier(k, key[f]))

-----------------------------------------------------------------------------
(* Handlers set and delete timers.                                         *)

Op == /\ pc \in {"handlers", "fired", "posted"} /\ ops > 0
      /\ ops' = ops - 1
      /\ UNCHANGED <<now, wait, delta, pc>>

(* A timer that is set keeps its key if the new one is close to it. *)
Keeps(e, k) == e \in Set /\ Magnitude(Signed(k - key[e])) < Lazy

AddTimer(e, timeout) ==
  LET k == (now + timeout) % Modulus IN
  /\ Op
  /\ wish' = [wish EXCEPT ![e] = timeout]
  /\ \/ Keeps(e, k) /\ UNCHANGED <<tree, key, due>>
     \/ /\ ~ Keeps(e, k)
        /\ tree' = Inserted(Removed(e), e, k)
        /\ key' = [key EXCEPT ![e] = k]
        /\ due' = [due EXCEPT ![e] = timeout]

Unset(e) ==
  /\ tree' = Removed(e)
  /\ key' = [key EXCEPT ![e] = 0]
  /\ due' = [due EXCEPT ![e] = 0]
  /\ wish' = [wish EXCEPT ![e] = 0]

DelTimer(e) == Op /\ e \in Set /\ Unset(e)

-----------------------------------------------------------------------------
(* ngx_event_find_timer() *)
FindTimer ==
  IF tree = <<>> THEN Infinite
  ELSE LET timer == Signed(key[Head(tree)] - now) IN IF timer > 0 THEN timer ELSE 0

Find ==
  /\ pc = "find"
  /\ wait' = FindTimer
  /\ pc' = "wait"
  /\ UNCHANGED <<now, tree, key, due, wish, delta, ops>>

(* epoll_wait() returns early, with an event, or late, without one;
   ngx_time_update() reads the clock. *)
EpollWait ==
  /\ pc = "wait"
  /\ \E d \in 0..wait + Late :
       /\ now' = (now + d) % Modulus
       /\ delta' = d
       /\ due' = [e \in Events |-> IF e \in Set THEN due[e] - d ELSE 0]
       /\ wish' = [e \in Events |-> IF e \in Set THEN wish[e] - d ELSE 0]
  /\ wait' = 0
  /\ pc' = "handlers" /\ ops' = MaxOps
  /\ UNCHANGED <<tree, key>>

(* The handlers of the events are done: expired timers are looked for only if
   the clock has moved. *)
HandlersDone ==
  /\ pc = "handlers"
  /\ \/ delta > 0 /\ pc' = "expire" /\ ops' = 0
     \/ delta = 0 /\ pc' = "posted" /\ ops' = MaxOps
  /\ delta' = 0
  /\ UNCHANGED <<now, tree, key, due, wish, wait>>

Expired(e) == Signed(key[e] - now) <= 0

(* ngx_event_expire_timers(): the first timer has expired, and its handler runs. *)
Expire ==
  /\ pc = "expire"
  /\ tree # <<>> /\ Expired(Head(tree))
  /\ Unset(Head(tree))
  /\ pc' = "fired" /\ ops' = MaxOps
  /\ UNCHANGED <<now, wait, delta>>

FiredDone ==
  /\ pc = "fired"
  /\ pc' = "expire" /\ ops' = 0
  /\ UNCHANGED <<now, tree, key, due, wish, wait, delta>>

ExpireDone ==
  /\ pc = "expire"
  /\ ~ (tree # <<>> /\ Expired(Head(tree)))
  /\ pc' = "posted" /\ ops' = MaxOps
  /\ UNCHANGED <<now, tree, key, due, wish, wait, delta>>

PostedDone ==
  /\ pc = "posted"
  /\ pc' = "find" /\ ops' = 0
  /\ UNCHANGED <<now, tree, key, due, wish, wait, delta>>

Next ==
  \/ \E e \in Events, t \in Timeouts : AddTimer(e, t)
  \/ \E e \in Events : DelTimer(e)
  \/ Find \/ EpollWait \/ HandlersDone \/ Expire \/ FiredDone \/ ExpireDone \/ PostedDone

Spec == Init /\ [][Next]_vars

-----------------------------------------------------------------------------
(* Timers fire when they should, and the clock may wrap.  The signed difference between
   a key and the clock is the true time until the timer is due, across any overflow.
   When the process goes to sleep no timer is overdue, whatever the handlers of the
   expired ones did, and the timeout of epoll_wait() never reaches beyond a timer.
   Sparing the tree by keeping an old key costs less than NGX_TIMER_LAZY_DELAY, however
   often the timer is set again.  And each timer that is set is in the tree once. *)
OnTime ==
  /\ TypeOK
  /\ \A e \in Set : Signed(key[e] - now) = due[e]
  /\ pc \in {"posted", "find", "wait"} => \A e \in Set : due[e] > 0
  /\ pc = "wait" => \A e \in Set : wait <= due[e]
  /\ \A e \in Set : Magnitude(due[e] - wish[e]) < Lazy
===============================================================================
