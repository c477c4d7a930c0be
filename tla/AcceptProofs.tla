---------------------------- MODULE AcceptProofs ----------------------------
(* Theorems about the accept mutex in the event loop, for any number of workers,
   listening sockets and connections. *)
EXTENDS AcceptLoop, FiniteSetTheorems, TLAPS

(* Where the mutex may be held. *)
Phase == {"wait", "accept", "unlock"}

(* A worker that was given the mutex in this round still has it, unless it has
   cleared its flag. *)
Kept ==
  \A w \in Workers : pc[w] \in Phase /\ post[w] /\ held[w] => mutex = w

(* Handlers are queued only with a mutex, retry timers are set only without. *)
Exclusive ==
  \A w \in Workers : (post[w] => UseMutex) /\ (UseMutex => retry[w] = {})

(* With a mutex the flag and the epoll set go together at every step, not only
   while the worker waits, unless epoll_ctl() has failed. *)
Registered ==
  UseMutex /\ epollFails = 0 =>
    \A w \in Workers : active[w] = (IF held[w] THEN Sockets ELSE {})

IInv == TypeOK /\ MutexReleased /\ Kept /\ Exclusive /\ Registered /\ NeverDeaf

USE DEF Places, Phase, Goto, EpollFailure, UseMutex

(* The order in which the ready sockets are handled is a sequence of sockets. *)
LEMMA ReadyOrder ==
  ASSUME NEW S \in SUBSET Sockets, NEW order \in SetToSeqs(S)
  PROVE  order \in Seq(Sockets)
<1>1. IsFiniteSet(S)
  BY AcceptAssumption, FS_Subset
<1>2. Cardinality(S) \in Nat
  BY <1>1, FS_CardinalityType
<1>3. order \in [1..Cardinality(S) -> S]
  BY DEF SetToSeqs
<1> QED
  BY <1>2, <1>3

(* Running the handler at the head of the queue leaves a queue of sockets. *)
LEMMA HeadTail ==
  ASSUME NEW s \in Seq(Sockets), s # <<>>
  PROVE  Head(s) \in Sockets /\ Tail(s) \in Seq(Sockets)
OBVIOUS

(* ngx_accept_disabled stays between -N and N. *)
LEMMA DisabledRange ==
  ASSUME NEW u \in Busy..N
  PROVE  N \div 8 - (N - u) \in -N..N
<1>1. N \in Nat /\ N > 0 /\ u \in Nat /\ u <= N
  BY AcceptAssumption
<1>2. N \div 8 \in Int /\ 0 <= N \div 8 /\ N \div 8 <= N
  BY <1>1
<1> QED
  BY <1>1, <1>2

(* Types and the mutex at the start. *)
LEMMA InitIInv == Init => IInv
BY AcceptAssumption
DEF Init, IInv, TypeOK, MutexReleased, Kept, Exclusive, Registered, NeverDeaf

(* Every step of every worker keeps the types; ngx_accept_disabled stays between
   -N and N. *)
LEMMA NextTypeOK == TypeOK /\ [Next]_vars => TypeOK'
<1>0. SUFFICES ASSUME TypeOK, [Next]_vars PROVE TypeOK'
  OBVIOUS
<1>a. active \in [Workers -> SUBSET Sockets] /\ retry \in [Workers -> SUBSET Sockets]
  BY <1>0 DEF TypeOK
<1>e. epollFails \in 0..MaxEpollFails /\ fails \in 0..MaxFails
      /\ MaxEpollFails \in Nat /\ MaxFails \in Nat
  BY <1>0, AcceptAssumption DEF TypeOK
<1>m. mutex \in Workers \cup {NoWorker} /\ held \in [Workers -> BOOLEAN]
  BY <1>0 DEF TypeOK
<1>p. pc \in [Workers -> Places] /\ post \in [Workers -> BOOLEAN]
      /\ bounded \in [Workers -> BOOLEAN]
  BY <1>0 DEF TypeOK
<1>q. queue \in [Workers -> Seq(Sockets)]
  BY <1>0 DEF TypeOK
<1>d. disabled \in [Workers -> -N..N] /\ used \in [Workers -> Busy..N]
      /\ N \in Nat \ {0} /\ Busy \in 0..N
  BY <1>0, AcceptAssumption DEF TypeOK
<1>b. backlog \in [Sockets -> 0..Backlog] /\ Backlog \in Nat
  BY <1>0, AcceptAssumption DEF TypeOK
<1>1. ASSUME NEW l \in Sockets, Connect(l) PROVE TypeOK'
  <2>1. backlog' \in [Sockets -> 0..Backlog]
    BY <1>1, <1>b DEF Connect
  <2> QED
    BY <1>1, <1>0, <2>1 DEF Connect, TypeOK
<1>2. ASSUME NEW w \in Workers, Start(w) PROVE TypeOK'
  BY <1>2, <1>0 DEF Start, EnterWait, TypeOK
<1>3. ASSUME NEW w \in Workers, StandBack(w) PROVE TypeOK'
  <2>1. disabled' \in [Workers -> -N..N]
    BY <1>3, <1>d DEF StandBack
  <2> QED
    BY <1>3, <1>0, <2>1 DEF StandBack, EnterWait, TypeOK
<1>4. ASSUME NEW w \in Workers, Locked(w) PROVE TypeOK'
  <2>1. CASE /\ mutex' = w
             /\ held' = [held EXCEPT ![w] = TRUE]
             /\ active' = [active EXCEPT ![w] = IF held[w] THEN @ ELSE Sockets]
             /\ EnterWait(w, TRUE, FALSE)
             /\ UNCHANGED epollFails
    <3>1. active' \in [Workers -> SUBSET Sockets]
      BY <2>1, <1>a
    <3>2. /\ pc' \in [Workers -> Places] /\ post' \in [Workers -> BOOLEAN]
          /\ bounded' \in [Workers -> BOOLEAN]
      BY <2>1, <1>p DEF EnterWait
    <3>3. held' \in [Workers -> BOOLEAN] /\ mutex' \in Workers \cup {NoWorker}
      BY <2>1, <1>m
    <3> QED
      BY <1>4, <1>0, <2>1, <3>1, <3>2, <3>3 DEF Locked, TypeOK
  <2>2. CASE /\ EpollFailure
             /\ \E added \in SUBSET (Sockets \ active[w]) :
                  active' = [active EXCEPT ![w] = @ \cup added]
             /\ UNCHANGED <<mutex, held, pc, post, bounded>>
    <3>1. active' \in [Workers -> SUBSET Sockets]
      BY <2>2, <1>a
    <3>2. epollFails' \in 0..MaxEpollFails
      BY <2>2, <1>e
    <3> QED
      BY <1>4, <1>0, <2>2, <3>1, <3>2 DEF Locked, TypeOK
  <2> QED
    BY <1>4, <1>m, <2>1, <2>2 DEF Locked
<1>5. ASSUME NEW w \in Workers, NotLocked(w) PROVE TypeOK'
  <2>1. CASE /\ held' = [held EXCEPT ![w] = FALSE]
             /\ active' = [active EXCEPT ![w] = IF held[w] THEN {} ELSE @]
             /\ EnterWait(w, FALSE, TRUE)
             /\ UNCHANGED epollFails
    <3>1. active' \in [Workers -> SUBSET Sockets]
      BY <2>1, <1>a
    <3>2. /\ pc' \in [Workers -> Places] /\ post' \in [Workers -> BOOLEAN]
          /\ bounded' \in [Workers -> BOOLEAN]
      BY <2>1, <1>p DEF EnterWait
    <3>3. held' \in [Workers -> BOOLEAN]
      BY <2>1, <1>m
    <3> QED
      BY <1>5, <1>0, <2>1, <3>1, <3>2, <3>3 DEF NotLocked, TypeOK
  <2>2. CASE /\ EpollFailure
             /\ \E left \in SUBSET active[w] :
                  active' = [active EXCEPT ![w] = left]
             /\ UNCHANGED <<held, pc, post, bounded>>
    <3>1. active' \in [Workers -> SUBSET Sockets]
      BY <2>2, <1>a
    <3>2. epollFails' \in 0..MaxEpollFails
      BY <2>2, <1>e
    <3> QED
      BY <1>5, <1>0, <2>2, <3>1, <3>2 DEF NotLocked, TypeOK
  <2> QED
    BY <1>5, <2>1, <2>2 DEF NotLocked
<1>6. ASSUME NEW w \in Workers, EpollWait(w) PROVE TypeOK'
  <2>1. PICK order \in SetToSeqs(Ready(w)) : queue' = [queue EXCEPT ![w] = order]
    BY <1>6 DEF EpollWait
  <2>2. Ready(w) \in SUBSET Sockets
    BY <1>a DEF Ready
  <2>3. order \in Seq(Sockets)
    BY <2>1, <2>2, ReadyOrder
  <2>4. queue' \in [Workers -> Seq(Sockets)]
    BY <2>1, <2>3, <1>q
  <2>5. pc' \in [Workers -> Places]
    BY <1>6, <1>p DEF EpollWait
  <2> QED
    BY <1>6, <1>0, <2>4, <2>5 DEF EpollWait, TypeOK
<1>7. ASSUME NEW w \in Workers, AcceptNotReady(w) PROVE TypeOK'
  <2>1. queue' \in [Workers -> Seq(Sockets)]
    BY <1>7, <1>q, HeadTail DEF AcceptNotReady, Return, Handling
  <2> QED
    BY <1>7, <1>0, <2>1 DEF AcceptNotReady, TypeOK
<1>8. ASSUME NEW w \in Workers, Accept(w) PROVE TypeOK'
  <2>1. Head(queue[w]) \in Sockets /\ Tail(queue[w]) \in Seq(Sockets)
    BY <1>8, <1>q, HeadTail DEF Accept, Handling
  <2>2. queue' \in [Workers -> Seq(Sockets)]
    BY <1>8, <1>q, <2>1 DEF Accept, Return
  <2>3. backlog' \in [Sockets -> 0..Backlog]
    BY <1>8, <1>b, <2>1 DEF Accept
  <2>4. disabled' \in [Workers -> -N..N]
    <3>1. Disabled(w) \in -N..N
      BY <1>d, DisabledRange DEF Disabled
    <3> QED
      BY <1>8, <1>d, <3>1 DEF Accept
  <2>5. used' \in [Workers -> Busy..N]
    BY <1>8, <1>d DEF Accept
  <2> QED
    BY <1>8, <1>0, <2>2, <2>3, <2>4, <2>5 DEF Accept, TypeOK
<1>9. ASSUME NEW w \in Workers, Refuse(w) PROVE TypeOK'
  <2>1. Head(queue[w]) \in Sockets /\ Tail(queue[w]) \in Seq(Sockets)
    BY <1>9, <1>q, HeadTail DEF Refuse, Handling
  <2>2. queue' \in [Workers -> Seq(Sockets)]
    BY <1>9, <1>q, <2>1 DEF Refuse, Return
  <2>3. backlog' \in [Sockets -> 0..Backlog]
    BY <1>9, <1>b, <2>1 DEF Refuse
  <2>4. disabled' \in [Workers -> -N..N]
    <3>1. Disabled(w) \in -N..N
      BY <1>d, DisabledRange DEF Disabled
    <3> QED
      BY <1>9, <1>d, <3>1 DEF Refuse
  <2>5. fails' \in 0..MaxFails
    BY <1>9, <1>e DEF Refuse
  <2> QED
    BY <1>9, <1>0, <2>2, <2>3, <2>4, <2>5 DEF Refuse, TypeOK
<1>10. ASSUME NEW w \in Workers, AcceptAborted(w) PROVE TypeOK'
  <2>1. Head(queue[w]) \in Sockets /\ Tail(queue[w]) \in Seq(Sockets)
    BY <1>10, <1>q, HeadTail DEF AcceptAborted, Handling
  <2>2. queue' \in [Workers -> Seq(Sockets)]
    BY <1>10, <1>q, <2>1 DEF AcceptAborted, Return
  <2>3. backlog' \in [Sockets -> 0..Backlog]
    BY <1>10, <1>b, <2>1 DEF AcceptAborted
  <2> QED
    BY <1>10, <1>0, <2>2, <2>3 DEF AcceptAborted, TypeOK
<1>11. ASSUME NEW w \in Workers, AcceptFails(w) PROVE TypeOK'
  <2>1. Head(queue[w]) \in Sockets /\ Tail(queue[w]) \in Seq(Sockets)
    BY <1>11, <1>q, HeadTail DEF AcceptFails, Handling
  <2>2. queue' \in [Workers -> Seq(Sockets)]
    BY <1>11, <1>q, <2>1 DEF AcceptFails, Return
  <2>3. fails' \in 0..MaxFails
    BY <1>11, <1>e DEF AcceptFails
  <2>4. active' \in [Workers -> SUBSET Sockets]
    <3>1. \E left \in SUBSET active[w] : active' = [active EXCEPT ![w] = left]
      BY <1>11 DEF AcceptFails
    <3> QED
      BY <3>1, <1>a
  <2>5. epollFails' \in 0..MaxEpollFails
    BY <1>11, <1>e DEF AcceptFails
  <2>6. CASE GiveUp(w)
    <3>1. 1 \in -N..N
      BY <1>d
    <3>2. disabled' \in [Workers -> -N..N]
      BY <2>6, <3>1, <1>d DEF GiveUp
    <3>3. mutex' \in Workers \cup {NoWorker} /\ held' \in [Workers -> BOOLEAN]
      BY <2>6, <1>m DEF GiveUp
    <3>4. retry' \in [Workers -> SUBSET Sockets]
      BY <2>6, <2>1, <1>a DEF GiveUp
    <3> QED
      BY <1>11, <1>0, <2>2, <2>3, <2>4, <2>5, <3>2, <3>3, <3>4
      DEF AcceptFails, TypeOK
  <2>7. CASE UNCHANGED <<mutex, held, disabled, retry>>
    BY <1>11, <1>0, <2>2, <2>3, <2>4, <2>5, <2>7 DEF AcceptFails, TypeOK
  <2> QED
    BY <1>11, <2>6, <2>7 DEF AcceptFails
<1>12. ASSUME NEW w \in Workers, AcceptDone(w) PROVE TypeOK'
  BY <1>12, <1>0 DEF AcceptDone, TypeOK
<1>13. ASSUME NEW w \in Workers, Unlock(w) PROVE TypeOK'
  BY <1>13, <1>0 DEF Unlock, TypeOK
<1>14. ASSUME NEW w \in Workers, Retry(w) PROVE TypeOK'
  <2>1. PICK l \in retry[w] :
          /\ retry' = [retry EXCEPT ![w] = @ \ {l}]
          /\ \/ UNCHANGED <<active, queue, pc, epollFails>>
             \/ /\ active' = [active EXCEPT ![w] = Sockets]
                /\ queue' = [queue EXCEPT ![w] = <<l>>]
                /\ Goto(w, "accept")
                /\ UNCHANGED epollFails
             \/ /\ EpollFailure
                /\ \E added \in SUBSET (Sockets \ active[w]) :
                     active' = [active EXCEPT ![w] = @ \cup added]
                /\ UNCHANGED <<queue, pc>>
    BY <1>14 DEF Retry
  <2>2. retry' \in [Workers -> SUBSET Sockets] /\ <<l>> \in Seq(Sockets)
    BY <2>1, <1>a
  <2>3. active' \in [Workers -> SUBSET Sockets]
    BY <2>1, <1>a
  <2>4. queue' \in [Workers -> Seq(Sockets)]
    BY <2>1, <2>2, <1>q
  <2>5. pc' \in [Workers -> Places]
    BY <2>1, <1>p
  <2>6. epollFails' \in 0..MaxEpollFails
    BY <2>1, <1>e
  <2> QED
    BY <1>14, <1>0, <2>2, <2>3, <2>4, <2>5, <2>6 DEF Retry, TypeOK
<1>15. ASSUME NEW w \in Workers, EndRound(w) PROVE TypeOK'
  BY <1>15, <1>0 DEF EndRound, TypeOK
<1>16. ASSUME NEW w \in Workers, Close(w) PROVE TypeOK'
  <2>1. used' \in [Workers -> Busy..N]
    BY <1>16, <1>d DEF Close
  <2> QED
    BY <1>16, <1>0, <2>1 DEF Close, TypeOK
<1>17. ASSUME NEW w \in Workers, Quit(w) PROVE TypeOK'
  BY <1>17, <1>0 DEF Quit, TypeOK
<1>18. CASE UNCHANGED vars
  BY <1>18, <1>0 DEF vars, TypeOK
<1> QED
  BY <1>0, <1>1, <1>2, <1>3, <1>4, <1>5, <1>6, <1>7, <1>8, <1>9, <1>10, <1>11,
     <1>12, <1>13, <1>14, <1>15, <1>16, <1>17, <1>18 DEF Next, Round, Handler

(* Every step of every worker keeps what is known of the mutex. *)
LEMMA NextMutex ==
  IInv /\ [Next]_vars => MutexReleased' /\ Kept' /\ Exclusive'
<1>0. SUFFICES ASSUME IInv, [Next]_vars
               PROVE  MutexReleased' /\ Kept' /\ Exclusive'
  OBVIOUS
<1> DEFINE Goal == MutexReleased' /\ Kept' /\ Exclusive'
<1> /\ mutex \in Workers \cup {NoWorker} /\ NoWorker \notin Workers
    /\ pc \in [Workers -> Places] /\ held \in [Workers -> BOOLEAN]
    /\ post \in [Workers -> BOOLEAN] /\ retry \in [Workers -> SUBSET Sockets]
  BY <1>0, AcceptAssumption DEF IInv, TypeOK
<1> MutexReleased /\ Kept /\ Exclusive
  BY <1>0 DEF IInv
<1> USE DEF MutexReleased, Kept, Exclusive
<1>1. ASSUME NEW l \in Sockets, Connect(l) PROVE Goal
  BY <1>1 DEF Connect
<1>2. ASSUME NEW w \in Workers, Start(w) PROVE Goal
  BY <1>2 DEF Start, EnterWait
<1>3. ASSUME NEW w \in Workers, StandBack(w) PROVE Goal
  BY <1>3 DEF StandBack, EnterWait
<1>4. ASSUME NEW w \in Workers, Locked(w) PROVE Goal
  BY <1>4 DEF Locked, EnterWait, UsesMutex
<1>5. ASSUME NEW w \in Workers, NotLocked(w) PROVE Goal
  <2>1. CASE /\ held' = [held EXCEPT ![w] = FALSE]
             /\ EnterWait(w, FALSE, TRUE)
    BY <1>5, <2>1 DEF NotLocked, EnterWait
  <2>2. CASE UNCHANGED <<held, pc, post, bounded>>
    BY <1>5, <2>2 DEF NotLocked
  <2> QED
    BY <1>5, <2>1, <2>2 DEF NotLocked
<1>6. ASSUME NEW w \in Workers, EpollWait(w) PROVE Goal
  BY <1>6 DEF EpollWait
<1>7. ASSUME NEW w \in Workers, AcceptNotReady(w) PROVE Goal
  BY <1>7 DEF AcceptNotReady
<1>8. ASSUME NEW w \in Workers, Accept(w) PROVE Goal
  BY <1>8 DEF Accept
<1>9. ASSUME NEW w \in Workers, Refuse(w) PROVE Goal
  BY <1>9 DEF Refuse
<1>10. ASSUME NEW w \in Workers, AcceptAborted(w) PROVE Goal
  BY <1>10 DEF AcceptAborted
<1>11. ASSUME NEW w \in Workers, AcceptFails(w) PROVE Goal
  <2>1. UNCHANGED <<pc, post, conf>>
    BY <1>11 DEF AcceptFails
  <2>2. CASE UseMutex /\ GiveUp(w)
    BY <2>1, <2>2 DEF GiveUp
  <2>3. CASE ~ UseMutex /\ GiveUp(w)
    BY <2>1, <2>3 DEF GiveUp
  <2>4. CASE UNCHANGED <<mutex, held, disabled, retry>>
    BY <2>1, <2>4
  <2> QED
    BY <1>11, <2>2, <2>3, <2>4 DEF AcceptFails
<1>12. ASSUME NEW w \in Workers, AcceptDone(w) PROVE Goal
  BY <1>12 DEF AcceptDone
<1>13. ASSUME NEW w \in Workers, Unlock(w) PROVE Goal
  BY <1>13 DEF Unlock
<1>14. ASSUME NEW w \in Workers, Retry(w) PROVE Goal
  BY <1>14 DEF Retry
<1>15. ASSUME NEW w \in Workers, EndRound(w) PROVE Goal
  BY <1>15 DEF EndRound
<1>16. ASSUME NEW w \in Workers, Close(w) PROVE Goal
  BY <1>16 DEF Close
<1>17. ASSUME NEW w \in Workers, Quit(w) PROVE Goal
  BY <1>17 DEF Quit
<1>18. CASE UNCHANGED vars
  BY <1>18 DEF vars
<1> QED
  BY <1>0, <1>1, <1>2, <1>3, <1>4, <1>5, <1>6, <1>7, <1>8, <1>9, <1>10, <1>11,
     <1>12, <1>13, <1>14, <1>15, <1>16, <1>17, <1>18 DEF Next, Round, Handler

(* Every step of every worker keeps what is known of the epoll sets.  A step with
   a failed epoll_ctl() makes both statements void. *)
LEMMA NextSets == IInv /\ [Next]_vars => Registered' /\ NeverDeaf'
<1>0. SUFFICES ASSUME IInv, [Next]_vars PROVE Registered' /\ NeverDeaf'
  OBVIOUS
<1> DEFINE Goal == Registered' /\ NeverDeaf'
<1> /\ held \in [Workers -> BOOLEAN] /\ epollFails \in Nat
    /\ active \in [Workers -> SUBSET Sockets]
    /\ retry \in [Workers -> SUBSET Sockets]
  BY <1>0, AcceptAssumption DEF IInv, TypeOK
<1> Exclusive /\ Registered /\ NeverDeaf
  BY <1>0 DEF IInv
<1>f. ASSUME EpollFailure PROVE Goal
  BY <1>f DEF Registered, NeverDeaf
<1> USE DEF Exclusive, Registered, NeverDeaf
<1>u. ASSUME UNCHANGED <<held, active, retry, epollFails, quitting, conf>> PROVE Goal
  BY <1>u
<1>1. ASSUME NEW l \in Sockets, Connect(l) PROVE Goal
  BY <1>1, <1>u DEF Connect
<1>2. ASSUME NEW w \in Workers, Locked(w) PROVE Goal
  <2>1. CASE /\ held' = [held EXCEPT ![w] = TRUE]
             /\ active' = [active EXCEPT ![w] = IF held[w] THEN @ ELSE Sockets]
             /\ UNCHANGED epollFails
    BY <1>2, <2>1 DEF Locked, UsesMutex
  <2> QED
    BY <1>2, <1>f, <2>1 DEF Locked
<1>3. ASSUME NEW w \in Workers, NotLocked(w) PROVE Goal
  <2>1. CASE /\ held' = [held EXCEPT ![w] = FALSE]
             /\ active' = [active EXCEPT ![w] = IF held[w] THEN {} ELSE @]
             /\ UNCHANGED epollFails
    BY <1>3, <2>1 DEF NotLocked, UsesMutex
  <2> QED
    BY <1>3, <1>f, <2>1 DEF NotLocked
<1>4. ASSUME NEW w \in Workers, AcceptFails(w) PROVE Goal
  <2>1. CASE /\ active' = [active EXCEPT ![w] = {}]
             /\ GiveUp(w)
             /\ UNCHANGED epollFails
    BY ZenonT(60), <1>4, <2>1 DEF AcceptFails, GiveUp
  <2> QED
    BY <1>4, <1>f, <2>1 DEF AcceptFails
<1>5. ASSUME NEW w \in Workers, Retry(w) PROVE Goal
  <2>1. retry[w] # {} /\ ~ UseMutex /\ UNCHANGED <<conf, quitting>>
    BY <1>5 DEF Retry
  <2>2. CASE /\ w \in quitting /\ UNCHANGED <<active, epollFails>>
             /\ \E l \in retry[w] : retry' = [retry EXCEPT ![w] = @ \ {l}]
    BY <2>1, <2>2
  <2>3. CASE /\ active' = [active EXCEPT ![w] = Sockets] /\ UNCHANGED epollFails
             /\ \E l \in retry[w] : retry' = [retry EXCEPT ![w] = @ \ {l}]
    BY <2>1, <2>3
  <2> QED
    BY <1>5, <1>f, <2>2, <2>3 DEF Retry
<1>6. ASSUME NEW w \in Workers, Quit(w) PROVE Goal
  BY <1>6 DEF Quit
<1>7. ASSUME NEW w \in Workers,
             Start(w) \/ StandBack(w) \/ EpollWait(w) \/ AcceptNotReady(w)
             \/ Accept(w) \/ Refuse(w) \/ AcceptAborted(w) \/ AcceptDone(w)
             \/ Unlock(w) \/ EndRound(w) \/ Close(w)
      PROVE  Goal
  BY <1>7, <1>u DEF Start, StandBack, EpollWait, AcceptNotReady, Accept, Refuse,
     AcceptAborted, AcceptDone, Unlock, EndRound, Close
<1>8. CASE UNCHANGED vars
  BY <1>8, <1>u DEF vars
<1> QED
  BY <1>0, <1>1, <1>2, <1>3, <1>4, <1>5, <1>6, <1>7, <1>8 DEF Next, Round, Handler

(* The invariant is inductive. *)
LEMMA NextIInv == IInv /\ [Next]_vars => IInv'
BY NextTypeOK, NextMutex, NextSets DEF IInv

(* Type correctness of the accept loop, for every number of connections: in
   particular ngx_accept_disabled never leaves the range -N..N. *)
THEOREM AcceptTypeCorrect == SafetySpec => []TypeOK
<1>1. IInv => TypeOK
  BY DEF IInv
<1> QED
  BY InitIInv, NextIInv, <1>1, PTL DEF SafetySpec

(* The mutex is never held while timers and posted events run, nor from one round
   to the next, and whoever holds it knows so. *)
THEOREM MutexReleasedHolds == SafetySpec => []MutexReleased
<1>1. IInv => MutexReleased
  BY DEF IInv
<1> QED
  BY InitIInv, NextIInv, <1>1, PTL DEF SafetySpec

(* Queued accept handlers run under the mutex. *)
THEOREM PostedUnderMutexHolds == SafetySpec => []PostedUnderMutex
<1>1. IInv => PostedUnderMutex
  BY DEF IInv, Kept, PostedUnderMutex, Handling
<1> QED
  BY InitIInv, NextIInv, <1>1, PTL DEF SafetySpec

(* No thundering herd: unless epoll_ctl() has failed, a worker in epoll_wait() has
   the listening sockets in its epoll set only if it had the mutex last. *)
THEOREM NoHerdHolds == SafetySpec => []NoHerd
<1>1. IInv => NoHerd
  BY DEF IInv, Registered, NoHerd
<1> QED
  BY InitIInv, NextIInv, <1>1, PTL DEF SafetySpec

(* Without the mutex a worker that ran out of descriptors keeps the timer that
   puts its listening sockets back. *)
THEOREM NeverDeafHolds == SafetySpec => []NeverDeaf
<1>1. IInv => NeverDeaf
  BY DEF IInv
<1> QED
  BY InitIInv, NextIInv, <1>1, PTL DEF SafetySpec
=============================================================================
