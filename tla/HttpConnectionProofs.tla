------------------------ MODULE HttpConnectionProofs ------------------------
(* No client connection is forgotten, for every client, every stream of requests and
   every size of the buffers.  The theorems are about the composition MCHttp, the proofs
   about its instance H of HttpConnection. *)
EXTENDS MCHttp, FiniteSetTheorems, WellFoundedInduction, TLAPS

\* the numbers of the units
Ids == 1..Len(stream)

Net == [sent : Nat, read : Nat, fin : BOOLEAN]
Rev == [ready : BOOLEAN, posted : BOOLEAN, timer : BOOLEAN, event : BOOLEAN, eof : BOOLEAN]
Buf == [data : Seq(Ids), pos : Nat]
Hc  == [busy : Seq(1..Num), free : Seq(1..Num)]
Con == [handler : {"wait", "keepalive", "line", "headers", "request", "linger", "closed"},
        reusable : BOOLEAN,
        pc : {"idle", "wait", "keepalive", "parse", "handle", "body", "discard", "linger",
              "closed"}]
Line == [buf : 0..Num, lo : Nat, hi : Nat]
Request ==
  [n : Nat, in : 0..Num, start : Nat, partial : BOOLEAN, lines : Seq(Line), keep : BOOLEAN,
   linger : BOOLEAN, discard : BOOLEAN, chunked : BOOLEAN, left : Nat, lt : BOOLEAN,
   count : Nat, resp : {"none", "on", "done"}, reh : {"block", "body", "discard"},
   body : Seq(Ids), read : BOOLEAN, unf : Seq(Ids), used : Nat, cap : Nat, valid : BOOLEAN]

States == [net : Net, rev : Rev, buf : [0..Num -> Buf], hc : Hc, c : Con, r : Request]

Typed(s) ==
  /\ s \in States
  /\ s.net.read <= s.net.sent /\ s.net.sent <= Len(stream)
  /\ \A i \in 0..Num : s.buf[i].pos <= Len(s.buf[i].data)

(* What has arrived and was not read, or the end of the client that was not noticed. *)
Outstanding(s) == s.net.read < s.net.sent \/ (s.net.fin /\ ~s.rev.eof)

(* It is never lost from sight: c->read is ready, or an event is on its way. *)
Sighted(s) ==
  /\ Outstanding(s) => s.rev.ready \/ s.rev.event
  /\ s.rev.eof => s.net.fin /\ s.net.read = s.net.sent

(* A connection that waits: what has arrived has its event, and there is a timer. *)
Waits(s) ==
  LET on == s.r.resp = "on"
  IN  /\ Outstanding(s) => s.rev.event \/ s.rev.posted \/ (on /\ s.r.reh = "block")
      /\ s.rev.timer \/ s.rev.posted \/ on

\* no part of a request is there beyond its header
Fresh(q) == /\ q.resp = "none" /\ q.reh = "block" /\ q.count = 1 /\ q.left = 0
            /\ q.unf = <<>> /\ q.used = 0

(* The body is being read: there is more of it, and a place to read it into. *)
Reading(q) ==
  /\ q.left > 0 /\ q.cap > 0 /\ q.used <= q.cap
  /\ Len(q.unf) < H!Wants(q)

(* After the header: a response is under way, unless the body comes first; a body that
   is discarded holds the request until it has ended, and has ended with the client. *)
Answers(s) ==
  LET q == s.r
  IN  /\ s.rev.eof => q.left > 0
      /\ q.left > 0 => H!Ahead(s) = 0
      /\ \/ /\ q.reh = "block" /\ q.count = 1
            /\ \/ s.c.pc = "idle" /\ q.resp = "on"
               \/ s.c.pc = "discard" /\ q.resp = "none" /\ ~s.rev.eof
         \/ /\ q.reh = "body" /\ q.count = 1 /\ q.resp = "none" /\ ~s.rev.eof
            /\ s.c.pc \in {"idle", "body"} /\ Reading(q)
         \/ /\ q.reh = "discard" /\ s.c.pc \in {"idle", "discard"}
            /\ \/ q.count = 2 /\ q.discard /\ q.resp = "on" /\ ~s.rev.eof
               \/ q.count = 1 /\ q.resp = "on"
               \/ q.count = 1 /\ q.resp = "done" /\ q.lt

(* Which handler the connection has, and where the process is in it. *)
HandlerOK(s) ==
  \/ s.c.handler \in {"wait", "keepalive"} /\ s.c.pc \in {"idle", s.c.handler} /\ Fresh(s.r)
  \/ /\ s.c.handler \in {"line", "headers"} /\ s.c.pc \in {"idle", "parse", "handle"}
     /\ Fresh(s.r) /\ ~s.rev.eof
     /\ s.c.pc = "handle" => s.buf[s.r.in].pos > 0
  \/ s.c.handler = "request" /\ Answers(s)
  \/ s.c.handler = "linger" /\ s.c.pc \in {"idle", "linger"} /\ s.r.count = 1 /\ s.r.resp = "done"

Kept(s) ==
  /\ Typed(s)
  /\ s.c.pc # "closed" =>
       /\ Sighted(s) /\ HandlerOK(s)
       /\ s.rev.posted => s.c.pc = "idle" /\ s.c.handler \in {"wait", "line", "keepalive"}
       /\ s.c.pc = "idle" => Waits(s)

IInv == stream \in Streams /\ Kept(H!Now)

-----------------------------------------------------------------------------
(* What arrives, and what recv() does to the connection. *)

LEMMA MinOfTwo ==
  ASSUME NEW a \in Nat, NEW b \in Nat
  PROVE  /\ H!Min({a, b}) \in Nat
         /\ H!Min({a, b}) = IF a <= b THEN a ELSE b
<1> DEFINE m == IF a <= b THEN a ELSE b
<1>1. m \in {a, b} /\ \A y \in {a, b} : m <= y
  OBVIOUS
<1>2. \A x \in {a, b} : (\A y \in {a, b} : x <= y) => x = m
  OBVIOUS
<1>3. H!Min({a, b}) = m
  BY <1>1, <1>2 DEF H!Min
<1> QED
  BY <1>3

LEMMA Arrival ==
  ASSUME Typed(H!Now), NEW size \in Nat
  PROVE  /\ H!Arrived(size) \in Nat /\ H!Arrived(size) <= size
         /\ net.read + H!Arrived(size) <= net.sent
         /\ size > 0 /\ H!Arrived(size) = 0 => net.read = net.sent
<1>1. net.sent - net.read \in Nat /\ net.sent \in Nat /\ net.read \in Nat
  BY DEF Typed, States, H!Now, Net
<1>2. H!Arrived(size) = IF size <= net.sent - net.read THEN size ELSE net.sent - net.read
  BY <1>1, MinOfTwo DEF H!Arrived
<1> QED
  BY <1>1, <1>2

LEMMA ReceivedUnits ==
  ASSUME Typed(H!Now), NEW n \in Nat, net.read + n <= net.sent
  PROVE  H!Received(n) \in Seq(Ids) /\ Len(H!Received(n)) = n
<1>1. net.read \in Nat /\ net.sent \in Nat /\ net.sent <= Len(stream)
  BY DEF Typed, States, H!Now, Net
<1>2. \A i \in 1..n : net.read + i \in Ids
  BY <1>1 DEF Ids
<1> QED
  BY <1>2 DEF H!Received

(* What a step keeps of a connection that is not closed. *)
Base(s) == Typed(s) /\ Sighted(s)

\* the connection is in t what it is in s
SameNet(s, t) == t.net = s.net /\ t.rev.ready = s.rev.ready /\ t.rev.event = s.rev.event
                 /\ t.rev.eof = s.rev.eof

LEMMA StaysSighted ==
  ASSUME NEW s, NEW t, Sighted(s), SameNet(s, t)
  PROVE  Sighted(t) /\ (Outstanding(t) <=> Outstanding(s))
BY DEF Sighted, SameNet, Outstanding

(* recv() of n units, which says that there is nothing more only if this is so. *)
LEMMA RecvKeeps ==
  ASSUME Typed(H!Now), NEW s, Base(s), s.net = net, NEW n \in Nat, net.read + n <= net.sent,
         n = 0 => net.read = net.sent
  PROVE  /\ Base(H!Recv(s, n))
         /\ H!Recv(s, n).net.sent = net.sent /\ H!Recv(s, n).net.fin = net.fin
         /\ H!Recv(s, n).rev.ready <=> s.rev.ready /\ n > 0
         /\ H!Recv(s, n).rev.eof <=> s.rev.eof \/ (n = 0 /\ net.fin)
         /\ H!Recv(s, n).rev.event = s.rev.event /\ H!Recv(s, n).rev.timer = s.rev.timer
         /\ H!Recv(s, n).rev.posted = s.rev.posted
         /\ n = 0 => ~Outstanding(H!Recv(s, n))
         /\ H!Recv(s, n).buf = s.buf /\ H!Recv(s, n).hc = s.hc
         /\ H!Recv(s, n).c = s.c /\ H!Recv(s, n).r = s.r
<1>0. /\ s \in States /\ net \in Net /\ net.read <= net.sent /\ net.sent <= Len(stream)
      /\ s.rev \in Rev
  BY DEF Base, Typed, States, H!Now
<1>1. PICK w : w = [net EXCEPT !.read = @ + n]
  OBVIOUS
<1>2. /\ w \in Net /\ w.sent = net.sent /\ w.fin = net.fin /\ w.read = net.read + n
  BY <1>0, <1>1 DEF Net
<1>3. PICK a : a = [s.rev EXCEPT !.ready = @ /\ n > 0, !.eof = @ \/ (n = 0 /\ net.fin)]
  OBVIOUS
<1>4. /\ a \in Rev /\ (a.ready <=> s.rev.ready /\ n > 0)
      /\ (a.eof <=> s.rev.eof \/ (n = 0 /\ net.fin))
      /\ a.event = s.rev.event /\ a.timer = s.rev.timer /\ a.posted = s.rev.posted
  BY <1>0, <1>2, <1>3 DEF Rev, Net
<1>5. H!Recv(s, n) = [s EXCEPT !.net = w, !.rev = a]
  BY <1>0, <1>1, <1>3 DEF H!Recv, States
<1>6. PICK t : t = H!Recv(s, n)
  OBVIOUS
<1>7. /\ t \in States /\ t.net = w /\ t.rev = a /\ t.buf = s.buf /\ t.hc = s.hc /\ t.c = s.c
      /\ t.r = s.r
  BY <1>0, <1>2, <1>4, <1>5, <1>6 DEF States
<1>8. Typed(t)
  BY <1>0, <1>2, <1>7 DEF Typed, Base, Net
<1>9. Sighted(t) /\ (n = 0 => ~Outstanding(t))
  BY <1>0, <1>2, <1>4, <1>7 DEF Base, Sighted, Outstanding, Net, Rev
<1> QED
  BY <1>2, <1>4, <1>6, <1>7, <1>8, <1>9 DEF Base

-----------------------------------------------------------------------------
(* The steps as functions of a state. *)

LEMMA NowParts ==
  ASSUME IInv
  PROVE  /\ Typed(H!Now) /\ stream \in Streams
         /\ H!Now.net = net /\ H!Now.rev = rev /\ H!Now.buf = buf /\ H!Now.hc = hc /\ H!Now.c = c
         /\ H!Now.r = conn_r
         /\ net \in Net /\ rev \in Rev /\ buf \in [0..Num -> Buf] /\ hc \in Hc /\ c \in Con
         /\ conn_r \in Request
         /\ net.read <= net.sent /\ net.sent <= Len(stream)
         /\ \A i \in 0..Num : buf[i].pos <= Len(buf[i].data)
BY DEF IInv, Kept, Typed, States, H!Now

LEMMA OnStep ==
  ASSUME IInv, NEW x, H!Becomes(x), Kept(x)
  PROVE  IInv'
<1>1. /\ net' = x.net /\ rev' = x.rev /\ buf' = x.buf /\ hc' = x.hc /\ c' = x.c /\ conn_r' = x.r
      /\ stream' = stream
  BY DEF H!Becomes
<1>2. x \in States
  BY DEF Kept, Typed
<1>3. H!Now' = x
  BY <1>1, <1>2 DEF H!Now, States
<1>4. Ids' = Ids /\ States' = States
  BY <1>1 DEF Ids, States, Buf, Request
<1>5. Typed(x)'
  BY <1>1, <1>4 DEF Kept, Typed
<1>6. Kept(x)'
  BY <1>5 DEF Kept
<1> QED
  BY <1>1, <1>3, <1>6 DEF IInv

LEMMA NoRequestFresh ==
  ASSUME H!HttpConnectionAssumption
  PROVE  H!NoRequest \in Request /\ Fresh(H!NoRequest) /\ H!NoRequest.lt = FALSE /\ H!NoRequest.in = 0
<1> USE DEF H!NoRequest
<1>1. H!NoRequest.in = 0 /\ 0 \in 0..Num
  BY DEF H!HttpConnectionAssumption
<1>2. H!NoRequest.lines \in Seq(Line) /\ H!NoRequest.body \in Seq(Ids) /\ H!NoRequest.unf \in Seq(Ids)
  OBVIOUS
<1> QED
  BY <1>1, <1>2 DEF Request, Fresh

LEMMA EmptyBuffers ==
  H!Empty \in Buf /\ H!Empty.pos = 0 /\ Len(H!Empty.data) = 0
BY DEF H!Empty, Buf

(* ngx_http_close_connection() from wherever. *)
LEMMA ClosedKept ==
  ASSUME H!HttpConnectionAssumption, NEW s, Typed(s)
  PROVE  Kept(H!Closed(s))
<1>1. PICK b : b = [i \in 0..Num |-> H!Empty]
  OBVIOUS
<1>2. PICK v : v = [ready |-> FALSE, posted |-> FALSE, timer |-> FALSE, event |-> FALSE,
                    eof |-> FALSE]
  OBVIOUS
<1>3. PICK h : h = [busy |-> <<>>, free |-> <<>>]
  OBVIOUS
<1>4. PICK k : k = [handler |-> "closed", reusable |-> FALSE, pc |-> "closed"]
  OBVIOUS
<1>5. H!Closed(s) = [s EXCEPT !.c = k, !.rev = v, !.buf = b, !.hc = h, !.r = H!NoRequest]
  BY <1>1, <1>2, <1>3, <1>4 DEF H!Closed
<1>6. v \in Rev /\ h \in Hc /\ k \in Con /\ k.pc = "closed" /\ b \in [0..Num -> Buf]
  BY <1>1, <1>2, <1>3, <1>4, EmptyBuffers DEF Rev, Hc, Con
<1>7. PICK t : t = H!Closed(s)
  OBVIOUS
<1>8. t \in States /\ t.net = s.net /\ t.buf = b /\ t.c = k
  BY <1>5, <1>6, <1>7, NoRequestFresh DEF Typed, States
<1>9. \A i \in 0..Num : t.buf[i].pos <= Len(t.buf[i].data)
  BY <1>1, <1>8, EmptyBuffers
<1>10. Typed(t)
  BY <1>8, <1>9 DEF Typed
<1> QED
  BY <1>6, <1>7, <1>8, <1>10 DEF Kept

LEMMA Closes ==
  ASSUME H!HttpConnectionAssumption, IInv, H!Becomes(H!Closed(H!Now))
  PROVE  IInv'
BY ClosedKept, OnStep, NowParts

(* Most functions leave net, the buffers and hc alone. *)
Put(s, v, k, q) == [s EXCEPT !.rev = v, !.c = k, !.r = q]

LEMMA Made ==
  ASSUME NEW s, Typed(s), NEW v \in Rev, NEW k \in Con, NEW q \in Request
  PROVE  LET t == Put(s, v, k, q)
         IN  /\ Typed(t)
             /\ t.net = s.net /\ t.rev = v /\ t.buf = s.buf /\ t.hc = s.hc /\ t.c = k /\ t.r = q
<1>0. PICK t : t = Put(s, v, k, q)
  OBVIOUS
<1>1. /\ t \in States /\ t.net = s.net /\ t.rev = v /\ t.buf = s.buf /\ t.hc = s.hc /\ t.c = k
      /\ t.r = q
  BY <1>0 DEF Typed, States, Put
<1> QED
  BY <1>0, <1>1 DEF Typed

LEMMA StateParts ==
  ASSUME NEW s, Typed(s)
  PROVE  /\ s \in States /\ s.net \in Net /\ s.rev \in Rev /\ s.buf \in [0..Num -> Buf]
         /\ s.hc \in Hc /\ s.c \in Con /\ s.r \in Request
         /\ H!Pos(s) \in Nat /\ H!Last_(s) \in Nat /\ H!Ahead(s) \in Nat /\
              H!Pos(s) + H!Ahead(s) = H!Last_(s)
         /\ s.r.in \in 0..Num
<1>1. /\ s \in States /\ s.net \in Net /\ s.rev \in Rev /\ s.buf \in [0..Num -> Buf]
      /\ s.hc \in Hc /\ s.c \in Con /\ s.r \in Request
  BY DEF Typed, States
<1>2. s.r.in \in 0..Num
  BY <1>1 DEF Request
<1>3. s.buf[s.r.in] \in Buf /\ s.buf[s.r.in].pos <= Len(s.buf[s.r.in].data)
  BY <1>1, <1>2 DEF Typed
<1>4. H!Pos(s) \in Nat /\ H!Last_(s) \in Nat /\ H!Pos(s) <= H!Last_(s)
  BY <1>3 DEF H!Pos, H!Last_, Buf
<1> QED
  BY <1>1, <1>2, <1>4 DEF H!Ahead

LEMMA GotoIs ==
  ASSUME NEW s, Typed(s), NEW at, at \in {"idle", "parse", "handle", "body", "discard", "linger"}
  PROVE  LET t == H!Goto(s, at)
         IN  /\ Typed(t)
             /\ t.net = s.net /\ t.rev = s.rev /\ t.buf = s.buf /\ t.hc = s.hc /\ t.r = s.r
             /\ t.c.pc = at /\ t.c.handler = s.c.handler /\ t.c.reusable = s.c.reusable
             /\ t.c \in Con
<1>0. /\ s \in States /\ s.net \in Net /\ s.rev \in Rev /\ s.buf \in [0..Num -> Buf]
      /\ s.hc \in Hc /\ s.c \in Con /\ s.r \in Request
  BY StateParts
<1>1. PICK k : k = [s.c EXCEPT !.pc = at]
  OBVIOUS
<1>2. k \in Con /\ k.pc = at /\ k.handler = s.c.handler /\ k.reusable = s.c.reusable
  BY <1>0, <1>1 DEF Con
<1>3. PICK t : t = H!Goto(s, at)
  OBVIOUS
<1>4. t = Put(s, s.rev, k, s.r)
  BY <1>0, <1>1, <1>3 DEF H!Goto, States, Put
<1>5. /\ Typed(t) /\ t.net = s.net /\ t.rev = s.rev /\ t.buf = s.buf /\ t.hc = s.hc /\ t.c = k
      /\ t.r = s.r
  BY <1>0, <1>2, <1>4, Made
<1> QED
  BY <1>2, <1>3, <1>5

-----------------------------------------------------------------------------
(* The end of a request. *)

LEMMA FrontIs ==
  ASSUME NEW S, NEW q \in Seq(S)
  PROVE  H!Front(q) \in Seq(S)
<1>1. CASE q = <<>>
  BY <1>1 DEF H!Front
<1>2. CASE q # <<>>
  BY <1>2 DEF H!Front
<1> QED
  BY <1>1, <1>2

LEMMA RecycledKeeps ==
  ASSUME NEW s, Typed(s)
  PROVE  LET t == H!Recycled(s)
         IN  /\ Typed(t)
             /\ t.net = s.net /\ t.rev = s.rev /\ t.c = s.c /\ t.r = s.r
<1>0. /\ s \in States /\ s.net \in Net /\ s.rev \in Rev /\ s.buf \in [0..Num -> Buf]
      /\ s.hc \in Hc /\ s.c \in Con /\ s.r \in Request
      /\ s.r.in \in 0..Num
  BY StateParts
<1>1. CASE s.r.in = 0
  BY <1>1 DEF H!Recycled
<1>2. CASE s.r.in # 0
  <2>1. PICK done : done = H!Front(s.hc.busy)
    OBVIOUS
  <2>2. done \in Seq(1..Num) /\ s.hc.free \in Seq(1..Num) /\ s.r.in \in 1..Num
    BY <1>0, <1>2, <2>1, FrontIs DEF Hc
  <2>a. PICK f : f = s.hc.free \o done
    OBVIOUS
  <2>b. f \in Seq(1..Num) /\ <<s.r.in>> \in Seq(1..Num)
    BY <2>2, <2>a
  <2>3. PICK h : h = [s.hc EXCEPT !.free = f, !.busy = <<s.r.in>>]
    OBVIOUS
  <2>4. h \in Hc
    BY <1>0, <2>b, <2>3 DEF Hc
  <2>5. PICK b : b = [i \in 0..Num |-> IF i \in {done[k] : k \in DOMAIN done}
                                       THEN H!Empty ELSE s.buf[i]]
    OBVIOUS
  <2>6. b \in [0..Num -> Buf] /\ \A i \in 0..Num : b[i].pos <= Len(b[i].data)
    <3>1. ASSUME NEW i \in 0..Num
          PROVE  b[i] \in Buf /\ b[i].pos <= Len(b[i].data)
      <4>1. b[i] = H!Empty \/ b[i] = s.buf[i]
        BY <2>5
      <4>2. s.buf[i] \in Buf /\ s.buf[i].pos <= Len(s.buf[i].data)
        BY <1>0 DEF Typed
      <4>3. H!Empty \in Buf /\ H!Empty.pos <= Len(H!Empty.data)
        BY EmptyBuffers
      <4> QED
        BY <4>1, <4>2, <4>3
    <3> QED
      BY <2>5, <3>1
  <2>7. PICK t : t = H!Recycled(s)
    OBVIOUS
  <2>8. t = [s EXCEPT !.hc = h, !.buf = b]
    BY <1>0, <1>2, <2>1, <2>a, <2>3, <2>5, <2>7 DEF H!Recycled, States
  <2>9. t \in States /\ t.net = s.net /\ t.rev = s.rev /\ t.c = s.c /\ t.r = s.r /\ t.buf = b
    BY <1>0, <2>4, <2>6, <2>8 DEF States
  <2> QED
    BY <1>0, <2>6, <2>7, <2>9 DEF Typed
<1> QED
  BY <1>1, <1>2

LEMMA CreatedFresh ==
  ASSUME H!HttpConnectionAssumption, NEW s, Typed(s)
  PROVE  LET t == H!CreateRequest(s)
         IN  /\ Typed(t)
             /\ t.net = s.net /\ t.rev = s.rev /\ t.buf = s.buf /\ t.hc = s.hc
             /\ t.c.handler = "line" /\ t.c.pc = s.c.pc /\ t.c.reusable = s.c.reusable
             /\ Fresh(t.r)
<1>0. /\ s \in States /\ s.net \in Net /\ s.rev \in Rev /\ s.buf \in [0..Num -> Buf]
      /\ s.hc \in Hc /\ s.c \in Con /\ s.r \in Request
  BY StateParts
<1>1. PICK in : in = IF s.hc.busy = <<>> THEN 0 ELSE s.hc.busy[1]
  OBVIOUS
<1>2. in \in 0..Num
  BY <1>0, <1>1 DEF H!HttpConnectionAssumption, Hc
<1>3. PICK n : n = s.r.n + 1
  OBVIOUS
<1>4. n \in Nat
  BY <1>0, <1>3 DEF Request
<1>5. PICK q : q = [H!NoRequest EXCEPT !.n = n, !.in = in]
  OBVIOUS
<1>6. q \in Request
  BY <1>2, <1>4, <1>5, NoRequestFresh DEF Request
<1>7. Fresh(q)
  BY <1>5, NoRequestFresh DEF Request, Fresh
<1>8. PICK k : k = [s.c EXCEPT !.handler = "line"]
  OBVIOUS
<1>9. k \in Con /\ k.handler = "line" /\ k.pc = s.c.pc /\ k.reusable = s.c.reusable
  BY <1>0, <1>8 DEF Con
<1>10. PICK t : t = H!CreateRequest(s)
  OBVIOUS
<1>11. t = Put(s, s.rev, k, q)
  BY <1>0, <1>1, <1>3, <1>5, <1>8, <1>10 DEF H!CreateRequest, States, Put
<1>12. /\ Typed(t) /\ t.net = s.net /\ t.rev = s.rev /\ t.buf = s.buf /\ t.hc = s.hc /\ t.c = k
       /\ t.r = q
  BY <1>0, <1>6, <1>9, <1>11, Made
<1> QED
  BY <1>7, <1>9, <1>10, <1>12

LEMMA IdleKept ==
  ASSUME H!HttpConnectionAssumption, NEW s, Base(s)
  PROVE  Kept(H!Idle(s))
<1>0. /\ Typed(s) /\ s \in States /\ s.net \in Net /\ s.rev \in Rev /\ s.c \in Con /\ s.r \in Request
  BY StateParts DEF Base
<1>1. PICK v : v = [s.rev EXCEPT !.timer = TRUE, !.posted = @ \/ s.rev.ready]
  OBVIOUS
<1>2. /\ v \in Rev /\ v.timer /\ (v.posted <=> s.rev.posted \/ s.rev.ready)
      /\ v.ready = s.rev.ready /\ v.event = s.rev.event /\ v.eof = s.rev.eof
  BY <1>0, <1>1 DEF Rev
<1>3. PICK k : k = [s.c EXCEPT !.handler = "keepalive", !.reusable = TRUE, !.pc = "idle"]
  OBVIOUS
<1>4. k \in Con /\ k.handler = "keepalive" /\ k.pc = "idle"
  BY <1>0, <1>3 DEF Con
<1>5. PICK n : n = s.r.n
  OBVIOUS
<1>6. PICK q : q = [H!NoRequest EXCEPT !.n = n]
  OBVIOUS
<1>7. n \in Nat
  BY <1>0, <1>5 DEF Request
<1>8. q \in Request
  BY <1>6, <1>7, NoRequestFresh DEF Request
<1>9. Fresh(q)
  BY <1>6, NoRequestFresh DEF Request, Fresh
<1>10. PICK h : h = [busy |-> <<>>, free |-> <<>>]
  OBVIOUS
<1>11. PICK b : b = [i \in 0..Num |-> H!Empty]
  OBVIOUS
<1>12. h \in Hc /\ b \in [0..Num -> Buf]
  BY <1>10, <1>11, EmptyBuffers DEF Hc
<1>13. PICK t : t = H!Idle(s)
  OBVIOUS
<1>14. t = [s EXCEPT !.rev = v, !.c = k, !.r = q, !.hc = h, !.buf = b]
  BY <1>0, <1>1, <1>3, <1>5, <1>6, <1>10, <1>11, <1>13, ZenonT(60) DEF H!Idle, H!Goto, States
<1>15. /\ t \in States /\ t.net = s.net /\ t.rev = v /\ t.c = k /\ t.r = q /\ t.buf = b
  BY <1>0, <1>2, <1>4, <1>8, <1>12, <1>14 DEF States
<1>16. \A i \in 0..Num : b[i].pos <= Len(b[i].data)
  BY <1>11, EmptyBuffers
<1>17. Typed(t)
  BY <1>0, <1>15, <1>16 DEF Typed
<1>18. Sighted(t)
  BY <1>2, <1>15, StaysSighted DEF Base, SameNet
<1>19. HandlerOK(t) /\ Waits(t)
  BY <1>2, <1>4, <1>9, <1>15, <1>18 DEF HandlerOK, Waits, Rev, Sighted
<1> QED
  BY <1>4, <1>13, <1>15, <1>17, <1>18, <1>19 DEF Kept

(* A pipelined request: its event is posted. *)
LEMMA PipelinedKept ==
  ASSUME H!HttpConnectionAssumption, NEW s, Base(s), ~s.rev.eof
  PROVE  Kept(H!Goto([H!CreateRequest(H!Recycled(s)) EXCEPT !.rev.timer = FALSE, !.rev.posted = TRUE],
                     "idle"))
<1>1. PICK a : a = H!Recycled(s)
  OBVIOUS
<1>2. Typed(a) /\ a.net = s.net /\ a.rev = s.rev
  BY <1>1, RecycledKeeps DEF Base
<1>3. PICK b : b = H!CreateRequest(a)
  OBVIOUS
<1>4. Typed(b) /\ b.net = s.net /\ b.rev = s.rev /\ b.c.handler = "line" /\ Fresh(b.r)
  BY <1>2, <1>3, CreatedFresh
<1>5. b \in States /\ b.rev \in Rev /\ b.c \in Con /\ b.r \in Request
  BY <1>4, StateParts
<1>6. PICK v : v = [b.rev EXCEPT !.timer = FALSE, !.posted = TRUE]
  OBVIOUS
<1>7. /\ v \in Rev /\ v.posted
      /\ v.ready = s.rev.ready /\ v.event = s.rev.event /\ v.eof = s.rev.eof
  BY <1>4, <1>5, <1>6 DEF Rev
<1>8. PICK d : d = Put(b, v, b.c, b.r)
  OBVIOUS
<1>9. Typed(d) /\ d.net = s.net /\ d.rev = v /\ d.c = b.c /\ d.r = b.r
  BY <1>4, <1>5, <1>7, <1>8, Made
<1>10. d = [b EXCEPT !.rev.timer = FALSE, !.rev.posted = TRUE]
  BY <1>5, <1>6, <1>8 DEF Put, States
<1>11. PICK t : t = H!Goto(d, "idle")
  OBVIOUS
<1>12. /\ Typed(t) /\ t.net = s.net /\ t.rev = v /\ t.r = b.r /\ t.c.pc = "idle"
       /\ t.c.handler = "line"
  BY <1>4, <1>9, <1>11, GotoIs
<1>13. Sighted(t)
  BY <1>7, <1>12, StaysSighted DEF Base, SameNet
<1>14. HandlerOK(t) /\ Waits(t)
  BY <1>4, <1>7, <1>12 DEF HandlerOK, Waits
<1>15. Kept(t)
  BY <1>12, <1>13, <1>14 DEF Kept
<1> QED
  BY <1>1, <1>3, <1>10, <1>11, <1>15

LEMMA LingerKept ==
  ASSUME NEW s, Base(s), s.r.count = 1, ~s.rev.posted
  PROVE  Kept(H!SetLingeringClose(s))
<1>0. /\ Typed(s) /\ s \in States /\ s.net \in Net /\ s.rev \in Rev /\ s.c \in Con /\ s.r \in Request
  BY StateParts DEF Base
<1>1. PICK v : v = [s.rev EXCEPT !.timer = TRUE]
  OBVIOUS
<1>2. /\ v \in Rev /\ v.timer /\ v.posted = s.rev.posted
      /\ v.ready = s.rev.ready /\ v.event = s.rev.event /\ v.eof = s.rev.eof
  BY <1>0, <1>1 DEF Rev
<1>3. PICK k : k = [s.c EXCEPT !.handler = "linger"]
  OBVIOUS
<1>4. k \in Con /\ k.handler = "linger"
  BY <1>0, <1>3 DEF Con
<1>5. PICK q : q = [s.r EXCEPT !.lt = TRUE, !.resp = "done"]
  OBVIOUS
<1>6. q \in Request /\ q.resp = "done" /\ q.count = 1
  BY <1>0, <1>5 DEF Request
<1>7. PICK d : d = Put(s, v, k, q)
  OBVIOUS
<1>8. Typed(d) /\ d.net = s.net /\ d.rev = v /\ d.c = k /\ d.r = q
  BY SMTT(30), <1>0, <1>2, <1>4, <1>6, <1>7, Made
<1>9. H!SetLingeringClose(s) = H!Goto(d, IF s.rev.ready THEN "linger" ELSE "idle")
  BY <1>0, <1>1, <1>3, <1>5, <1>7 DEF H!SetLingeringClose, Put, States
<1>10. PICK t : t = H!SetLingeringClose(s)
  OBVIOUS
<1>11. /\ Typed(t) /\ t.net = s.net /\ t.rev = v /\ t.r = q /\ t.c.handler = "linger"
       /\ t.c.pc = IF s.rev.ready THEN "linger" ELSE "idle"
  BY <1>4, <1>8, <1>9, <1>10, GotoIs
<1>12. Sighted(t)
  BY <1>2, <1>11, StaysSighted DEF Base, SameNet
<1>13. HandlerOK(t) /\ (t.c.pc = "idle" => Waits(t))
  BY <1>2, <1>6, <1>11, <1>12 DEF HandlerOK, Waits, Sighted
<1> QED
  BY <1>2, <1>10, <1>11, <1>12, <1>13 DEF Kept

(* The last one to leave the request ends it. *)
LEMMA FinalizedLast ==
  ASSUME H!HttpConnectionAssumption, NEW s, Base(s), s.r.count = 1, ~s.rev.posted,
         H!Ahead(s) > 0 => ~s.rev.eof
  PROVE  Kept(H!FinalizeConnection(s))
<1>1. Kept(H!Closed(s))
  BY ClosedKept DEF Base
<1>2. CASE s.r.keep
  <2>1. CASE H!Ahead(s) > 0
    BY <1>2, <2>1, PipelinedKept DEF H!FinalizeConnection, H!SetKeepalive
  <2>2. CASE ~(H!Ahead(s) > 0)
    BY <1>2, <2>2, IdleKept DEF H!FinalizeConnection, H!SetKeepalive
  <2> QED
    BY <2>1, <2>2
<1>3. CASE ~s.r.keep /\ (s.r.linger \/ H!Ahead(s) > 0 \/ s.rev.ready)
  BY <1>3, LingerKept DEF H!FinalizeConnection
<1>4. CASE ~s.r.keep /\ ~(s.r.linger \/ H!Ahead(s) > 0 \/ s.rev.ready)
  BY <1>1, <1>4 DEF H!FinalizeConnection, H!CloseRequest
<1> QED
  BY <1>2, <1>3, <1>4

-----------------------------------------------------------------------------
(* The client, events and timers. *)

\* the state after net and rev have changed
LEMMA Moved ==
  ASSUME IInv, NEW w \in Net, NEW v \in Rev, w.read = net.read, w.read <= w.sent,
         w.sent <= Len(stream), net' = w, rev' = v, UNCHANGED <<stream, buf, hc, c, conn_r>>,
         c.pc # "closed", v.event, ~rev.eof, v.eof = rev.eof, v.posted = rev.posted,
         v.timer = rev.timer
  PROVE  IInv'
<1>0. /\ Typed(H!Now) /\ H!Now \in States /\ H!Now.c = c /\ H!Now.r = conn_r /\
           H!Now.buf = buf /\ H!Now.hc = hc
      /\ H!Now.rev = rev /\ Kept(H!Now)
  BY NowParts DEF IInv, Typed
<1>1. PICK t : t = [H!Now EXCEPT !.net = w, !.rev = v]
  OBVIOUS
<1>2. /\ t \in States /\ t.net = w /\ t.rev = v /\ t.c = c /\ t.r = conn_r /\ t.buf = buf /\ t.hc = hc
  BY <1>0, <1>1 DEF States
<1>3. H!Becomes(t)
  BY <1>2 DEF H!Becomes
<1>4. Typed(t)
  BY <1>0, <1>2 DEF Typed
<1>5. Sighted(t)
  BY <1>2 DEF Sighted
<1>6. HandlerOK(t)
  <2>1. HandlerOK(H!Now)
    BY <1>0 DEF Kept
  <2>2. H!Ahead(t) = H!Ahead(H!Now)
    BY <1>0, <1>2 DEF H!Ahead, H!Pos, H!Last_
  <2>3. Answers(H!Now) => Answers(t)
    BY <1>0, <1>2, <2>2 DEF Answers
  <2> QED
    BY <1>0, <1>2, <2>1, <2>3 DEF HandlerOK
<1>7. Waits(H!Now) => Waits(t)
  BY <1>0, <1>2 DEF Waits
<1>8. Kept(t)
  BY <1>0, <1>2, <1>4, <1>5, <1>6, <1>7 DEF Kept
<1> QED
  BY <1>3, <1>8, OnStep

LEMMA ClientStep ==
  ASSUME IInv, H!ClientSends \/ H!ClientCloses
  PROVE  IInv'
<1>0. net \in Net /\ rev \in Rev /\ net.read <= net.sent /\ net.sent <= Len(stream) /\ Kept(H!Now)
      /\ H!Now.net = net /\ H!Now.rev = rev /\ H!Now.c = c
  BY NowParts DEF IInv
<1>1. c.pc # "closed" /\ ~net.fin /\ UNCHANGED <<stream, buf, hc, c, conn_r>>
  BY DEF H!ClientSends, H!ClientCloses
<1>2. ~rev.eof
  BY <1>0, <1>1 DEF Kept, Sighted
<1>3. PICK v : v = [rev EXCEPT !.event = TRUE]
  OBVIOUS
<1>4. /\ v \in Rev /\ v.event /\ v.eof = rev.eof /\ v.posted = rev.posted /\ v.timer = rev.timer
      /\ rev' = v
  BY <1>0, <1>3 DEF Rev, H!ClientSends, H!ClientCloses
<1>5. CASE H!ClientSends
  <2>1. PICK w : w = [net EXCEPT !.sent = @ + 1]
    OBVIOUS
  <2>2. net.sent \in Nat /\ net.read \in Nat /\ net.sent < Len(stream) /\ net' = w
    BY <1>0, <1>5, <2>1 DEF H!ClientSends, Net
  <2>3. Len(stream) \in Nat
    BY NowParts, <1>0, <2>2 DEF IInv, Kept, Typed, States
  <2>4. w \in Net /\ w.read = net.read /\ w.read <= w.sent /\ w.sent <= Len(stream)
    BY <1>0, <2>1, <2>2, <2>3 DEF Net
  <2> QED
    BY <1>1, <1>2, <1>4, <2>2, <2>4, Moved
<1>6. CASE H!ClientCloses
  <2>1. PICK w : w = [net EXCEPT !.fin = TRUE]
    OBVIOUS
  <2>2. w \in Net /\ w.read = net.read /\ w.sent = net.sent /\ net' = w
    BY <1>0, <1>6, <2>1 DEF Net, H!ClientCloses
  <2> QED
    BY <1>0, <1>1, <1>2, <1>4, <2>2, Moved
<1> QED
  BY <1>5, <1>6

LEMMA EventStep ==
  ASSUME IInv, H!Event
  PROVE  IInv'
<1>0. /\ Typed(H!Now) /\ H!Now \in States /\ H!Now.c = c /\ H!Now.r = conn_r /\ H!Now.net = net
      /\ H!Now.rev = rev /\ Kept(H!Now) /\ rev \in Rev /\ c \in Con /\ conn_r \in Request
  BY NowParts DEF IInv, Typed
<1>1. c.pc = "idle" /\ UNCHANGED <<stream, net, buf, hc, conn_r>>
  BY DEF H!Event
<1>2. /\ Sighted(H!Now) /\ HandlerOK(H!Now) /\ Waits(H!Now)
      /\ rev.posted => c.handler \in {"wait", "line", "keepalive"}
  BY <1>0, <1>1 DEF Kept
<1>3. PICK v : v = rev'
  OBVIOUS
<1>4. /\ v \in Rev /\ ~v.posted /\ v.timer = rev.timer /\ v.eof = rev.eof
      /\ \/ v.ready
         \/ v.ready = rev.ready /\ v.event = rev.event
      /\ rev.posted \/ v.ready
  BY <1>0, <1>3 DEF H!Event, Rev
<1>5. PICK k : k = [c EXCEPT !.pc = H!Dispatched]
  OBVIOUS
<1>6. H!Dispatched \in {"idle", "wait", "keepalive", "parse", "body", "discard", "linger"}
      /\ (c.handler \in {"wait", "keepalive", "linger"} => H!Dispatched = c.handler)
      /\ (c.handler \in {"line", "headers"} => H!Dispatched = "parse")
      /\ (c.handler = "request" => H!Dispatched = IF conn_r.reh = "block" THEN "idle" ELSE conn_r.reh)
  <2>1. c.handler \in {"wait", "keepalive", "line", "headers", "request", "linger"}
    BY <1>0, <1>2 DEF HandlerOK
  <2>2. conn_r.reh \in {"block", "body", "discard"}
    BY <1>0 DEF Request
  <2> QED
    BY <2>1, <2>2 DEF H!Dispatched
<1>7. k \in Con /\ k.handler = c.handler /\ k.pc = H!Dispatched /\ c' = k
  BY <1>0, <1>5, <1>6 DEF Con, H!Event
<1>8. PICK t : t = Put(H!Now, v, k, conn_r)
  OBVIOUS
<1>9. /\ Typed(t) /\ t.net = net /\ t.rev = v /\ t.c = k /\ t.r = conn_r /\ t.buf = H!Now.buf
      /\ t.hc = H!Now.hc
  BY <1>0, <1>4, <1>7, <1>8, Made
<1>10. H!Becomes(t)
  BY <1>1, <1>3, <1>7, <1>9, NowParts DEF H!Becomes
<1>11. Sighted(t)
  BY <1>0, <1>2, <1>4, <1>9 DEF Sighted, Outstanding
<1>12. H!Ahead(t) = H!Ahead(H!Now)
  BY <1>0, <1>9 DEF H!Ahead, H!Pos, H!Last_
<1>13. HandlerOK(t) /\ (k.pc = "idle" => Waits(t))
  <2>1. CASE c.handler = "request"
    <3>1. Answers(H!Now)
      BY <1>0, <1>2, <2>1 DEF HandlerOK
    <3>2. ~rev.posted
      BY <1>2, <2>1
    <3>3. CASE conn_r.reh = "block"
      <4>1. k.pc = "idle" /\ conn_r.resp = "on"
        BY <1>0, <1>1, <1>6, <1>7, <2>1, <3>1, <3>3 DEF Answers
      <4>2. Answers(t)
        BY <1>0, <1>4, <1>9, <1>12, <3>1, <3>3, <4>1 DEF Answers
      <4>3. HandlerOK(t)
        BY <1>7, <1>9, <2>1, <4>2 DEF HandlerOK
      <4> QED
        BY <1>9, <3>3, <4>1, <4>3 DEF Waits
    <3>4. CASE conn_r.reh # "block"
      <4>1. k.pc = conn_r.reh /\ k.pc # "idle"
        BY <1>0, <1>6, <1>7, <2>1, <3>4 DEF Request
      <4>2. Answers(t)
        BY <1>0, <1>4, <1>9, <1>12, <3>1, <3>4, <4>1 DEF Answers
      <4> QED
        BY <1>7, <1>9, <2>1, <4>1, <4>2 DEF HandlerOK
    <3> QED
      BY <3>3, <3>4
  <2>2. CASE c.handler # "request"
    BY <1>0, <1>1, <1>2, <1>4, <1>6, <1>7, <1>9, <2>2 DEF HandlerOK
  <2> QED
    BY <2>1, <2>2
<1>14. Kept(t)
  BY <1>4, <1>9, <1>11, <1>13 DEF Kept
<1> QED
  BY <1>10, <1>14, OnStep

-----------------------------------------------------------------------------
(* The header of a request. *)

\* units are read into buffer i, up to pos of it are parsed
Filled(s, i, u)  == [s EXCEPT !.buf[i].data = @ \o u]
Parsed(s, i, pos) == [s EXCEPT !.buf[i].pos = pos]

LEMMA FilledIs ==
  ASSUME NEW s, Typed(s), NEW i \in 0..Num, NEW u \in Seq(Ids)
  PROVE  LET t == Filled(s, i, u)
         IN  /\ Typed(t)
             /\ t.net = s.net /\ t.rev = s.rev /\ t.hc = s.hc /\ t.c = s.c /\ t.r = s.r
<1>0. /\ s \in States /\ s.buf \in [0..Num -> Buf] /\ s.buf[i] \in Buf
      /\ \A j \in 0..Num : s.buf[j].pos <= Len(s.buf[j].data)
  BY DEF Typed, States
<1>1. PICK d : d = s.buf[i].data \o u
  OBVIOUS
<1>2. d \in Seq(Ids) /\ Len(s.buf[i].data) <= Len(d) /\ s.buf[i].pos <= Len(d)
  <2>1. s.buf[i].data \in Seq(Ids) /\ s.buf[i].pos \in Nat
    BY <1>0 DEF Buf
  <2> QED
    BY <1>0, <1>1, <2>1
<1>3. PICK b : b = [s.buf[i] EXCEPT !.data = d]
  OBVIOUS
<1>4. b \in Buf /\ b.data = d /\ b.pos = s.buf[i].pos
  BY <1>0, <1>2, <1>3 DEF Buf
<1>5. PICK a : a = [s.buf EXCEPT ![i] = b]
  OBVIOUS
<1>6. a \in [0..Num -> Buf] /\ \A j \in 0..Num : a[j].pos <= Len(a[j].data)
  BY <1>0, <1>2, <1>4, <1>5
<1>7. PICK t : t = Filled(s, i, u)
  OBVIOUS
<1>8. t = [s EXCEPT !.buf = a]
  BY <1>0, <1>1, <1>3, <1>5, <1>7 DEF Filled, States, Buf
<1>9. /\ t \in States /\ t.net = s.net /\ t.rev = s.rev /\ t.hc = s.hc /\ t.c = s.c /\ t.r = s.r
      /\ t.buf = a
  BY <1>0, <1>6, <1>8 DEF States
<1> QED
  BY <1>6, <1>7, <1>9 DEF Typed

LEMMA ParsedIs ==
  ASSUME NEW s, Typed(s), NEW i \in 0..Num, NEW pos \in Nat, pos <= Len(s.buf[i].data)
  PROVE  LET t == Parsed(s, i, pos)
         IN  /\ Typed(t)
             /\ t.net = s.net /\ t.rev = s.rev /\ t.hc = s.hc /\ t.c = s.c /\ t.r = s.r
             /\ t.buf[i].pos = pos /\ t.buf[i].data = s.buf[i].data
<1>0. /\ s \in States /\ s.buf \in [0..Num -> Buf] /\ s.buf[i] \in Buf
      /\ \A j \in 0..Num : s.buf[j].pos <= Len(s.buf[j].data)
  BY DEF Typed, States
<1>3. PICK b : b = [s.buf[i] EXCEPT !.pos = pos]
  OBVIOUS
<1>4. b \in Buf /\ b.data = s.buf[i].data /\ b.pos = pos
  BY <1>0, <1>3 DEF Buf
<1>5. PICK a : a = [s.buf EXCEPT ![i] = b]
  OBVIOUS
<1>6. /\ a \in [0..Num -> Buf] /\ \A j \in 0..Num : a[j].pos <= Len(a[j].data)
      /\ a[i] = b
  BY <1>0, <1>4, <1>5
<1>7. PICK t : t = Parsed(s, i, pos)
  OBVIOUS
<1>8. t = [s EXCEPT !.buf = a]
  BY <1>0, <1>3, <1>5, <1>7 DEF Parsed, States
<1>9. /\ t \in States /\ t.net = s.net /\ t.rev = s.rev /\ t.hc = s.hc /\ t.c = s.c /\ t.r = s.r
      /\ t.buf = a
  BY <1>0, <1>6, <1>8 DEF States
<1> QED
  BY <1>4, <1>6, <1>7, <1>9 DEF Typed

LEMMA BaseKept ==
  ASSUME NEW s, NEW t, Base(s), Typed(t), t.net = s.net, t.rev = s.rev
  PROVE  Base(t)
BY StaysSighted DEF Base, SameNet

(* Setting and deleting the timer *)
LEMMA TimerIs ==
  ASSUME NEW s, Typed(s), NEW on \in BOOLEAN
  PROVE  LET t == [s EXCEPT !.rev.timer = on]
         IN  /\ Typed(t) /\ SameNet(s, t)
             /\ t.rev.timer = on /\ t.rev.posted = s.rev.posted
             /\ t.buf = s.buf /\ t.hc = s.hc /\ t.c = s.c /\ t.r = s.r
<1>0. s \in States /\ s.rev \in Rev /\ s.c \in Con /\ s.r \in Request
  BY StateParts
<1>1. PICK v : v = [s.rev EXCEPT !.timer = on]
  OBVIOUS
<1>2. /\ v \in Rev /\ v.timer = on /\ v.posted = s.rev.posted
      /\ v.ready = s.rev.ready /\ v.event = s.rev.event /\ v.eof = s.rev.eof
  BY <1>0, <1>1 DEF Rev
<1>3. PICK t : t = [s EXCEPT !.rev.timer = on]
  OBVIOUS
<1>4. t = Put(s, v, s.c, s.r)
  BY <1>0, <1>1, <1>3 DEF Put, States
<1>5. /\ Typed(t) /\ t.net = s.net /\ t.rev = v /\ t.buf = s.buf /\ t.hc = s.hc /\ t.c = s.c
      /\ t.r = s.r
  BY <1>0, <1>2, <1>4, Made
<1> QED
  BY <1>2, <1>3, <1>5 DEF SameNet

LEMMA SameNetBase ==
  ASSUME NEW s, NEW t, Base(s), Typed(t), SameNet(s, t)
  PROVE  Base(t) /\ (Outstanding(t) <=> Outstanding(s))
BY StaysSighted DEF Base

\* the step of WaitRequest, when recv() has given n units and led to s
Waited(n, s) ==
  CASE n > 0 -> H!Becomes([H!FirstData(s) EXCEPT !.rev.timer = @ /\ c.pc = "wait"])
    [] n = 0 /\ net.fin -> H!Becomes(H!Closed(H!Now))
    [] OTHER -> H!Becomes(H!Goto([s EXCEPT !.rev.timer = TRUE, !.c.reusable = @ \/ ~rev.timer],
                                 "idle"))

LEMMA WaitRequestStep ==
  ASSUME H!HttpConnectionAssumption, IInv, H!WaitRequest
  PROVE  IInv'
<1>0. /\ Base(H!Now) /\ H!Now.net = net /\ H!Now.rev = rev /\ H!Now.c = c /\ H!Now.r = conn_r
      /\ c \in Con /\ rev \in Rev /\ net \in Net
      /\ ~rev.posted /\ c.handler = c.pc /\ c.handler \in {"wait", "keepalive"} /\ Fresh(conn_r)
  BY NowParts DEF H!WaitRequest, IInv, Kept, HandlerOK, Base, Answers
<1>1. PICK n : n = H!Arrived(HeaderSize)
  OBVIOUS
<1>2. /\ n \in Nat /\ net.read + n <= net.sent /\ (n = 0 => net.read = net.sent)
  <2>1. HeaderSize \in Nat /\ HeaderSize > 0
    BY DEF H!HttpConnectionAssumption
  <2> QED
    BY <1>0, <1>1, <2>1, Arrival DEF Base
<1>3. PICK f : f = Filled(H!Now, 0, H!Received(n))
  OBVIOUS
<1>4. Base(f) /\ f.net = net /\ f.rev = rev /\ f.c = c /\ f.r = conn_r
  <2>1. 0 \in 0..Num
    BY DEF H!HttpConnectionAssumption
  <2>2. H!Received(n) \in Seq(Ids)
    BY <1>0, <1>2, ReceivedUnits DEF Base
  <2>3. Typed(f) /\ f.net = net /\ f.rev = rev /\ f.c = c /\ f.r = conn_r
    BY <1>0, <1>3, <2>1, <2>2, FilledIs DEF Base
  <2> QED
    BY <1>0, <2>3, BaseKept
<1>5. PICK s : s = H!Recv(f, n)
  OBVIOUS
<1>6. /\ Base(s) /\ s.rev.timer = rev.timer /\ s.rev.posted = rev.posted
      /\ (s.rev.eof <=> rev.eof \/ (n = 0 /\ net.fin)) /\ (n = 0 => ~Outstanding(s))
      /\ s.c = c /\ s.r = conn_r
  BY <1>0, <1>2, <1>4, <1>5, RecvKeeps DEF Base
<1>7. s \in States /\ s.rev \in Rev /\ s.c \in Con /\ s.r \in Request
  BY <1>6, StateParts DEF Base
<1>8. \/ n > 0 /\ H!Becomes([H!FirstData(s) EXCEPT !.rev.timer = @ /\ c.pc = "wait"])
      \/ n = 0 /\ net.fin /\ H!Becomes(H!Closed(H!Now))
      \/ n = 0 /\ ~net.fin
         /\ H!Becomes(H!Goto([s EXCEPT !.rev.timer = TRUE, !.c.reusable = @ \/ ~rev.timer], "idle"))
  <2>1. LET m == H!Arrived(HeaderSize)
        IN  Waited(m, H!Recv(Filled(H!Now, 0, H!Received(m)), m))
    BY Zenon DEF H!WaitRequest, Waited, Filled
  <2>2. Waited(n, s)
    BY <1>1, <1>3, <1>5, <2>1
  <2> QED
    BY <1>2, <2>2 DEF Waited
<1>9. CASE n > 0 /\ H!Becomes([H!FirstData(s) EXCEPT !.rev.timer = @ /\ c.pc = "wait"])
  <2>1. PICK k : k = [s.c EXCEPT !.reusable = FALSE]
    OBVIOUS
  <2>2. k \in Con
    BY <1>7, <2>1 DEF Con
  <2>3. PICK d : d = Put(s, s.rev, k, s.r)
    OBVIOUS
  <2>4. Typed(d) /\ d.net = s.net /\ d.rev = s.rev
    BY <1>6, <1>7, <2>2, <2>3, Made DEF Base
  <2>5. d = [s EXCEPT !.c.reusable = FALSE]
    BY <1>7, <2>1, <2>3 DEF Put, States
  <2>6. PICK e : e = H!FirstData(s)
    OBVIOUS
  <2>7. /\ Typed(e) /\ e.net = s.net /\ e.rev = s.rev /\ e.c.handler = "line" /\ e.c.pc = "parse"
        /\ Fresh(e.r)
    <3>1. e = H!Goto(H!CreateRequest(d), "parse")
      BY <2>5, <2>6 DEF H!FirstData
    <3>2. PICK g : g = H!CreateRequest(d)
      OBVIOUS
    <3>3. Typed(g) /\ g.net = s.net /\ g.rev = s.rev /\ g.c.handler = "line" /\ Fresh(g.r)
      BY <2>4, <3>2, CreatedFresh
    <3> QED
      BY <3>1, <3>2, <3>3, GotoIs
  <2>8. PICK b \in BOOLEAN : b = (e.rev.timer /\ c.pc = "wait")
    OBVIOUS
  <2>9. PICK t : t = [e EXCEPT !.rev.timer = b]
    OBVIOUS
  <2>10. H!Becomes(t)
    <3>1. e \in States /\ e.rev \in Rev
      BY <2>7, StateParts
    <3> QED
      BY <1>9, <2>6, <2>8, <2>9, <3>1 DEF States, Rev
  <2>11. /\ Typed(t) /\ SameNet(e, t) /\ t.rev.posted = e.rev.posted /\ t.c = e.c /\ t.r = e.r
    BY <2>7, <2>9, TimerIs
  <2>12. Base(t)
    <3>1. Base(e)
      BY <1>6, <2>7, BaseKept
    <3> QED
      BY <2>11, <3>1, SameNetBase
  <2>13. ~t.rev.eof
    <3>1. ~rev.eof
      BY <1>0, <1>2, <1>9 DEF Base, Sighted, Net
    <3> QED
      BY <1>6, <1>9, <2>7, <2>11, <3>1 DEF SameNet
  <2>14. Kept(t)
    BY <1>0, <1>6, <2>7, <2>11, <2>12, <2>13 DEF Kept, Base, HandlerOK
  <2> QED
    BY <2>10, <2>14, OnStep
<1>10. CASE n = 0 /\ net.fin /\ H!Becomes(H!Closed(H!Now))
  BY <1>10, Closes
<1>11. CASE n = 0 /\ ~net.fin
            /\ H!Becomes(H!Goto([s EXCEPT !.rev.timer = TRUE, !.c.reusable = @ \/
                 ~rev.timer], "idle"))
  <2>1. PICK k : k = [s.c EXCEPT !.reusable = @ \/ ~rev.timer]
    OBVIOUS
  <2>2. k \in Con /\ k.handler = c.handler
    BY <1>6, <1>7, <2>1 DEF Con
  <2>3. PICK v : v = [s.rev EXCEPT !.timer = TRUE]
    OBVIOUS
  <2>4. /\ v \in Rev /\ v.timer /\ v.posted = s.rev.posted /\ v.ready = s.rev.ready
        /\ v.event = s.rev.event /\ v.eof = s.rev.eof
    BY <1>7, <2>3 DEF Rev
  <2>5. PICK d : d = Put(s, v, k, s.r)
    OBVIOUS
  <2>6. Typed(d) /\ d.net = s.net /\ d.rev = v /\ d.c = k /\ d.r = conn_r
    BY <1>6, <1>7, <2>2, <2>4, <2>5, Made DEF Base
  <2>7. d = [s EXCEPT !.rev.timer = TRUE, !.c.reusable = @ \/ ~rev.timer]
    BY <1>7, <2>1, <2>3, <2>5 DEF Put, States
  <2>8. PICK t : t = H!Goto(d, "idle")
    OBVIOUS
  <2>9. /\ Typed(t) /\ t.net = s.net /\ t.rev = v /\ t.c.pc = "idle" /\ t.c.handler = c.handler
        /\ t.r = conn_r
    BY <2>2, <2>6, <2>8, GotoIs
  <2>10. Base(t) /\ ~Outstanding(t)
    BY <1>6, <1>11, <2>4, <2>9, SameNetBase DEF SameNet
  <2>11. Kept(t)
    BY <1>0, <1>6, <2>4, <2>9, <2>10 DEF Kept, Base, HandlerOK, Waits
  <2> QED
    BY <1>11, <2>7, <2>8, <2>11, OnStep
<1> QED
  BY <1>8, <1>9, <1>10, <1>11

(* Within a header: all that counts is that no event is lost. *)
LEMMA StillParsing ==
  ASSUME NEW t, Base(t), ~t.rev.eof, ~t.rev.posted, Fresh(t.r),
         t.c.handler \in {"line", "headers"}, t.c.pc \in {"parse", "handle"},
         t.c.pc = "handle" => t.buf[t.r.in].pos > 0
  PROVE  Kept(t)
BY DEF Kept, Base, HandlerOK

LEMMA ParsingNow ==
  ASSUME IInv, c.pc \in {"parse", "handle"}
  PROVE  /\ Base(H!Now) /\ ~rev.eof /\ ~rev.posted /\ Fresh(conn_r) /\
              c.handler \in {"line", "headers"}
         /\ c.pc = "handle" => H!Pos(H!Now) > 0
         /\ H!Now.net = net /\ H!Now.rev = rev /\ H!Now.c = c /\ H!Now.r = conn_r /\ H!Now.buf = buf
         /\ H!Now.hc = hc
BY NowParts DEF IInv, Kept, Base, HandlerOK, Answers, H!Pos

LEMMA ParseUnitStep ==
  ASSUME IInv, H!ParseUnit
  PROVE  IInv'
<1>0. /\ Base(H!Now) /\ ~rev.eof /\ ~rev.posted /\ Fresh(conn_r) /\ c.handler \in {"line", "headers"}
      /\ H!Now.net = net /\ H!Now.rev = rev /\ H!Now.c = c /\ H!Now.r = conn_r /\
           H!Now.buf = buf /\ H!Now.hc = hc
      /\ c.pc = "parse" /\ H!Ahead(H!Now) > 0
  BY ParsingNow DEF H!ParseUnit, H!Parsing
<1>1. /\ H!Now \in States /\ rev \in Rev /\ c \in Con /\ conn_r \in Request
      /\ H!Pos(H!Now) \in Nat /\ H!Last_(H!Now) \in Nat /\ H!Pos(H!Now) + 1 <= H!Last_(H!Now) /\
           conn_r.in \in 0..Num
      /\ buf \in [0..Num -> Buf]
  BY <1>0, StateParts DEF Base
<1>2. PICK p : p = H!Pos(H!Now) + 1
  OBVIOUS
<1>3. p \in Nat /\ p > 0 /\ p <= Len(H!Now.buf[conn_r.in].data) /\ buf[conn_r.in] \in Buf
  BY <1>0, <1>1, <1>2 DEF H!Last_
<1>4. PICK s : s = Parsed(H!Now, conn_r.in, p)
  OBVIOUS
<1>5. /\ Typed(s) /\ s.net = net /\ s.rev = rev /\ s.c = c /\ s.r = conn_r /\ s.buf[conn_r.in].pos = p
  <2>1. Typed(H!Now) /\ conn_r.in \in 0..Num /\ p \in Nat /\ p <= Len(H!Now.buf[conn_r.in].data)
    BY <1>0, <1>1, <1>3 DEF Base
  <2>2. /\ Typed(s) /\ s.net = H!Now.net /\ s.rev = H!Now.rev /\ s.c = H!Now.c /\ s.r = H!Now.r
        /\ s.buf[conn_r.in].pos = p
    BY <1>4, <2>1, ParsedIs
  <2> QED
    BY <1>0, <2>2
<1>6. s = [H!Now EXCEPT !.buf[conn_r.in].pos = @ + 1]
  BY <1>0, <1>1, <1>2, <1>3, <1>4 DEF Parsed, H!Pos, States, Buf
<1>7. Base(s) /\ s \in States
  BY <1>0, <1>5, BaseKept DEF Typed
<1>8. PICK from : from = IF conn_r.partial THEN conn_r.start ELSE H!Pos(H!Now)
  OBVIOUS
<1>9. PICK line : line = [buf |-> conn_r.in, lo |-> from + 1, hi |-> H!Pos(H!Now) + 1]
  OBVIOUS
<1>10. from \in Nat /\ line \in Line
  <2>1. from \in Nat
    BY <1>1, <1>8 DEF Request
  <2> QED
    BY <1>1, <1>9, <2>1 DEF Line
<1>11. \/ H!Becomes(s)
       \/ H!Becomes(H!Goto([s EXCEPT !.r.partial = FALSE], "handle"))
       \/ H!Becomes([s EXCEPT !.r.partial = FALSE, !.r.lines = Append(@, line),
                              !.c.handler = "headers"])
       \/ H!Becomes([s EXCEPT !.r.partial = TRUE, !.r.start = from])
  BY <1>6, <1>8, <1>9 DEF H!ParseUnit
<1>12. CASE H!Becomes(s)
  <2>1. Kept(s)
    BY <1>0, <1>5, <1>7, StillParsing
  <2> QED
    BY <1>12, <2>1, OnStep
<1>13. CASE H!Becomes(H!Goto([s EXCEPT !.r.partial = FALSE], "handle"))
  <2>1. PICK q : q = [conn_r EXCEPT !.partial = FALSE]
    OBVIOUS
  <2>2. q \in Request /\ q.in = conn_r.in
    BY <1>1, <2>1 DEF Request
  <2>3. Fresh(q)
    BY <1>0, <1>1, <2>1 DEF Request, Fresh
  <2>4. PICK d : d = Put(s, rev, c, q)
    OBVIOUS
  <2>5. /\ Typed(d) /\ d.net = net /\ d.rev = rev /\ d.c = c /\ d.r = q /\ d.buf = s.buf
    BY <1>1, <1>5, <2>2, <2>4, Made
  <2>6. d = [s EXCEPT !.r.partial = FALSE]
    BY <1>5, <1>7, <2>1, <2>4 DEF Put, States
  <2>7. PICK t : t = H!Goto(d, "handle")
    OBVIOUS
  <2>8. /\ Typed(t) /\ t.net = net /\ t.rev = rev /\ t.c.handler = c.handler /\ t.c.pc = "handle"
        /\ t.r = q /\ t.buf = s.buf
    BY <2>5, <2>7, GotoIs
  <2>9. Base(t)
    BY <1>5, <1>7, <2>8, BaseKept
  <2>10. Kept(t)
    BY <1>0, <1>3, <1>5, <2>2, <2>3, <2>8, <2>9, StillParsing
  <2> QED
    BY <1>13, <2>6, <2>7, <2>10, OnStep
<1>14. CASE H!Becomes([s EXCEPT !.r.partial = FALSE, !.r.lines = Append(@, line),
                                !.c.handler = "headers"])
  <2>0. PICK l : l = Append(conn_r.lines, line)
    OBVIOUS
  <2>1. PICK q : q = [conn_r EXCEPT !.partial = FALSE, !.lines = l]
    OBVIOUS
  <2>a. l \in Seq(Line)
    BY <1>1, <1>10, <2>0 DEF Request
  <2>2. q \in Request
    BY <1>1, <2>1, <2>a DEF Request
  <2>3. Fresh(q)
    BY <1>0, <1>1, <2>1 DEF Request, Fresh
  <2>4. PICK k : k = [c EXCEPT !.handler = "headers"]
    OBVIOUS
  <2>5. k \in Con /\ k.handler = "headers" /\ k.pc = "parse"
    BY <1>0, <1>1, <2>4 DEF Con
  <2>6. PICK t : t = Put(s, rev, k, q)
    OBVIOUS
  <2>7. Typed(t) /\ t.net = net /\ t.rev = rev /\ t.c = k /\ t.r = q
    BY <1>1, <1>5, <2>2, <2>5, <2>6, Made
  <2>8. t = [s EXCEPT !.r.partial = FALSE, !.r.lines = Append(@, line), !.c.handler = "headers"]
    BY <1>1, <1>5, <1>7, <2>0, <2>1, <2>4, <2>6 DEF Put, States, Request
  <2>9. Base(t)
    BY <1>5, <1>7, <2>7, BaseKept
  <2>10. Kept(t)
    BY <1>0, <2>3, <2>5, <2>7, <2>9, StillParsing
  <2> QED
    BY <1>14, <2>8, <2>10, OnStep
<1>15. CASE H!Becomes([s EXCEPT !.r.partial = TRUE, !.r.start = from])
  <2>1. PICK q : q = [conn_r EXCEPT !.partial = TRUE, !.start = from]
    OBVIOUS
  <2>2. q \in Request
    BY <1>1, <1>10, <2>1 DEF Request
  <2>3. Fresh(q)
    BY <1>0, <1>1, <2>1 DEF Request, Fresh
  <2>4. PICK t : t = Put(s, rev, c, q)
    OBVIOUS
  <2>5. Typed(t) /\ t.net = net /\ t.rev = rev /\ t.c = c /\ t.r = q
    BY <1>1, <1>5, <2>2, <2>4, Made
  <2>6. t = [s EXCEPT !.r.partial = TRUE, !.r.start = from]
    BY <1>5, <1>7, <2>1, <2>4 DEF Put, States
  <2>7. Base(t)
    BY <1>5, <1>7, <2>5, BaseKept
  <2>8. Kept(t)
    BY <1>0, <2>3, <2>5, <2>7, StillParsing
  <2> QED
    BY <1>15, <2>6, <2>8, OnStep
<1> QED
  BY <1>11, <1>12, <1>13, <1>14, <1>15

\* the same for ReadHeader
HeaderRead(n, s) ==
  CASE n > 0 -> H!Becomes([s EXCEPT !.buf[conn_r.in].data = @ \o H!Received(n)])
    [] n = 0 /\ s.rev.eof -> H!Becomes(H!Closed(H!Now))
    [] OTHER -> H!Becomes(H!Goto([s EXCEPT !.rev.timer = TRUE], "idle"))

LEMMA ReadHeaderStep ==
  ASSUME H!HttpConnectionAssumption, IInv, H!ReadHeader
  PROVE  IInv'
<1>0. /\ Base(H!Now) /\ ~rev.eof /\ ~rev.posted /\ Fresh(conn_r) /\ c.handler \in {"line", "headers"}
      /\ H!Now.net = net /\ H!Now.rev = rev /\ H!Now.c = c /\ H!Now.r = conn_r /\
           H!Now.buf = buf /\ H!Now.hc = hc
      /\ c.pc = "parse" /\ H!Last_(H!Now) < H!End(H!Now) /\ net \in Net /\ rev \in Rev
  BY ParsingNow, NowParts DEF H!ReadHeader, H!Parsing
<1>1. /\ H!Last_(H!Now) \in Nat /\ conn_r.in \in 0..Num /\ buf \in [0..Num -> Buf]
  BY <1>0, StateParts DEF Base
<1>2. PICK size : size = H!End(H!Now) - H!Last_(H!Now)
  OBVIOUS
<1>3. size \in Nat /\ size > 0
  <2>1. H!End(H!Now) \in Nat
    BY DEF H!End, H!HttpConnectionAssumption
  <2> QED
    BY <1>0, <1>1, <1>2, <2>1
<1>4. PICK n : n = IF rev.ready THEN H!Arrived(size) ELSE 0
  OBVIOUS
<1>5. /\ n \in Nat /\ net.read + n <= net.sent /\ (rev.ready /\ n = 0 => net.read = net.sent)
      /\ n > 0 => rev.ready
  <2>1. /\ H!Arrived(size) \in Nat /\ net.read + H!Arrived(size) <= net.sent
        /\ (H!Arrived(size) = 0 => net.read = net.sent)
    BY <1>0, <1>3, Arrival DEF Base
  <2>2. net.read \in Nat /\ net.sent \in Nat /\ net.read <= net.sent
    BY <1>0 DEF Net, Base, Typed
  <2> QED
    BY <1>4, <2>1, <2>2
<1>6. PICK s : s = IF rev.ready THEN H!Recv(H!Now, n) ELSE H!Now
  OBVIOUS
<1>7. /\ Base(s) /\ s.c = c /\ s.r = conn_r /\ s.buf = buf /\ s.rev.posted = rev.posted
      /\ n > 0 => ~s.rev.eof
      /\ n = 0 => ~s.rev.ready
  <2>1. CASE rev.ready
    <3>1. s = H!Recv(H!Now, n)
      BY <1>6, <2>1
    <3> QED
      BY <1>0, <1>5, <2>1, <3>1, RecvKeeps DEF Base
  <2>2. CASE ~rev.ready
    BY <1>0, <1>5, <1>6, <2>2
  <2> QED
    BY <2>1, <2>2
<1>8. \/ n > 0 /\ H!Becomes([s EXCEPT !.buf[conn_r.in].data = @ \o H!Received(n)])
      \/ H!Becomes(H!Closed(H!Now))
      \/ n = 0 /\ ~s.rev.eof /\ H!Becomes(H!Goto([s EXCEPT !.rev.timer = TRUE], "idle"))
  <2>1. LET m == IF rev.ready THEN H!Arrived(H!End(H!Now) - H!Last_(H!Now)) ELSE 0
        IN  HeaderRead(m, IF rev.ready THEN H!Recv(H!Now, m) ELSE H!Now)
    BY Zenon DEF H!ReadHeader, HeaderRead
  <2>2. HeaderRead(n, s)
    BY <1>2, <1>4, <1>6, <2>1
  <2> QED
    BY <1>5, <2>2 DEF HeaderRead
<1>9. CASE n > 0 /\ H!Becomes([s EXCEPT !.buf[conn_r.in].data = @ \o H!Received(n)])
  <2>1. PICK t : t = Filled(s, conn_r.in, H!Received(n))
    OBVIOUS
  <2>2. H!Received(n) \in Seq(Ids)
    BY <1>0, <1>5, ReceivedUnits DEF Base
  <2>3. Typed(t) /\ t.net = s.net /\ t.rev = s.rev /\ t.c = c /\ t.r = conn_r
    BY <1>1, <1>7, <2>1, <2>2, FilledIs DEF Base
  <2>4. Base(t)
    BY <1>7, <2>3, BaseKept
  <2>5. Kept(t)
    BY <1>0, <1>7, <1>9, <2>3, <2>4, StillParsing
  <2> QED
    BY <1>9, <2>1, <2>5, OnStep DEF Filled
<1>10. CASE n = 0 /\ ~s.rev.eof /\ H!Becomes(H!Goto([s EXCEPT !.rev.timer = TRUE], "idle"))
  <2>1. PICK d : d = [s EXCEPT !.rev.timer = TRUE]
    OBVIOUS
  <2>2. /\ Typed(d) /\ SameNet(s, d) /\ d.rev.timer /\ d.c = c /\ d.r = conn_r
        /\ d.rev.posted = s.rev.posted
    BY <1>7, <2>1, TimerIs DEF Base
  <2>3. PICK t : t = H!Goto(d, "idle")
    OBVIOUS
  <2>4. /\ Typed(t) /\ t.net = d.net /\ t.rev = d.rev /\ t.c.pc = "idle" /\ t.r = conn_r
        /\ t.c.handler = c.handler
    BY <2>2, <2>3, GotoIs
  <2>5. Base(t) /\ SameNet(s, t)
    BY <1>7, <2>2, <2>4, SameNetBase DEF SameNet
  <2>6. Waits(t)
    BY <1>7, <1>10, <2>2, <2>4, <2>5 DEF Waits, Base, Sighted, SameNet
  <2>7. HandlerOK(t)
    BY <1>0, <1>10, <2>4, <2>5 DEF HandlerOK, SameNet
  <2>8. Kept(t)
    BY <1>0, <1>7, <2>2, <2>4, <2>5, <2>6, <2>7 DEF Kept, Base
  <2> QED
    BY <1>10, <2>1, <2>3, <2>8, OnStep
<1> QED
  BY <1>8, <1>9, <1>10, Closes

(* ngx_http_alloc_large_header_buffer() finds a buffer that is neither busy nor free. *)
LEMMA Smallest ==
  ASSUME NEW S \in SUBSET Nat, S # {}
  PROVE  H!Min(S) \in S
<1>1. PICK x \in S : \A y \in S : ~ (<<y, x>> \in OpToRel(<, Nat))
  BY WFMin, NatLessThanWellFounded
<1>2. ASSUME NEW y \in S PROVE x <= y
  <2>1. x \in Nat /\ y \in Nat /\ ~ (y < x)
    BY <1>1 DEF OpToRel
  <2> QED
    BY <2>1
<1> QED
  BY <1>2 DEF H!Min

LEMMA LargeBufferIs ==
  ASSUME H!HttpConnectionAssumption, hc \in Hc, H!HasLarge
  PROVE  H!LargeBuffer \in 1..Num
<1>0. Num \in Nat /\ hc.busy \in Seq(1..Num) /\ hc.free \in Seq(1..Num)
  BY DEF H!HttpConnectionAssumption, Hc
<1>1. CASE hc.free # <<>>
  <2>1. Len(hc.free) \in 1..Len(hc.free)
    BY <1>0, <1>1
  <2> QED
    BY <1>0, <1>1, <2>1 DEF H!LargeBuffer, H!Last
<1>2. CASE hc.free = <<>>
  <2> DEFINE T == {hc.busy[i] : i \in DOMAIN hc.busy}
             n == Len(hc.busy)
  <2>1. n \in Nat /\ n < Num /\ DOMAIN hc.busy = 1..n
    BY <1>0, <1>2 DEF H!HasLarge
  <2>2. hc.busy \in Surjection(1..n, T)
    <3>1. hc.busy \in [1..n -> T]
      BY <1>0, <2>1
    <3>2. \A t \in T : \E i \in 1..n : hc.busy[i] = t
      BY <2>1
    <3> QED
      BY <3>1, <3>2 DEF Surjection
  <2> HIDE DEF T, n
  <2>3. IsFiniteSet(1..n) /\ Cardinality(1..n) = n /\ IsFiniteSet(1..Num)
        /\ Cardinality(1..Num) = Num
    <3>1. \A m \in Nat : m \in Int /\ 1 \in Int /\ (IF 1 > m THEN 0 ELSE m - 1 + 1) = m
      OBVIOUS
    <3>2. \A m \in Nat : IsFiniteSet(1..m) /\ Cardinality(1..m) = m
      BY <3>1, FS_Interval
    <3> QED
      BY <1>0, <2>1, <3>2
  <2>4. IsFiniteSet(T) /\ Cardinality(T) <= n
    BY <2>2, <2>3, FS_Surjection
  <2>5. (1..Num) \ T # {}
    <3> SUFFICES ASSUME (1..Num) \ T = {} PROVE FALSE
      OBVIOUS
    <3>1. 1..Num \in SUBSET T
      OBVIOUS
    <3>2. Cardinality(1..Num) <= Cardinality(T)
      BY <2>4, <3>1, FS_Subset
    <3>3. Cardinality(T) \in Nat
      BY <2>4, FS_CardinalityType
    <3>4. PICK m \in Nat : m = Cardinality(T)
      BY <3>3
    <3>5. Num <= m /\ m <= n
      BY <2>3, <2>4, <3>2, <3>4
    <3> QED
      BY <1>0, <2>1, <3>4, <3>5
  <2>6. H!Min((1..Num) \ T) \in (1..Num) \ T
    <3>1. PICK S : S = (1..Num) \ T
      OBVIOUS
    <3>2. S \in SUBSET Nat /\ S # {}
      BY <1>0, <2>5, <3>1
    <3> QED
      BY <3>1, <3>2, Smallest
  <2> QED
    BY <1>2, <2>6 DEF H!LargeBuffer, T, n
<1> QED
  BY <1>1, <1>2

\* buffer i becomes b
Rebuffered(s, i, b) == [s EXCEPT !.buf[i] = b]

LEMMA RebufferedIs ==
  ASSUME NEW s, Typed(s), NEW i \in 0..Num, NEW b \in Buf, b.pos <= Len(b.data)
  PROVE  LET t == Rebuffered(s, i, b)
         IN  Typed(t) /\ t.net = s.net /\ t.rev = s.rev /\ t.hc = s.hc /\ t.c = s.c /\ t.r = s.r
<1>0. /\ s \in States /\ s.buf \in [0..Num -> Buf]
      /\ \A j \in 0..Num : s.buf[j].pos <= Len(s.buf[j].data)
  BY DEF Typed, States
<1>1. PICK a : a = [s.buf EXCEPT ![i] = b]
  OBVIOUS
<1>2. a \in [0..Num -> Buf] /\ \A j \in 0..Num : a[j].pos <= Len(a[j].data)
  BY <1>0, <1>1
<1>3. PICK t : t = Rebuffered(s, i, b)
  OBVIOUS
<1>4. t = [s EXCEPT !.buf = a]
  BY <1>0, <1>1, <1>3 DEF Rebuffered, States
<1>5. /\ t \in States /\ t.net = s.net /\ t.rev = s.rev /\ t.hc = s.hc /\ t.c = s.c /\ t.r = s.r
      /\ t.buf = a
  BY <1>0, <1>2, <1>4 DEF States
<1> QED
  BY <1>2, <1>3, <1>5 DEF Typed

LEMMA TakenIs ==
  ASSUME NEW s, Typed(s), NEW b \in 1..Num
  PROVE  LET t == H!Taken(s, b)
         IN  /\ Typed(t) /\ t.net = s.net /\ t.rev = s.rev /\ t.buf = s.buf /\ t.c = s.c
             /\ Fresh(s.r) => Fresh(t.r)
<1>0. s \in States /\ s.hc \in Hc /\ s.r \in Request
  BY StateParts
<1>1. PICK busy : busy = Append(s.hc.busy, b)
  OBVIOUS
<1>2. PICK free : free = IF s.hc.free = <<>> THEN s.hc.free ELSE H!Front(s.hc.free)
  OBVIOUS
<1>3. busy \in Seq(1..Num) /\ free \in Seq(1..Num) /\ b \in 0..Num
  BY <1>0, <1>1, <1>2, FrontIs DEF Hc
<1>4. PICK h : h = [s.hc EXCEPT !.busy = busy, !.free = free]
  OBVIOUS
<1>5. h \in Hc
  BY <1>0, <1>3, <1>4 DEF Hc
<1>6. PICK q : q = [s.r EXCEPT !.in = b]
  OBVIOUS
<1>7. q \in Request
  BY <1>0, <1>3, <1>6 DEF Request
<1>8. Fresh(s.r) => Fresh(q)
  BY <1>0, <1>6 DEF Request, Fresh
<1>9. PICK t : t = H!Taken(s, b)
  OBVIOUS
<1>10. t = [s EXCEPT !.hc = h, !.r = q]
  BY <1>0, <1>1, <1>2, <1>4, <1>6, <1>9 DEF H!Taken, States, Hc
<1>11. /\ t \in States /\ t.net = s.net /\ t.rev = s.rev /\ t.buf = s.buf /\ t.c = s.c /\ t.r = q
  BY <1>0, <1>5, <1>7, <1>10 DEF States
<1> QED
  BY <1>8, <1>9, <1>11 DEF Typed

LEMMA ErrorPageKept ==
  ASSUME NEW s, Base(s), ~s.rev.eof, ~s.rev.posted, Fresh(s.r)
  PROVE  Kept(H!ErrorPage(s))
<1>0. Typed(s) /\ s \in States /\ s.rev \in Rev /\ s.c \in Con /\ s.r \in Request
  BY StateParts DEF Base
<1>1. PICK v : v = [s.rev EXCEPT !.timer = FALSE]
  OBVIOUS
<1>2. /\ v \in Rev /\ v.posted = s.rev.posted
      /\ v.ready = s.rev.ready /\ v.event = s.rev.event /\ v.eof = s.rev.eof
  BY <1>0, <1>1 DEF Rev
<1>3. PICK k : k = [s.c EXCEPT !.handler = "request"]
  OBVIOUS
<1>4. k \in Con /\ k.handler = "request"
  BY <1>0, <1>3 DEF Con
<1>5. PICK q : q = [s.r EXCEPT !.keep = FALSE, !.resp = "on", !.valid = FALSE]
  OBVIOUS
<1>6. q \in Request
  BY <1>0, <1>5 DEF Request
<1>7. q.resp = "on" /\ q.reh = "block" /\ q.count = 1 /\ q.left = 0
  BY <1>0, <1>5 DEF Request, Fresh
<1>8. PICK d : d = Put(s, v, k, q)
  OBVIOUS
<1>9. Typed(d) /\ d.net = s.net /\ d.rev = v /\ d.c = k /\ d.r = q
  BY <1>0, <1>2, <1>4, <1>6, <1>8, Made
<1>10. H!ErrorPage(s) = H!Goto(d, "idle")
  BY <1>0, <1>1, <1>3, <1>5, <1>8 DEF H!ErrorPage, Put, States
<1>11. PICK t : t = H!ErrorPage(s)
  OBVIOUS
<1>12. /\ Typed(t) /\ t.net = s.net /\ t.rev = v /\ t.r = q /\ t.c.handler = "request"
       /\ t.c.pc = "idle"
  BY <1>4, <1>9, <1>10, <1>11, GotoIs
<1>13. Sighted(t)
  BY <1>2, <1>12, StaysSighted DEF Base, SameNet
<1>14. Answers(t) /\ Waits(t)
  BY <1>2, <1>7, <1>12 DEF Answers, Waits
<1> QED
  BY <1>2, <1>11, <1>12, <1>13, <1>14 DEF Kept, HandlerOK

LEMMA AllocLargeStep ==
  ASSUME H!HttpConnectionAssumption, IInv, H!AllocLarge
  PROVE  IInv'
<1>0. /\ Base(H!Now) /\ ~rev.eof /\ ~rev.posted /\ Fresh(conn_r) /\ c.handler \in {"line", "headers"}
      /\ H!Now.net = net /\ H!Now.rev = rev /\ H!Now.c = c /\ H!Now.r = conn_r /\
           H!Now.buf = buf /\ H!Now.hc = hc
      /\ c.pc = "parse" /\ Typed(H!Now)
  BY ParsingNow DEF H!AllocLarge, H!Parsing, Base
<1>1. /\ H!Now \in States /\ rev \in Rev /\ c \in Con /\ conn_r \in Request
      /\ H!Pos(H!Now) \in Nat /\ H!Last_(H!Now) \in Nat /\ H!Pos(H!Now) <= H!Last_(H!Now) /\
           conn_r.in \in 0..Num
      /\ buf \in [0..Num -> Buf] /\ hc \in Hc
  BY <1>0, StateParts
<1>2. PICK piece : piece = H!Content(buf[conn_r.in], conn_r.start + 1, H!Pos(H!Now))
  OBVIOUS
<1>3. piece \in Seq(Ids) /\ Len(piece) \in Nat
  <2>1. buf[conn_r.in] \in Buf /\ conn_r.start \in Nat /\ H!Pos(H!Now) <= Len(buf[conn_r.in].data)
    BY <1>0, <1>1 DEF Request, H!Last_
  <2>2. PICK data \in Seq(Ids) : data = buf[conn_r.in].data
    BY <2>1 DEF Buf
  <2>3. SubSeq(data, conn_r.start + 1, H!Pos(H!Now)) \in Seq(Ids)
    BY <1>1, <2>1, <2>2
  <2> QED
    BY <1>2, <2>2, <2>3 DEF H!Content
<1>4. PICK b : b = [data |-> piece, pos |-> Len(piece)]
  OBVIOUS
<1>5. b \in Buf /\ b.pos <= Len(b.data) /\ H!Empty \in Buf /\ H!Empty.pos <= Len(H!Empty.data)
  BY <1>3, <1>4, EmptyBuffers DEF Buf
<1>6. PICK l : l = H!LargeBuffer
  OBVIOUS
<1>7. PICK a : a = H!Taken(H!Now, l)
  OBVIOUS
<1>8. PICK e : e = [H!Now EXCEPT !.r.linger = c.handler = "headers"]
  OBVIOUS
<1>9. \/ H!Becomes([H!Now EXCEPT !.buf[conn_r.in] = H!Empty])
      \/ H!HasLarge /\ H!Becomes([a EXCEPT !.buf[l] = b, !.r.start = 0])
      \/ H!HasLarge /\ H!Becomes([a EXCEPT !.buf[l] = H!Empty])
      \/ H!Becomes(H!ErrorPage(e))
  BY <1>2, <1>4, <1>6, <1>7, <1>8 DEF H!AllocLarge
<1>10. H!HasLarge => l \in 1..Num /\ l \in 0..Num
  BY <1>1, <1>6, LargeBufferIs
<1>11. H!HasLarge => /\ Typed(a) /\ a.net = net /\ a.rev = rev /\ a.buf = buf /\ a.c = c
                     /\ Fresh(a.r)
  BY <1>0, <1>7, <1>10, TakenIs
<1>12. CASE H!Becomes([H!Now EXCEPT !.buf[conn_r.in] = H!Empty])
  <2>1. PICK t : t = Rebuffered(H!Now, conn_r.in, H!Empty)
    OBVIOUS
  <2>2. Typed(t) /\ t.net = net /\ t.rev = rev /\ t.c = c /\ t.r = conn_r
    BY <1>0, <1>1, <1>5, <2>1, RebufferedIs
  <2>3. Kept(t)
    BY <1>0, <2>2, BaseKept, StillParsing
  <2> QED
    BY <1>12, <2>1, <2>3, OnStep DEF Rebuffered
<1>13. CASE H!HasLarge /\ H!Becomes([a EXCEPT !.buf[l] = b, !.r.start = 0])
  <2>1. PICK d : d = Rebuffered(a, l, b)
    OBVIOUS
  <2>2. Typed(d) /\ d.net = net /\ d.rev = rev /\ d.c = c /\ d.r = a.r
    BY <1>5, <1>10, <1>11, <1>13, <2>1, RebufferedIs
  <2>3. d \in States /\ d.r \in Request /\ a \in States
    BY <1>11, <1>13, <2>2, StateParts
  <2>4. PICK q : q = [d.r EXCEPT !.start = 0]
    OBVIOUS
  <2>5. q \in Request
    BY <2>3, <2>4 DEF Request
  <2>6. Fresh(q)
    BY <1>11, <1>13, <2>2, <2>3, <2>4 DEF Request, Fresh
  <2>7. PICK t : t = Put(d, rev, c, q)
    OBVIOUS
  <2>8. Typed(t) /\ t.net = net /\ t.rev = rev /\ t.c = c /\ t.r = q
    BY <1>1, <2>2, <2>5, <2>7, Made
  <2>9. t = [a EXCEPT !.buf[l] = b, !.r.start = 0]
    BY <2>1, <2>2, <2>3, <2>4, <2>7 DEF Put, Rebuffered, States
  <2>10. Kept(t)
    BY <1>0, <2>6, <2>8, BaseKept, StillParsing
  <2> QED
    BY <1>13, <2>9, <2>10, OnStep
<1>14. CASE H!HasLarge /\ H!Becomes([a EXCEPT !.buf[l] = H!Empty])
  <2>1. PICK t : t = Rebuffered(a, l, H!Empty)
    OBVIOUS
  <2>2. Typed(t) /\ t.net = net /\ t.rev = rev /\ t.c = c /\ t.r = a.r
    BY <1>5, <1>10, <1>11, <1>14, <2>1, RebufferedIs
  <2>3. Kept(t)
    BY <1>0, <1>11, <1>14, <2>2, BaseKept, StillParsing
  <2> QED
    BY <1>14, <2>1, <2>3, OnStep DEF Rebuffered
<1>15. CASE H!Becomes(H!ErrorPage(e))
  <2>1. PICK h \in BOOLEAN : h = (c.handler = "headers")
    OBVIOUS
  <2>2. PICK q : q = [conn_r EXCEPT !.linger = h]
    OBVIOUS
  <2>3. q \in Request
    BY <1>1, <2>1, <2>2 DEF Request
  <2>4. Fresh(q)
    BY <1>0, <1>1, <2>2 DEF Request, Fresh
  <2>5. PICK d : d = Put(H!Now, rev, c, q)
    OBVIOUS
  <2>6. Typed(d) /\ d.net = net /\ d.rev = rev /\ d.r = q
    BY <1>0, <1>1, <2>3, <2>5, Made
  <2>7. d = e
    BY <1>0, <1>1, <1>8, <2>1, <2>2, <2>5 DEF Put, States
  <2>8. Kept(H!ErrorPage(e))
    BY <1>0, <2>4, <2>6, <2>7, BaseKept, ErrorPageKept
  <2> QED
    BY <1>15, <2>8, OnStep
<1> QED
  BY <1>9, <1>12, <1>13, <1>14, <1>15

-----------------------------------------------------------------------------
(* The body. *)

\* what the body filters leave as it is
SameRequest(q, p) ==
  /\ p.in = q.in /\ p.chunked = q.chunked /\ p.count = q.count /\ p.resp = q.resp
  /\ p.reh = q.reh /\ p.lt = q.lt /\ p.discard = q.discard /\ p.cap = q.cap

LEMMA FilteredIs ==
  ASSUME NEW s, Typed(s), NEW u \in Seq(Ids), Len(u) <= s.r.left
  PROVE  LET t == H!Filtered(s, u)
         IN  /\ Typed(t)
             /\ t.net = s.net /\ t.rev = s.rev /\ t.buf = s.buf /\ t.hc = s.hc /\ t.c = s.c
             /\ t.r.left = s.r.left - Len(u) /\ t.r.unf = s.r.unf /\ t.r.used = s.r.used
             /\ SameRequest(s.r, t.r)
<1>0. s \in States /\ s.rev \in Rev /\ s.c \in Con /\ s.r \in Request
  BY StateParts
<1>1. PICK l : l = s.r.left - Len(u)
  OBVIOUS
<1>2. l \in Nat
  <2>1. s.r.left \in Nat /\ Len(u) \in Nat
    BY <1>0 DEF Request
  <2> QED
    BY <1>1, <2>1
<1>3. PICK b : b = IF s.r.read THEN s.r.body \o u ELSE s.r.body
  OBVIOUS
<1>4. b \in Seq(Ids)
  BY <1>0, <1>3 DEF Request
<1>5. PICK q : q = [s.r EXCEPT !.left = l, !.body = b]
  OBVIOUS
<1>6. q \in Request
  BY <1>0, <1>2, <1>4, <1>5 DEF Request
<1>7. q.left = l /\ q.unf = s.r.unf /\ q.used = s.r.used /\ SameRequest(s.r, q)
  BY <1>0, <1>5 DEF Request, SameRequest
<1>8. PICK t : t = Put(s, s.rev, s.c, q)
  OBVIOUS
<1>9. /\ Typed(t) /\ t.net = s.net /\ t.rev = s.rev /\ t.buf = s.buf /\ t.hc = s.hc /\ t.c = s.c
      /\ t.r = q
  BY <1>0, <1>6, <1>8, Made
<1>10. t = H!Filtered(s, u)
  BY <1>0, <1>1, <1>3, <1>5, <1>8 DEF Put, H!Filtered, States, Request
<1> QED
  BY <1>1, <1>7, <1>9, <1>10

LEMMA PassedIs ==
  ASSUME NEW s, Typed(s), Len(s.r.unf) <= s.r.left
  PROVE  LET t == H!Passed(s)
         IN  /\ Typed(t)
             /\ t.net = s.net /\ t.rev = s.rev /\ t.buf = s.buf /\ t.hc = s.hc /\ t.c = s.c
             /\ t.r.left = s.r.left - Len(s.r.unf) /\ t.r.unf = <<>> /\ t.r.used = s.r.used
             /\ SameRequest(s.r, t.r)
<1>1. s.r.unf \in Seq(Ids)
  BY StateParts DEF Request
<1>2. PICK f : f = H!Filtered(s, s.r.unf)
  OBVIOUS
<1>3. /\ Typed(f)
      /\ f.net = s.net /\ f.rev = s.rev /\ f.buf = s.buf /\ f.hc = s.hc /\ f.c = s.c
      /\ f.r.left = s.r.left - Len(s.r.unf) /\ f.r.used = s.r.used /\ SameRequest(s.r, f.r)
  BY <1>1, <1>2, FilteredIs
<1>4. f \in States /\ f.rev \in Rev /\ f.c \in Con /\ f.r \in Request
  BY <1>3, StateParts
<1>5. PICK q : q = [f.r EXCEPT !.unf = <<>>]
  OBVIOUS
<1>6. q \in Request
  <2>1. <<>> \in Seq(Ids)
    OBVIOUS
  <2> QED
    BY <1>4, <1>5, <2>1 DEF Request
<1>7. q.left = f.r.left /\ q.unf = <<>> /\ q.used = f.r.used /\ SameRequest(s.r, q)
  BY <1>3, <1>4, <1>5 DEF Request, SameRequest
<1>8. PICK t : t = Put(f, f.rev, f.c, q)
  OBVIOUS
<1>9. /\ Typed(t) /\ t.net = f.net /\ t.rev = f.rev /\ t.buf = f.buf /\ t.hc = f.hc /\ t.c = f.c
      /\ t.r = q
  BY <1>3, <1>4, <1>6, <1>8, Made
<1>10. t = H!Passed(s)
  BY <1>2, <1>4, <1>5, <1>8 DEF Put, H!Passed, States
<1> QED
  BY <1>3, <1>7, <1>9, <1>10

(* The part of the body in header_in: nothing is left there unless the body ends in it. *)
LEMMA PrereadIs ==
  ASSUME NEW s, Typed(s)
  PROVE  LET t == H!PrereadFiltered(s)
         IN  /\ Typed(t)
             /\ t.net = s.net /\ t.rev = s.rev /\ t.hc = s.hc /\ t.c = s.c
             /\ t.r.left \in Nat /\ t.r.unf = s.r.unf /\ t.r.used = s.r.used
             /\ SameRequest(s.r, t.r)
             /\ t.r.left > 0 => H!Ahead(t) = 0
             /\ H!Last_(t) = H!Last_(s) /\ H!End(t) = H!End(s)
<1>0. /\ s.r \in Request /\ s.r.in \in 0..Num /\ s.buf \in [0..Num -> Buf]
      /\ H!Pos(s) \in Nat /\ H!Last_(s) \in Nat /\ H!Ahead(s) \in Nat /\
           H!Pos(s) + H!Ahead(s) = H!Last_(s)
      /\ s \in States
  BY StateParts
<1>1. PICK k : k = H!Preread(s)
  OBVIOUS
<1>2. k \in Nat /\ k <= s.r.left /\ k <= H!Ahead(s) /\ (k = s.r.left \/ k = H!Ahead(s))
      /\ s.r.left \in Nat
  <2>1. s.r.left \in Nat
    BY <1>0 DEF Request
  <2>2. k \in Nat /\ k = IF s.r.left <= H!Ahead(s) THEN s.r.left ELSE H!Ahead(s)
    BY <1>0, <1>1, <2>1, MinOfTwo DEF H!Preread
  <2> QED
    BY <1>0, <2>1, <2>2
<1>3. PICK u : u = H!Content(s.buf[s.r.in], H!Pos(s) + 1, H!Pos(s) + k)
  OBVIOUS
<1>4. u \in Seq(Ids) /\ Len(u) = k
  <2>1. PICK d : d = s.buf[s.r.in].data
    OBVIOUS
  <2>2. d \in Seq(Ids) /\ Len(d) = H!Last_(s)
    BY <1>0, <2>1 DEF Buf, H!Last_
  <2>3. PICK lo \in Nat : lo = H!Pos(s)
    BY <1>0
  <2>4. PICK hi \in Nat : hi = H!Last_(s)
    BY <1>0
  <2>5. lo + k <= hi
    BY <1>0, <1>2, <2>3, <2>4
  <2>6. u = SubSeq(d, lo + 1, lo + k)
    BY <1>3, <2>1, <2>3 DEF H!Content
  <2>7. \A i \in (lo + 1)..(lo + k) : i \in 1..Len(d)
    BY <1>2, <2>2, <2>4, <2>5
  <2>8. u \in Seq(Ids)
    BY <1>2, <2>2, <2>6, <2>7
  <2>9. Len(u) = k
    BY <1>2, <2>2, <2>6, <2>7
  <2> QED
    BY <2>8, <2>9
<1>5. PICK f : f = H!Filtered(s, u)
  OBVIOUS
<1>6. /\ Typed(f)
      /\ f.net = s.net /\ f.rev = s.rev /\ f.buf = s.buf /\ f.hc = s.hc /\ f.c = s.c
      /\ f.r.left = s.r.left - k /\ f.r.unf = s.r.unf /\ f.r.used = s.r.used
      /\ SameRequest(s.r, f.r)
  BY <1>2, <1>4, <1>5, FilteredIs
<1>7. PICK p : p = H!Pos(s) + k
  OBVIOUS
<1>8. p \in Nat /\ p <= H!Last_(s) /\ p <= Len(f.buf[s.r.in].data) /\ f.r.in = s.r.in
      /\ (p < H!Last_(s) => k = s.r.left)
  BY <1>0, <1>2, <1>6, <1>7 DEF H!Last_, SameRequest
<1>9. PICK t : t = Parsed(f, s.r.in, p)
  OBVIOUS
<1>10. /\ Typed(t) /\ t.net = s.net /\ t.rev = s.rev /\ t.hc = s.hc /\ t.c = s.c /\ t.r = f.r
       /\ t.buf[s.r.in].pos = p /\ t.buf[s.r.in].data = s.buf[s.r.in].data
  <2>0. Typed(f) /\ s.r.in \in 0..Num /\ p \in Nat /\ p <= Len(f.buf[s.r.in].data)
    BY <1>0, <1>6, <1>8
  <2>1. /\ Typed(t) /\ t.net = f.net /\ t.rev = f.rev /\ t.hc = f.hc /\ t.c = f.c /\ t.r = f.r
        /\ t.buf[s.r.in].pos = p /\ t.buf[s.r.in].data = f.buf[s.r.in].data
    BY <1>9, <2>0, ParsedIs
  <2> QED
    BY <1>6, <2>1
<1>11. t = H!PrereadFiltered(s)
  <2>1. f \in States /\ f.buf \in [0..Num -> Buf] /\ f.buf[s.r.in] \in Buf
    BY <1>0, <1>6, StateParts
  <2>2. f.buf[s.r.in].pos = H!Pos(s)
    BY <1>6 DEF H!Pos
  <2>3. [f EXCEPT !.buf[s.r.in].pos = @ + k] = [f EXCEPT !.buf[s.r.in].pos = p]
    BY <1>0, <1>7, <2>1, <2>2 DEF States, Buf
  <2> QED
    BY <1>1, <1>3, <1>5, <1>9, <2>3 DEF H!PrereadFiltered, Parsed
<1>12. t.r.in = s.r.in /\ H!Last_(t) = H!Last_(s) /\ H!End(t) = H!End(s) /\ H!Pos(t) = p
  BY <1>8, <1>10 DEF H!Last_, H!End, H!Pos
<1>13. t.r.left \in Nat /\ (t.r.left > 0 => H!Ahead(t) = 0)
  <2>1. PICK left \in Nat : left = s.r.left
    BY <1>2
  <2>2. PICK l \in Nat : l = H!Last_(s)
    BY <1>0
  <2>3. H!Ahead(t) = l - p /\ t.r.left = left - k /\ p <= l /\ (p < l => k = left) /\ k <= left
    BY <1>2, <1>6, <1>8, <1>10, <1>12, <2>1, <2>2 DEF H!Ahead
  <2> QED
    BY <1>2, <1>8, <2>1, <2>2, <2>3
<1> QED
  BY <1>6, <1>10, <1>11, <1>12, <1>13

LEMMA RespondIs ==
  ASSUME NEW s, Typed(s)
  PROVE  LET t == H!Respond(s)
         IN  /\ Typed(t) /\ t.net = s.net /\ t.rev = s.rev /\ t.buf = s.buf
             /\ t.c.pc = "idle" /\ t.c.handler = s.c.handler
             /\ t.r.resp = "on" /\ t.r.left = s.r.left /\ t.r.reh = s.r.reh
             /\ t.r.count = s.r.count /\ t.r.discard = s.r.discard /\ H!Ahead(t) = H!Ahead(s)
<1>0. s \in States /\ s.rev \in Rev /\ s.c \in Con /\ s.r \in Request
  BY StateParts
<1>1. PICK q : q = [s.r EXCEPT !.resp = "on"]
  OBVIOUS
<1>2. /\ q.resp = "on" /\ q.left = s.r.left /\ q.reh = s.r.reh /\ q.count = s.r.count
      /\ q.discard = s.r.discard /\ q.in = s.r.in
  BY <1>0, <1>1 DEF Request
<1>3. q \in Request
  BY <1>0, <1>1 DEF Request
<1>4. PICK d : d = Put(s, s.rev, s.c, q)
  OBVIOUS
<1>5. /\ Typed(d) /\ d.net = s.net /\ d.rev = s.rev /\ d.buf = s.buf /\ d.c = s.c /\ d.r = q
  BY <1>0, <1>3, <1>4, Made
<1>6. d = [s EXCEPT !.r.resp = "on"]
  BY <1>0, <1>1, <1>4 DEF Put, States
<1>7. PICK t : t = H!Goto(d, "idle")
  OBVIOUS
<1>8. /\ Typed(t) /\ t.net = s.net /\ t.rev = s.rev /\ t.buf = s.buf
      /\ t.c.pc = "idle" /\ t.c.handler = s.c.handler /\ t.r = q
  BY <1>5, <1>7, GotoIs
<1>9. H!Ahead(t) = H!Ahead(s)
  BY <1>2, <1>8 DEF H!Ahead, H!Pos, H!Last_
<1> QED
  BY <1>2, <1>6, <1>7, <1>8, <1>9 DEF H!Respond

(* A response under way, when no body is awaited. *)
LEMMA RespondKept ==
  ASSUME NEW s, Base(s), ~s.rev.posted, s.c.handler = "request", s.r.reh = "block",
         s.r.count = 1, s.r.left > 0 => H!Ahead(s) = 0, s.rev.eof => s.r.left > 0
  PROVE  Kept(H!Respond(s))
<1>1. PICK t : t = H!Respond(s)
  OBVIOUS
<1>2. /\ Typed(t) /\ t.net = s.net /\ t.rev = s.rev
      /\ t.c.pc = "idle" /\ t.c.handler = s.c.handler
      /\ t.r.resp = "on" /\ t.r.left = s.r.left /\ t.r.reh = s.r.reh
      /\ t.r.count = s.r.count /\ H!Ahead(t) = H!Ahead(s)
  BY <1>1, RespondIs DEF Base
<1>3. Base(t)
  BY <1>2, BaseKept
<1>4. Answers(t) /\ Waits(t)
  BY <1>2 DEF Answers, Waits
<1> QED
  BY <1>1, <1>2, <1>3, <1>4 DEF Kept, Base, HandlerOK

\* the header has been processed, nothing of the body has been read from c
Started(s) ==
  /\ Base(s) /\ ~s.rev.eof /\ ~s.rev.posted /\ s.c.handler = "request"
  /\ s.r.resp = "none" /\ s.r.reh = "block" /\ s.r.count = 1 /\ s.r.unf = <<>> /\ s.r.used = 0

LEMMA PrereadStarted ==
  ASSUME NEW s, Started(s)
  PROVE  LET t == H!PrereadFiltered(s)
         IN  /\ Started(t) /\ t.r.left \in Nat /\ (t.r.left > 0 => H!Ahead(t) = 0)
             /\ H!Last_(t) = H!Last_(s) /\ H!End(t) = H!End(s)
<1>1. PICK t : t = H!PrereadFiltered(s)
  OBVIOUS
<1>2. /\ Typed(t)
      /\ t.net = s.net /\ t.rev = s.rev /\ t.hc = s.hc /\ t.c = s.c
      /\ t.r.left \in Nat /\ t.r.unf = s.r.unf /\ t.r.used = s.r.used
      /\ SameRequest(s.r, t.r)
      /\ (t.r.left > 0 => H!Ahead(t) = 0)
      /\ H!Last_(t) = H!Last_(s) /\ H!End(t) = H!End(s)
  BY <1>1, PrereadIs DEF Started, Base
<1>3. Base(t)
  BY <1>2, BaseKept DEF Started
<1> QED
  BY <1>1, <1>2, <1>3 DEF Started, SameRequest

LEMMA DiscardKept ==
  ASSUME NEW s, Started(s)
  PROVE  Kept(H!Discard(s))
<1>1. PICK f : f = H!PrereadFiltered(s)
  OBVIOUS
<1>2. Started(f) /\ f.r.left \in Nat /\ (f.r.left > 0 => H!Ahead(f) = 0)
  BY <1>1, PrereadStarted
<1>3. CASE f.r.left = 0
  <2>1. Kept(H!Respond(f))
    BY <1>2, <1>3, RespondKept DEF Started
  <2> QED
    BY <1>1, <1>3, <2>1 DEF H!Discard
<1>4. CASE f.r.left # 0
  <2>1. PICK t : t = H!Goto(f, "discard")
    OBVIOUS
  <2>2. /\ Typed(t) /\ t.net = f.net /\ t.rev = f.rev /\ t.buf = f.buf /\ t.r = f.r
        /\ t.c.pc = "discard" /\ t.c.handler = f.c.handler
    BY <1>2, <2>1, GotoIs DEF Started, Base
  <2>3. H!Ahead(t) = H!Ahead(f)
    BY <2>2 DEF H!Ahead, H!Pos, H!Last_
  <2>4. Base(t)
    BY <1>2, <2>2, BaseKept DEF Started
  <2>5. Answers(t)
    BY <1>2, <2>2, <2>3 DEF Answers, Started
  <2>6. Kept(t)
    BY <1>2, <2>2, <2>4, <2>5 DEF Kept, Base, HandlerOK, Started
  <2> QED
    BY <1>1, <1>4, <2>1, <2>6 DEF H!Discard
<1> QED
  BY <1>3, <1>4

LEMMA ReadBodyKept ==
  ASSUME H!HttpConnectionAssumption, NEW s, Started(s)
  PROVE  Kept(H!ReadBody(s))
<1>1. PICK g : g = [s EXCEPT !.r.read = TRUE]
  OBVIOUS
<1>2. Started(g)
  <2>1. Typed(s) /\ s \in States /\ s.rev \in Rev /\ s.c \in Con /\ s.r \in Request
    BY StateParts DEF Started, Base
  <2>2. PICK q : q = [s.r EXCEPT !.read = TRUE]
    OBVIOUS
  <2>3. q \in Request
    BY <2>1, <2>2 DEF Request
  <2>4. q.resp = "none" /\ q.reh = "block" /\ q.count = 1 /\ q.unf = <<>> /\ q.used = 0
    BY <2>1, <2>2 DEF Request, Started
  <2>5. PICK d : d = Put(s, s.rev, s.c, q)
    OBVIOUS
  <2>6. Typed(d) /\ d.net = s.net /\ d.rev = s.rev /\ d.c = s.c /\ d.r = q
    BY <2>1, <2>3, <2>5, Made
  <2>7. d = g
    BY <1>1, <2>1, <2>2, <2>5 DEF Put, States
  <2> QED
    BY <2>4, <2>6, <2>7, BaseKept DEF Started
<1>3. PICK f : f = H!PrereadFiltered(g)
  OBVIOUS
<1>4. Started(f) /\ f.r.left \in Nat /\ (f.r.left > 0 => H!Ahead(f) = 0)
  BY <1>2, <1>3, PrereadStarted
<1>5. CASE f.r.left = 0
  <2>1. Kept(H!Respond(f))
    BY <1>4, <1>5, RespondKept DEF Started
  <2> QED
    BY <1>1, <1>3, <1>5, <2>1 DEF H!ReadBody
<1>6. CASE f.r.left # 0
  <2>0. Typed(f) /\ f \in States /\ f.rev \in Rev /\ f.c \in Con /\ f.r \in Request
        /\ H!Last_(f) \in Nat
    BY <1>4, StateParts DEF Started, Base
  <2>1. PICK rest \in Nat : rest = f.r.left
    BY <1>4
  <2>2. PICK spare \in Int : spare = H!End(f) - H!Last_(f)
    <3>1. H!End(f) \in Nat
      BY DEF H!End, H!HttpConnectionAssumption
    <3> QED
      BY <2>0, <3>1
  <2>3. PICK cap : cap = IF ~f.r.chunked /\ H!Ahead(s) > 0 /\ rest <= spare THEN spare
                         ELSE IF ~f.r.chunked /\ rest < H!Plenty(BodySize) THEN rest ELSE BodySize
    OBVIOUS
  <2>4. cap \in Nat /\ cap > 0 /\ rest > 0
    <3>1. BodySize \in Nat /\ BodySize > 0
      BY DEF H!HttpConnectionAssumption
    <3> QED
      BY <1>6, <2>1, <2>2, <2>3, <3>1
  <2>5. PICK q : q = [f.r EXCEPT !.reh = "body", !.cap = cap]
    OBVIOUS
  <2>6. q \in Request
    BY <2>0, <2>4, <2>5 DEF Request
  <2>7. /\ q.resp = "none" /\ q.reh = "body" /\ q.count = 1 /\ q.unf = <<>> /\ q.used = 0
        /\ q.cap = cap /\ q.left = f.r.left /\ q.in = f.r.in
    BY <1>4, <2>0, <2>5 DEF Request, Started
  <2>8. PICK d : d = Put(f, f.rev, f.c, q)
    OBVIOUS
  <2>9. Typed(d) /\ d.net = f.net /\ d.rev = f.rev /\ d.c = f.c /\ d.r = q /\ d.buf = f.buf
    BY <2>0, <2>6, <2>8, Made
  <2>10. PICK t : t = H!Goto(d, "body")
    OBVIOUS
  <2>11. /\ Typed(t) /\ t.net = f.net /\ t.rev = f.rev /\ t.buf = f.buf /\ t.r = q
         /\ t.c.pc = "body" /\ t.c.handler = f.c.handler
    BY <2>9, <2>10, GotoIs
  <2>12. H!Ahead(t) = H!Ahead(f)
    BY <2>7, <2>11 DEF H!Ahead, H!Pos, H!Last_
  <2>13. Reading(q)
    BY <2>1, <2>4, <2>7 DEF Reading, H!Wants
  <2>14. Base(t)
    BY <1>4, <2>11, BaseKept DEF Started
  <2>15. Answers(t)
    BY <1>4, <2>7, <2>11, <2>12, <2>13 DEF Answers, Started
  <2>16. Kept(t)
    BY <1>4, <2>11, <2>14, <2>15 DEF Kept, Base, HandlerOK, Started
  <2>17. t = H!ReadBody(s)
    <3>1. d = [f EXCEPT !.r.reh = "body", !.r.cap = cap]
      BY <2>0, <2>5, <2>8 DEF Put, States
    <3> QED
      BY <1>1, <1>3, <1>6, <2>1, <2>2, <2>3, <2>10, <3>1 DEF H!ReadBody
  <2> QED
    BY <2>16, <2>17
<1> QED
  BY <1>5, <1>6

\* the state in which the body of the request that unit u ends the header of is known
Known(u, keep, early) ==
  [H!Now EXCEPT !.rev.timer = FALSE, !.c.handler = "request", !.r.keep = keep,
                !.r.chunked = u.chunked, !.r.left = u.body, !.r.linger = u.body > 0 /\ ~early]

LEMMA HandleStep ==
  ASSUME H!HttpConnectionAssumption, IInv, H!Handle
  PROVE  IInv'
<1>0. /\ Base(H!Now) /\ ~rev.eof /\ ~rev.posted /\ Fresh(conn_r) /\ c.handler \in {"line", "headers"}
      /\ H!Now.net = net /\ H!Now.rev = rev /\ H!Now.c = c /\ H!Now.r = conn_r /\ H!Now.buf = buf
      /\ H!Pos(H!Now) > 0 /\ Typed(H!Now) /\ stream \in Streams
  BY ParsingNow, NowParts DEF H!Handle, Base
<1>1. /\ H!Now \in States /\ rev \in Rev /\ c \in Con /\ conn_r \in Request /\ conn_r.in \in 0..Num
      /\ H!Pos(H!Now) \in Nat /\ H!Last_(H!Now) \in Nat /\ H!Pos(H!Now) <= H!Last_(H!Now) /\
           buf \in [0..Num -> Buf]
  BY <1>0, StateParts
<1> DEFINE u == H!Unit(buf[conn_r.in].data[H!Pos(H!Now)])
<1>3. u.body \in Nat /\ u.chunked \in BOOLEAN
  <2>1. buf[conn_r.in].data \in Seq(Ids) /\ H!Pos(H!Now) \in 1..Len(buf[conn_r.in].data)
    BY <1>0, <1>1 DEF Buf, H!Last_
  <2>2. PICK i \in 1..Len(stream) : i = buf[conn_r.in].data[H!Pos(H!Now)]
    BY <2>1 DEF Ids
  <2>3. PICK R : R = [n : Nat, part : {"crlf", "line", "body"}, end : BOOLEAN, head : BOOLEAN,
                      body : Nat, chunked : BOOLEAN, keep : BOOLEAN]
    OBVIOUS
  <2>4. stream \in Seq(R)
    BY <1>0, <2>3 DEF H!HttpConnectionAssumption
  <2>5. stream[i] \in R
    BY <2>2, <2>4
  <2> QED
    BY <2>2, <2>3, <2>5 DEF H!Unit
<1> HIDE DEF u
<1>4. CASE H!Becomes(H!ErrorPage(H!Now))
  <2>1. Kept(H!ErrorPage(H!Now))
    BY <1>0, ErrorPageKept
  <2> QED
    BY <1>4, <2>1, OnStep
<1>5. ASSUME NEW keep \in BOOLEAN, NEW read \in BOOLEAN, NEW early \in BOOLEAN, NEW s,
             s = Known(u, keep, early),
             H!Becomes(IF read THEN H!ReadBody(s) ELSE H!Discard(s))
      PROVE  IInv'
  <2>1. PICK v : v = [rev EXCEPT !.timer = FALSE]
    OBVIOUS
  <2>2. /\ v \in Rev /\ v.posted = rev.posted /\ v.ready = rev.ready /\ v.event = rev.event
        /\ v.eof = rev.eof
    BY <1>1, <2>1 DEF Rev
  <2>3. PICK k : k = [c EXCEPT !.handler = "request"]
    OBVIOUS
  <2>4. k \in Con /\ k.handler = "request"
    BY <1>1, <2>3 DEF Con
  <2>5. PICK linger \in BOOLEAN : linger = (u.body > 0 /\ ~early)
    OBVIOUS
  <2>6. PICK q : q = [conn_r EXCEPT !.keep = keep, !.chunked = u.chunked, !.left = u.body,
                                    !.linger = linger]
    OBVIOUS
  <2>7. q \in Request
    BY <1>1, <1>3, <2>6 DEF Request
  <2>8. q.resp = "none" /\ q.reh = "block" /\ q.count = 1 /\ q.unf = <<>> /\ q.used = 0
    BY <1>0, <1>1, <2>6 DEF Request, Fresh
  <2>9. PICK d : d = Put(H!Now, v, k, q)
    OBVIOUS
  <2>10. Typed(d) /\ d.net = net /\ d.rev = v /\ d.c = k /\ d.r = q
    BY <1>0, <2>2, <2>4, <2>7, <2>9, Made
  <2>11. d = s
    BY <1>0, <1>1, <1>5, <2>1, <2>3, <2>5, <2>6, <2>9 DEF Put, States, Known
  <2>12. Started(s)
    <3>1. SameNet(H!Now, d)
      BY <1>0, <2>2, <2>10 DEF SameNet
    <3>2. Base(d)
      BY <1>0, <2>10, <3>1, SameNetBase
    <3> QED
      BY <1>0, <2>2, <2>4, <2>8, <2>10, <2>11, <3>2 DEF Started
  <2>13. Kept(IF read THEN H!ReadBody(s) ELSE H!Discard(s))
    BY <2>12, ReadBodyKept, DiscardKept
  <2> QED
    BY <1>5, <2>13, OnStep
<1>6. \/ H!Becomes(H!ErrorPage(H!Now))
      \/ \E keep, read, early \in BOOLEAN :
           LET s == Known(u, keep, early)
           IN  H!Becomes(IF read THEN H!ReadBody(s) ELSE H!Discard(s))
  <2>1. \/ H!Becomes(H!ErrorPage(H!Now))
        \/ \E keep, read, early \in BOOLEAN :
             LET s == Known(u, keep, early)
             IN  /\ keep => u.keep
                 /\ early => ~keep /\ ~read
                 /\ H!Becomes(IF read THEN H!ReadBody(s) ELSE H!Discard(s))
    BY Zenon DEF H!Handle, Known, u
  <2> QED
    BY <2>1
<1> QED
  BY <1>4, <1>5, <1>6

LEMMA RefilledIs ==
  ASSUME NEW s, Typed(s), Reading(s.r)
  PROVE  LET t == H!Refilled(s)
         IN  /\ Typed(t)
             /\ t.net = s.net /\ t.rev = s.rev /\ t.buf = s.buf /\ t.c = s.c
             /\ Reading(t.r) /\ t.r.used < t.r.cap /\ SameRequest(s.r, t.r)
<1>a. s.r \in Request
  BY StateParts
<1>b. s.r.left \in Nat /\ s.r.unf \in Seq(Ids) /\ s.r.used \in Nat /\ s.r.cap \in Nat
  BY <1>a DEF Request
<1>0. Len(s.r.unf) \in Nat /\ s.r.left \in Nat /\ s.r.used \in Nat /\ s.r.cap \in Nat
  BY <1>b
<1>1. CASE s.r.used = s.r.cap
  <2>1. Len(s.r.unf) < s.r.left
    BY <1>0 DEF Reading, H!Wants
  <2>2. PICK p : p = H!Passed(s)
    OBVIOUS
  <2>3. /\ Typed(p)
        /\ p.net = s.net /\ p.rev = s.rev /\ p.buf = s.buf /\ p.c = s.c
        /\ p.r.left = s.r.left - Len(s.r.unf) /\ p.r.unf = <<>>
        /\ SameRequest(s.r, p.r)
    BY <1>0, <2>1, <2>2, PassedIs
  <2>4. p \in States /\ p.rev \in Rev /\ p.c \in Con /\ p.r \in Request
    BY <2>3, StateParts
  <2>5. PICK q : q = [p.r EXCEPT !.used = 0]
    OBVIOUS
  <2>6. q \in Request
    BY <2>4, <2>5 DEF Request
  <2>7. q.left = p.r.left /\ q.unf = <<>> /\ q.used = 0 /\ SameRequest(s.r, q)
    BY <2>3, <2>4, <2>5 DEF Request, SameRequest
  <2>8. PICK t : t = Put(p, p.rev, p.c, q)
    OBVIOUS
  <2>9. Typed(t) /\ t.net = p.net /\ t.rev = p.rev /\ t.buf = p.buf /\ t.c = p.c /\ t.r = q
    BY <2>3, <2>4, <2>6, <2>8, Made
  <2>10. t = H!Refilled(s)
    BY <1>1, <2>2, <2>4, <2>5, <2>8 DEF Put, H!Refilled, States
  <2>11. q.left > 0 /\ q.cap = s.r.cap /\ s.r.cap > 0
    BY <1>0, <2>1, <2>3, <2>7 DEF SameRequest, Reading
  <2>12. Reading(q) /\ q.used < q.cap
    BY <1>0, <2>7, <2>11 DEF Reading, H!Wants
  <2> QED
    BY <2>3, <2>7, <2>9, <2>10, <2>12
<1>2. CASE s.r.used # s.r.cap
  BY <1>0, <1>2 DEF H!Refilled, Reading, SameRequest
<1> QED
  BY <1>1, <1>2

\* n units have been read into the buffer of the body
Buffered(s, n) == [s EXCEPT !.r.used = @ + n, !.r.unf = @ \o H!Received(n)]

LEMMA BufferedIs ==
  ASSUME NEW s, Typed(s), NEW n \in Nat, H!Received(n) \in Seq(Ids), Len(H!Received(n)) = n
  PROVE  LET t == Buffered(s, n)
         IN  /\ Typed(t)
             /\ t.net = s.net /\ t.rev = s.rev /\ t.buf = s.buf /\ t.c = s.c
             /\ t.r.left = s.r.left /\ t.r.used = s.r.used + n
             /\ Len(t.r.unf) = Len(s.r.unf) + n
             /\ SameRequest(s.r, t.r)
<1>0. /\ s \in States /\ s.rev \in Rev /\ s.c \in Con /\ s.r \in Request
      /\ s.r.used \in Nat /\ s.r.unf \in Seq(Ids)
  BY StateParts DEF Request
<1>1. PICK used : used = s.r.used + n
  OBVIOUS
<1>2. PICK unf : unf = s.r.unf \o H!Received(n)
  OBVIOUS
<1>3. used \in Nat /\ unf \in Seq(Ids) /\ Len(unf) = Len(s.r.unf) + n
  <2>1. PICK a \in Seq(Ids) : a = s.r.unf
    BY <1>0
  <2>2. PICK b \in Seq(Ids) : b = H!Received(n)
    OBVIOUS
  <2>3. a \o b \in Seq(Ids) /\ Len(a \o b) = Len(a) + Len(b)
    OBVIOUS
  <2> QED
    BY <1>0, <1>1, <1>2, <2>1, <2>2, <2>3
<1>4. PICK q : q = [s.r EXCEPT !.used = used, !.unf = unf]
  OBVIOUS
<1>5. q \in Request
  BY <1>0, <1>3, <1>4 DEF Request
<1>6. q.left = s.r.left /\ q.unf = unf /\ q.used = used /\ SameRequest(s.r, q)
  BY <1>0, <1>4 DEF Request, SameRequest
<1>7. PICK t : t = Put(s, s.rev, s.c, q)
  OBVIOUS
<1>8. Typed(t) /\ t.net = s.net /\ t.rev = s.rev /\ t.buf = s.buf /\ t.c = s.c /\ t.r = q
  BY <1>0, <1>5, <1>7, Made
<1>9. t = Buffered(s, n)
  BY <1>0, <1>1, <1>2, <1>4, <1>7 DEF Put, Buffered, States, Request
<1> QED
  BY <1>1, <1>3, <1>6, <1>8, <1>9

(* The loop of ngx_http_do_read_client_request_body(). *)
LEMMA StillReading ==
  ASSUME NEW t, Base(t), ~t.rev.posted, ~t.rev.eof, t.c.handler = "request", Reading(t.r),
         t.r.reh = "body", t.r.count = 1, t.r.resp = "none", H!Ahead(t) = 0,
         \/ t.c.pc = "body"
         \/ t.c.pc = "idle" /\ t.rev.timer /\ ~Outstanding(t)
  PROVE  Kept(t)
<1>1. Answers(t)
  BY DEF Answers
<1> QED
  BY <1>1 DEF Kept, Base, HandlerOK, Waits

LEMMA BodyNow ==
  ASSUME IInv, c.pc = "body"
  PROVE  /\ Base(H!Now) /\ ~rev.eof /\ ~rev.posted /\ c.handler = "request" /\ Reading(conn_r)
         /\ conn_r.reh = "body" /\ conn_r.count = 1 /\ conn_r.resp = "none" /\ H!Ahead(H!Now) = 0
         /\ H!Now.net = net /\ H!Now.rev = rev /\ H!Now.c = c /\ H!Now.r = conn_r /\ H!Now.buf = buf
<1>1. /\ H!Now.net = net /\ H!Now.rev = rev /\ H!Now.c = c /\ H!Now.r = conn_r /\ H!Now.buf = buf
      /\ Typed(H!Now)
  BY NowParts
<1>2. Kept(H!Now) /\ Sighted(H!Now) /\ HandlerOK(H!Now) /\ ~rev.posted
  BY <1>1 DEF IInv, Kept
<1>3. c.handler = "request" /\ Answers(H!Now)
  BY <1>1, <1>2 DEF HandlerOK
<1>4. /\ ~rev.eof /\ Reading(conn_r) /\ conn_r.reh = "body" /\ conn_r.count = 1 /\
           conn_r.resp = "none"
      /\ H!Ahead(H!Now) = 0
  BY <1>1, <1>3 DEF Answers, Reading
<1> QED
  BY <1>1, <1>2, <1>3, <1>4 DEF Base

\* the step of DoReadBody, cut into its parts
ReadsInto(size, n, t, p) ==
  CASE n > 0 /\ p.r.left = 0 ->
         H!Becomes(H!Respond([p EXCEPT !.rev.timer = FALSE, !.r.reh = "block"]))
    [] n > 0 /\ p.r.left > 0 -> H!Becomes(p)
    [] n = 0 /\ H!Eof(size) -> H!Becomes(H!Closed(H!Now))
    [] OTHER -> H!Becomes(H!Goto([t EXCEPT !.rev.timer = TRUE], "idle"))

ReadsFrom(s) ==
  LET rest == H!Wants(s.r) - Len(s.r.unf)
      size == H!Min({s.r.cap - s.r.used, rest})
      n    == H!Arrived(size)
      t    == Buffered(H!Recv(s, n), n)
      p    == IF n = rest THEN H!Passed(t) ELSE t
  IN  ReadsInto(size, n, t, p)

LEMMA DoReadBodyStep ==
  ASSUME H!HttpConnectionAssumption, IInv, H!DoReadBody
  PROVE  IInv'
<1>0. /\ Base(H!Now) /\ ~rev.eof /\ ~rev.posted /\ c.handler = "request" /\ Reading(conn_r)
      /\ conn_r.reh = "body" /\ conn_r.count = 1 /\ conn_r.resp = "none" /\ H!Ahead(H!Now) = 0 /\
           c.pc = "body"
      /\ H!Now.net = net /\ H!Now.rev = rev /\ H!Now.c = c /\ H!Now.r = conn_r /\ H!Now.buf = buf
      /\ Typed(H!Now) /\ net \in Net /\ net.read <= net.sent
  BY BodyNow, NowParts DEF H!DoReadBody, Base
<1>1. PICK s : s = H!Refilled(H!Now)
  OBVIOUS
<1>2. /\ Typed(s)
      /\ s.net = net /\ s.rev = rev /\ s.buf = buf /\ s.c = c
      /\ Reading(s.r) /\ s.r.used < s.r.cap /\ SameRequest(conn_r, s.r)
  BY <1>0, <1>1, RefilledIs
<1>3. Base(s) /\ s.r \in Request /\ s.r.used \in Nat /\ s.r.cap \in Nat /\ s.r.left \in Nat
      /\ s.r.unf \in Seq(Ids)
  <2>1. s.r \in Request
    BY <1>2, StateParts
  <2> QED
    BY <1>0, <1>2, <2>1, BaseKept DEF Request
<1>4. PICK m : m = Len(s.r.unf)
  OBVIOUS
<1>5. PICK w : w = H!Wants(s.r)
  OBVIOUS
<1>6. m \in Nat /\ w \in Nat /\ m < w /\ w <= s.r.left
  BY <1>2, <1>3, <1>4, <1>5 DEF H!Wants, Reading
<1>7. PICK rest : rest = w - m
  OBVIOUS
<1>8. PICK size : size = H!Min({s.r.cap - s.r.used, rest})
  OBVIOUS
<1>9. /\ rest \in Nat /\ size \in Nat /\ size > 0 /\ size <= rest
      /\ s.r.used + size <= s.r.cap
  <2>1. rest \in Nat /\ rest > 0
    BY <1>6, <1>7
  <2>2. PICK space \in Nat : space = s.r.cap - s.r.used
    BY <1>2, <1>3
  <2>3. space > 0
    BY <1>2, <1>3, <2>2
  <2>4. size = IF space <= rest THEN space ELSE rest
    BY <1>8, <2>1, <2>2, MinOfTwo
  <2> QED
    BY <1>3, <2>1, <2>2, <2>3, <2>4
<1>10. PICK n : n = H!Arrived(size)
  OBVIOUS
<1>11. n \in Nat /\ n <= size /\ net.read + n <= net.sent /\ (n = 0 => net.read = net.sent)
  BY <1>0, <1>9, <1>10, Arrival
<1>12. PICK a : a = H!Recv(s, n)
  OBVIOUS
<1>13. /\ Base(a) /\ (a.rev.eof <=> n = 0 /\ net.fin) /\ ~a.rev.posted
       /\ (n = 0 => ~Outstanding(a)) /\ a.buf = buf /\ a.c = c /\ a.r = s.r
  <2>1. n = 0 => net.read = net.sent
    BY <1>11
  <2> QED
    BY <1>0, <1>2, <1>3, <1>11, <1>12, <2>1, RecvKeeps
<1>14. PICK t : t = Buffered(a, n)
  OBVIOUS
<1>15. /\ Typed(t)
       /\ t.net = a.net /\ t.rev = a.rev /\ t.buf = buf /\ t.c = c
       /\ t.r.left = s.r.left /\ t.r.used = s.r.used + n /\ Len(t.r.unf) = m + n
       /\ SameRequest(conn_r, t.r)
  <2>1. H!Received(n) \in Seq(Ids) /\ Len(H!Received(n)) = n
    BY <1>0, <1>11, ReceivedUnits
  <2>2. /\ Typed(t)
        /\ t.net = a.net /\ t.rev = a.rev /\ t.buf = a.buf /\ t.c = a.c
        /\ t.r.left = a.r.left /\ t.r.used = a.r.used + n /\ Len(t.r.unf) = Len(a.r.unf) + n
        /\ SameRequest(a.r, t.r)
    BY <1>11, <1>13, <1>14, <2>1, BufferedIs DEF Base
  <2> QED
    BY <1>2, <1>4, <1>13, <2>2 DEF SameRequest
<1>16. PICK p : p = IF n = rest THEN H!Passed(t) ELSE t
  OBVIOUS
<1>17. /\ Typed(p) /\ p.net = a.net /\ p.rev = a.rev /\ p.buf = buf /\ p.c = c
       /\ SameRequest(conn_r, p.r) /\ p.r.left \in Nat
       /\ p.r.left > 0 => Reading(p.r)
       /\ n < rest => p = t
  <2>1. /\ t.r.used <= t.r.cap /\ t.r.cap > 0 /\ t.r.used \in Nat /\ t.r.cap \in Nat
        /\ H!Wants(t.r) = w /\ t.r.left > 0
    <3>1. t.r.cap = s.r.cap /\ t.r.chunked = s.r.chunked
      BY <1>2, <1>15 DEF SameRequest
    <3> QED
      BY <1>2, <1>3, <1>5, <1>9, <1>11, <1>15, <3>1, SMTT(30) DEF H!Wants, Reading
  <2>2. CASE n = rest
    <3>1. Len(t.r.unf) = w /\ w <= t.r.left
      BY <1>6, <1>7, <1>11, <1>15, <2>2
    <3>2. /\ Typed(p) /\ p.net = t.net /\ p.rev = t.rev /\ p.buf = t.buf /\ p.c = t.c
          /\ p.r.left = t.r.left - w /\ p.r.unf = <<>> /\ p.r.used = t.r.used
          /\ SameRequest(t.r, p.r)
      BY <1>15, <1>16, <2>2, <3>1, PassedIs
    <3>3. p.r.left \in Nat
      BY <3>2, StateParts DEF Request
    <3>4. p.r.left > 0 => Reading(p.r)
      <4>1. p.r.cap = t.r.cap /\ Len(p.r.unf) = 0
        BY <3>2 DEF SameRequest
      <4> QED
        BY <2>1, <3>2, <3>3, <4>1 DEF Reading, H!Wants
    <3>5. SameRequest(conn_r, p.r)
      BY <1>15, <3>2 DEF SameRequest
    <3> QED
      BY <1>11, <1>9, <1>15, <2>2, <3>2, <3>3, <3>4, <3>5
  <2>3. CASE n # rest
    <3>1. p = t /\ m + n < w
      BY <1>6, <1>7, <1>9, <1>11, <1>16, <2>3
    <3> QED
      BY <1>3, <1>15, <2>1, <3>1 DEF Reading
  <2> QED
    BY <2>2, <2>3
<1>18. \/ n > 0 /\ p.r.left = 0
          /\ H!Becomes(H!Respond([p EXCEPT !.rev.timer = FALSE, !.r.reh = "block"]))
       \/ n > 0 /\ p.r.left > 0 /\ H!Becomes(p)
       \/ H!Becomes(H!Closed(H!Now))
       \/ n = 0 /\ ~net.fin /\ H!Becomes(H!Goto([t EXCEPT !.rev.timer = TRUE], "idle"))
  <2>1. \E q \in {H!Refilled(H!Now)} : ReadsFrom(q)
    BY Zenon DEF H!DoReadBody, ReadsFrom, ReadsInto, Buffered
  <2>2. ReadsFrom(s)
    BY <1>1, <2>1
  <2>3. rest = H!Wants(s.r) - Len(s.r.unf)
    BY <1>4, <1>5, <1>7
  <2>4. ReadsInto(size, n, t, p)
    BY <1>8, <1>10, <1>12, <1>14, <1>16, <2>2, <2>3 DEF ReadsFrom
  <2>5. \/ n > 0 /\ p.r.left = 0
           /\ H!Becomes(H!Respond([p EXCEPT !.rev.timer = FALSE, !.r.reh = "block"]))
        \/ n > 0 /\ p.r.left > 0 /\ H!Becomes(p)
        \/ H!Becomes(H!Closed(H!Now))
        \/ /\ ~(n > 0 /\ p.r.left = 0) /\ ~(n > 0 /\ p.r.left > 0) /\ ~(n = 0 /\ H!Eof(size))
           /\ H!Becomes(H!Goto([t EXCEPT !.rev.timer = TRUE], "idle"))
    BY <2>4 DEF ReadsInto
  <2> QED
    BY <1>9, <1>11, <1>17, <2>5 DEF H!Eof
<1>19. CASE n > 0 /\ p.r.left = 0
            /\ H!Becomes(H!Respond([p EXCEPT !.rev.timer = FALSE, !.r.reh = "block"]))
  <2>0. p \in States /\ p.rev \in Rev /\ p.c \in Con /\ p.r \in Request
    BY <1>17, StateParts
  <2>1. PICK v : v = [p.rev EXCEPT !.timer = FALSE]
    OBVIOUS
  <2>2. /\ v \in Rev /\ v.posted = p.rev.posted /\ v.ready = p.rev.ready
        /\ v.event = p.rev.event /\ v.eof = p.rev.eof
    BY <2>0, <2>1 DEF Rev
  <2>3. PICK q : q = [p.r EXCEPT !.reh = "block"]
    OBVIOUS
  <2>4. q \in Request
    BY <2>0, <2>3 DEF Request
  <2>5. q.reh = "block" /\ q.left = 0 /\ q.count = 1
    BY <1>0, <1>17, <1>19, <2>0, <2>3 DEF Request, SameRequest
  <2>6. PICK d : d = Put(p, v, p.c, q)
    OBVIOUS
  <2>7. Typed(d) /\ d.net = p.net /\ d.rev = v /\ d.c = c /\ d.r = q
    BY <1>17, <2>0, <2>2, <2>4, <2>6, Made
  <2>8. d = [p EXCEPT !.rev.timer = FALSE, !.r.reh = "block"]
    BY <2>0, <2>1, <2>3, <2>6 DEF Put, States
  <2>9. Base(d)
    <3>1. SameNet(a, d)
      BY <1>17, <2>2, <2>7 DEF SameNet
    <3> QED
      BY <1>13, <2>7, <3>1, SameNetBase
  <2>10. Kept(H!Respond(d))
    BY <1>0, <1>13, <1>17, <1>19, <2>2, <2>5, <2>7, <2>9, RespondKept
  <2> QED
    BY <1>19, <2>8, <2>10, OnStep
<1>20. CASE n > 0 /\ p.r.left > 0 /\ H!Becomes(p)
  <2>1. Base(p)
    BY <1>13, <1>17, BaseKept
  <2>2. H!Ahead(p) = 0 /\ p.r.count = 1 /\ p.r.resp = "none" /\ p.r.reh = "body"
    BY <1>0, <1>17 DEF SameRequest, H!Ahead, H!Pos, H!Last_
  <2>3. Kept(p)
    BY <1>0, <1>13, <1>17, <1>20, <2>1, <2>2, StillReading
  <2> QED
    BY <1>20, <2>3, OnStep
<1>21. CASE n = 0 /\ ~net.fin /\ H!Becomes(H!Goto([t EXCEPT !.rev.timer = TRUE], "idle"))
  <2>1. PICK d : d = [t EXCEPT !.rev.timer = TRUE]
    OBVIOUS
  <2>2. /\ Typed(d) /\ SameNet(t, d) /\ d.rev.timer /\ d.rev.posted = t.rev.posted
        /\ d.buf = t.buf /\ d.c = t.c /\ d.r = t.r
    BY <1>15, <2>1, TimerIs
  <2>3. PICK g : g = H!Goto(d, "idle")
    OBVIOUS
  <2>4. /\ Typed(g) /\ g.net = d.net /\ g.rev = d.rev /\ g.buf = buf /\ g.r = t.r
        /\ g.c.pc = "idle" /\ g.c.handler = "request"
    BY <1>0, <1>15, <2>2, <2>3, GotoIs
  <2>5. SameNet(a, g)
    BY <1>15, <2>2, <2>4 DEF SameNet
  <2>6. Base(g) /\ ~Outstanding(g) /\ ~g.rev.eof
    BY <1>13, <1>21, <2>4, <2>5, SameNetBase DEF SameNet
  <2>7. H!Ahead(g) = 0 /\ g.r.count = 1 /\ g.r.resp = "none" /\ g.r.reh = "body"
    BY <1>0, <1>15, <2>4 DEF SameRequest, H!Ahead, H!Pos, H!Last_
  <2>8. Reading(g.r)
    <3>1. n < rest
      BY <1>9, <1>21
    <3>2. p.r.left = t.r.left /\ p = t
      BY <1>17, <3>1
    <3> QED
      BY <1>2, <1>15, <1>17, <2>4, <3>2 DEF Reading
  <2>9. Kept(g)
    BY <1>13, <1>15, <2>2, <2>4, <2>6, <2>7, <2>8, StillReading
  <2> QED
    BY <1>21, <2>1, <2>3, <2>9, OnStep
<1> QED
  BY <1>18, <1>19, <1>20, <1>21, Closes

(* The body that is discarded has ended: the request goes on, or ends. *)
LEMMA DiscardedKept ==
  ASSUME H!HttpConnectionAssumption, NEW s, Base(s), ~s.rev.posted, s.c.handler = "request",
         s.rev.eof => s.r.left > 0, s.r.left > 0 => H!Ahead(s) = 0,
         \/ s.r.resp = "none" /\ s.r.reh = "block" /\ s.r.count = 1
         \/ s.r.resp # "none" /\ s.r.count = 1
         \/ s.r.resp = "on" /\ s.r.count = 2
            /\ (s.r.reh = "block" \/ (s.r.reh = "discard" /\ ~Outstanding(s)))
  PROVE  Kept(H!Discarded(s))
<1>0. Typed(s) /\ s \in States /\ s.rev \in Rev /\ s.c \in Con /\ s.r \in Request
      /\ H!Ahead(s) \in Nat
  BY StateParts DEF Base
<1>1. CASE s.r.resp = "none"
  <2>1. PICK q : q = [s.r EXCEPT !.linger = FALSE]
    OBVIOUS
  <2>2. q \in Request
    BY <1>0, <2>1 DEF Request
  <2>3. q.reh = "block" /\ q.count = 1 /\ q.left = s.r.left /\ q.in = s.r.in
    BY <1>0, <1>1, <2>1 DEF Request
  <2>4. PICK d : d = Put(s, s.rev, s.c, q)
    OBVIOUS
  <2>5. Typed(d) /\ d.net = s.net /\ d.rev = s.rev /\ d.c = s.c /\ d.r = q /\ d.buf = s.buf
    BY <1>0, <2>2, <2>4, Made
  <2>6. d = [s EXCEPT !.r.linger = FALSE]
    BY <1>0, <2>1, <2>4 DEF Put, States
  <2>7. H!Ahead(d) = H!Ahead(s)
    BY <2>3, <2>5 DEF H!Ahead, H!Pos, H!Last_
  <2>8. Kept(H!Respond(d))
    BY <2>3, <2>5, <2>7, BaseKept, RespondKept
  <2> QED
    BY <1>1, <2>6, <2>8 DEF H!Discarded
<1>2. CASE s.r.resp # "none"
  <2>1. PICK q : q = [s.r EXCEPT !.discard = FALSE, !.linger = FALSE]
    OBVIOUS
  <2>2. q \in Request
    BY <1>0, <2>1 DEF Request
  <2>3. /\ q.reh = s.r.reh /\ q.count = s.r.count /\ q.left = s.r.left /\ q.in = s.r.in
        /\ q.resp = s.r.resp /\ ~q.discard
    BY <1>0, <2>1 DEF Request
  <2>4. PICK d : d = Put(s, s.rev, s.c, q)
    OBVIOUS
  <2>5. Typed(d) /\ d.net = s.net /\ d.rev = s.rev /\ d.c = s.c /\ d.r = q /\ d.buf = s.buf
    BY <1>0, <2>2, <2>4, Made
  <2>6. d = [s EXCEPT !.r.discard = FALSE, !.r.linger = FALSE]
    BY <1>0, <2>1, <2>4 DEF Put, States
  <2>7. H!Ahead(d) = H!Ahead(s)
    BY <2>3, <2>5 DEF H!Ahead, H!Pos, H!Last_
  <2>8. Base(d)
    BY <2>5, BaseKept
  <2>9. Kept(H!FinalizeConnection(d))
    <3>1. CASE s.r.count = 1
      BY <1>0, <2>3, <2>5, <2>7, <2>8, <3>1, FinalizedLast
    <3>2. CASE s.r.count = 2 /\ s.r.resp = "on"
               /\ (s.r.reh = "block" \/ (s.r.reh = "discard" /\ ~Outstanding(s)))
      <4>1. d \in States
        BY <2>5 DEF Typed
      <4>2. PICK p : p = [q EXCEPT !.count = 1]
        OBVIOUS
      <4>3. p \in Request
        BY <2>2, <4>2 DEF Request
      <4>4. /\ p.count = 1 /\ p.resp = "on" /\ p.reh = s.r.reh /\ p.left = s.r.left
            /\ p.in = s.r.in
        BY <2>2, <2>3, <3>2, <4>2 DEF Request
      <4>5. PICK e : e = Put(d, d.rev, d.c, p)
        OBVIOUS
      <4>6. Typed(e) /\ e.net = s.net /\ e.rev = s.rev /\ e.c = s.c /\ e.r = p /\ e.buf = s.buf
        BY <1>0, <2>5, <4>3, <4>5, Made
      <4>7. e = [d EXCEPT !.r.count = @ - 1]
        <5>1. d.r.count - 1 = 1
          BY <2>3, <2>5, <3>2
        <5> QED
          BY <2>5, <4>1, <4>2, <4>5, <5>1 DEF Put, States
      <4>8. H!FinalizeConnection(d) = H!Goto(e, "idle")
        BY <2>3, <2>5, <3>2, <4>7 DEF H!FinalizeConnection, H!CloseRequest
      <4>9. PICK t : t = H!Goto(e, "idle")
        OBVIOUS
      <4>10. /\ Typed(t) /\ t.net = s.net /\ t.rev = s.rev /\ t.r = p /\ t.buf = s.buf
             /\ t.c.pc = "idle" /\ t.c.handler = s.c.handler
        BY <4>6, <4>9, GotoIs
      <4>11. H!Ahead(t) = H!Ahead(s)
        BY <4>4, <4>10 DEF H!Ahead, H!Pos, H!Last_
      <4>12. Base(t) /\ (Outstanding(t) <=> Outstanding(s))
        BY <4>10, SameNetBase DEF SameNet
      <4>13. Answers(t) /\ Waits(t)
        BY <3>2, <4>4, <4>10, <4>11, <4>12 DEF Answers, Waits
      <4>14. Kept(t)
        BY <4>10, <4>12, <4>13 DEF Kept, Base, HandlerOK
      <4> QED
        BY <4>8, <4>9, <4>14
    <3> QED
      BY <1>2, <3>1, <3>2
  <2> QED
    BY <1>2, <2>6, <2>9 DEF H!Discarded
<1> QED
  BY <1>1, <1>2

(* Nothing has arrived: the rest of the body is awaited, while the response is sent. *)
LEMMA DiscardAgainKept ==
  ASSUME NEW s, Base(s), ~s.rev.posted, s.c.handler = "request",
         s.rev.eof => s.r.left > 0, s.r.left > 0 => H!Ahead(s) = 0,
         Outstanding(s) => s.rev.event,
         \/ s.r.resp = "none" /\ s.r.count = 1 /\ ~s.rev.eof
         \/ s.r.resp = "on" /\ s.r.reh = "discard" /\ s.r.count = 2 /\ s.r.discard /\ ~s.rev.eof
         \/ s.r.resp = "on" /\ s.r.reh = "discard" /\ s.r.count = 1
         \/ s.r.resp = "done" /\ s.r.reh = "discard" /\ s.r.count = 1 /\ s.r.lt
  PROVE  Kept(H!DiscardAgain(s))
<1>0. Typed(s) /\ s \in States /\ s.rev \in Rev /\ s.c \in Con /\ s.r \in Request
  BY StateParts DEF Base
<1>1. CASE s.r.resp = "none"
  <2>1. PICK q : q = [s.r EXCEPT !.reh = "discard", !.count = 2, !.discard = TRUE]
    OBVIOUS
  <2>2. q \in Request
    BY <1>0, <2>1 DEF Request
  <2>3. q.reh = "discard" /\ q.count = 2 /\ q.discard /\ q.left = s.r.left /\ q.in = s.r.in
    BY <1>0, <2>1 DEF Request
  <2>4. PICK d : d = Put(s, s.rev, s.c, q)
    OBVIOUS
  <2>5. Typed(d) /\ d.net = s.net /\ d.rev = s.rev /\ d.c = s.c /\ d.r = q /\ d.buf = s.buf
    BY <1>0, <2>2, <2>4, Made
  <2>6. d = [s EXCEPT !.r.reh = "discard", !.r.count = @ + 1, !.r.discard = TRUE]
    <3>1. s.r.count + 1 = 2
      BY <1>1
    <3> QED
      BY <1>0, <2>1, <2>4, <3>1 DEF Put, States, Request
  <2>7. PICK t : t = H!Respond(d)
    OBVIOUS
  <2>8. /\ Typed(t) /\ t.net = s.net /\ t.rev = s.rev /\ t.buf = s.buf
        /\ t.c.pc = "idle" /\ t.c.handler = s.c.handler
        /\ t.r.resp = "on" /\ t.r.left = s.r.left /\ t.r.reh = "discard" /\ t.r.count = 2
        /\ t.r.discard = TRUE /\ H!Ahead(t) = H!Ahead(d)
    BY <2>3, <2>5, <2>7, RespondIs
  <2>9. H!Ahead(d) = H!Ahead(s)
    BY <2>3, <2>5 DEF H!Ahead, H!Pos, H!Last_
  <2>10. Base(t) /\ (Outstanding(t) <=> Outstanding(s))
    BY <2>8, SameNetBase DEF SameNet
  <2>11. Answers(t) /\ Waits(t)
    BY <1>1, <2>8, <2>9, <2>10 DEF Answers, Waits
  <2>12. Kept(t)
    BY <2>8, <2>10, <2>11 DEF Kept, Base, HandlerOK
  <2> QED
    BY <1>1, <2>6, <2>7, <2>12 DEF H!DiscardAgain
<1>2. CASE s.r.resp # "none"
  <2>1. PICK on \in BOOLEAN : on = (s.rev.timer \/ s.r.lt)
    OBVIOUS
  <2>2. PICK d : d = [s EXCEPT !.rev.timer = on]
    OBVIOUS
  <2>3. /\ Typed(d) /\ SameNet(s, d) /\ d.rev.timer = on /\ d.rev.posted = s.rev.posted
        /\ d.buf = s.buf /\ d.c = s.c /\ d.r = s.r
    BY <1>0, <2>2, TimerIs
  <2>4. d = [s EXCEPT !.rev.timer = @ \/ s.r.lt]
    BY <1>0, <2>1, <2>2 DEF States, Rev
  <2>5. PICK t : t = H!Goto(d, "idle")
    OBVIOUS
  <2>6. /\ Typed(t) /\ t.net = d.net /\ t.rev = d.rev /\ t.buf = s.buf /\ t.r = s.r
        /\ t.c.pc = "idle" /\ t.c.handler = "request"
    BY <2>3, <2>5, GotoIs
  <2>7. H!Ahead(t) = H!Ahead(s)
    BY <2>6 DEF H!Ahead, H!Pos, H!Last_
  <2>8. Base(t) /\ (Outstanding(t) <=> Outstanding(s)) /\ SameNet(s, t)
    <3>1. SameNet(s, t)
      BY <2>3, <2>6 DEF SameNet
    <3> QED
      BY <2>6, <3>1, SameNetBase
  <2>9. Answers(t) /\ Waits(t)
    BY <1>2, <2>1, <2>3, <2>6, <2>7, <2>8 DEF Answers, Waits, SameNet
  <2>10. Kept(t)
    BY <2>3, <2>6, <2>8, <2>9 DEF Kept, Base, HandlerOK
  <2> QED
    BY <1>2, <2>4, <2>5, <2>10 DEF H!DiscardAgain
<1> QED
  BY <1>1, <1>2

LEMMA DiscardNow ==
  ASSUME IInv, c.pc = "discard"
  PROVE  /\ Base(H!Now) /\ ~rev.posted /\ c.handler = "request"
         /\ H!Now.net = net /\ H!Now.rev = rev /\ H!Now.c = c /\ H!Now.r = conn_r /\ H!Now.buf = buf
         /\ rev.eof => conn_r.left > 0
         /\ conn_r.left > 0 => H!Ahead(H!Now) = 0
         /\ \/ conn_r.resp = "none" /\ conn_r.reh = "block" /\ conn_r.count = 1 /\ ~rev.eof
            \/ conn_r.resp = "on" /\ conn_r.reh = "discard" /\ conn_r.count = 2 /\
                 conn_r.discard /\ ~rev.eof
            \/ conn_r.resp = "on" /\ conn_r.reh = "discard" /\ conn_r.count = 1
            \/ conn_r.resp = "done" /\ conn_r.reh = "discard" /\ conn_r.count = 1 /\ conn_r.lt
<1>1. /\ H!Now.net = net /\ H!Now.rev = rev /\ H!Now.c = c /\ H!Now.r = conn_r /\ H!Now.buf = buf
      /\ Typed(H!Now)
  BY NowParts
<1>2. Kept(H!Now) /\ Sighted(H!Now) /\ HandlerOK(H!Now) /\ ~rev.posted
  BY <1>1 DEF IInv, Kept
<1>3. c.handler = "request" /\ Answers(H!Now)
  BY <1>1, <1>2 DEF HandlerOK
<1>4. /\ rev.eof => conn_r.left > 0
      /\ conn_r.left > 0 => H!Ahead(H!Now) = 0
      /\ \/ conn_r.resp = "none" /\ conn_r.reh = "block" /\ conn_r.count = 1 /\ ~rev.eof
         \/ conn_r.resp = "on" /\ conn_r.reh = "discard" /\ conn_r.count = 2 /\ conn_r.discard /\
              ~rev.eof
         \/ conn_r.resp = "on" /\ conn_r.reh = "discard" /\ conn_r.count = 1
         \/ conn_r.resp = "done" /\ conn_r.reh = "discard" /\ conn_r.count = 1 /\ conn_r.lt
  BY <1>1, <1>3 DEF Answers
<1> QED
  BY <1>1, <1>2, <1>3, <1>4 DEF Base

LEMMA ReadDiscardedStep ==
  ASSUME H!HttpConnectionAssumption, IInv, H!ReadDiscarded
  PROVE  IInv'
<1>0. /\ Base(H!Now) /\ ~rev.posted /\ c.handler = "request" /\ c.pc = "discard"
      /\ H!Now.net = net /\ H!Now.rev = rev /\ H!Now.c = c /\ H!Now.r = conn_r /\ H!Now.buf = buf
      /\ rev.eof => conn_r.left > 0
      /\ conn_r.left > 0 => H!Ahead(H!Now) = 0
      /\ \/ conn_r.resp = "none" /\ conn_r.reh = "block" /\ conn_r.count = 1 /\ ~rev.eof
         \/ conn_r.resp = "on" /\ conn_r.reh = "discard" /\ conn_r.count = 2 /\ conn_r.discard /\
              ~rev.eof
         \/ conn_r.resp = "on" /\ conn_r.reh = "discard" /\ conn_r.count = 1
         \/ conn_r.resp = "done" /\ conn_r.reh = "discard" /\ conn_r.count = 1 /\ conn_r.lt
  BY DiscardNow DEF H!ReadDiscarded
<1>1. /\ Typed(H!Now) /\ H!Now \in States /\ net \in Net /\ rev \in Rev /\ c \in Con /\
           conn_r \in Request
      /\ H!Ahead(H!Now) \in Nat /\ net.read <= net.sent
  BY <1>0, StateParts, NowParts DEF Base
<1>a. conn_r.left \in Nat /\ net.read \in Nat /\ net.sent \in Nat
  BY <1>1 DEF Request, Net
<1>2. PICK size : size = H!Wants(conn_r)
  OBVIOUS
<1>3. size \in Nat /\ (conn_r.left > 0 => size > 0 /\ size <= conn_r.left)
  BY <1>a, <1>2 DEF H!Wants
<1>4. PICK n : n = IF conn_r.left > 0 /\ rev.ready THEN H!Arrived(size) ELSE 0
  OBVIOUS
<1>5. /\ n \in Nat /\ net.read + n <= net.sent
      /\ (conn_r.left > 0 /\ rev.ready /\ n = 0 => net.read = net.sent)
      /\ n > 0 => conn_r.left > 0 /\ rev.ready /\ n <= conn_r.left
  <2>1. /\ H!Arrived(size) \in Nat /\ net.read + H!Arrived(size) <= net.sent
        /\ H!Arrived(size) <= size
        /\ (size > 0 /\ H!Arrived(size) = 0 => net.read = net.sent)
    BY <1>1, <1>3, Arrival
  <2> QED
    BY <1>1, <1>a, <1>3, <1>4, <2>1
<1>6. PICK s : s = IF conn_r.left > 0 /\ rev.ready THEN H!Recv(H!Now, n) ELSE H!Now
  OBVIOUS
<1>7. /\ Base(s) /\ s.c = c /\ s.r = conn_r /\ s.buf = buf /\ s.rev.posted = rev.posted
      /\ n > 0 => ~s.rev.eof
      /\ conn_r.left > 0 /\ n = 0 /\ Outstanding(s) => s.rev.event
      /\ conn_r.left > 0 /\ n = 0 /\ rev.ready => ~Outstanding(s)
      /\ s.rev.eof => rev.eof \/ (conn_r.left > 0 /\ n = 0 /\ rev.ready /\ net.fin)
  <2>1. CASE conn_r.left > 0 /\ rev.ready
    <3>1. s = H!Recv(H!Now, n)
      BY <1>6, <2>1
    <3>2. n = 0 => net.read = net.sent
      BY <1>5, <2>1
    <3>3. /\ Base(s)
          /\ (s.rev.eof <=> rev.eof \/ (n = 0 /\ net.fin))
          /\ s.rev.event = rev.event /\ s.rev.posted = rev.posted
          /\ (n = 0 => ~Outstanding(s)) /\ s.buf = buf /\ s.c = c /\ s.r = conn_r
      BY <1>0, <1>1, <1>5, <3>1, <3>2, RecvKeeps
    <3>4. n > 0 => ~rev.eof
      BY <1>0, <1>a, <1>5 DEF Base, Sighted
    <3> QED
      BY <2>1, <3>3, <3>4
  <2>2. CASE ~(conn_r.left > 0 /\ rev.ready)
    <3>1. s = H!Now /\ n = 0
      BY <1>4, <1>6, <2>2
    <3>2. conn_r.left > 0 /\ Outstanding(H!Now) => rev.event
      BY <1>0, <2>2 DEF Base, Sighted
    <3> QED
      BY <1>0, <2>2, <3>1, <3>2
  <2> QED
    BY <2>1, <2>2
<1>8. \/ conn_r.left = 0 /\ H!Becomes(H!Discarded([H!Now EXCEPT !.r.reh = "block"]))
      \/ n > 0 /\ H!Becomes([s EXCEPT !.r.left = @ - n])
      \/ conn_r.left > 0 /\ n = 0 /\ rev.ready /\ net.fin /\ H!Becomes(H!Discarded(s))
      \/ /\ conn_r.left > 0 /\ n = 0 /\ ~(rev.ready /\ net.fin)
         /\ H!Becomes(H!DiscardAgain(s))
  <2>1. \/ conn_r.left = 0 /\ H!Becomes(H!Discarded([H!Now EXCEPT !.r.reh = "block"]))
        \/ conn_r.left > 0 /\ n > 0 /\ H!Becomes([s EXCEPT !.r.left = @ - n])
        \/ conn_r.left > 0 /\ n = 0 /\ rev.ready /\ net.fin /\ H!Becomes(H!Discarded(s))
        \/ /\ ~(conn_r.left = 0) /\ ~(conn_r.left > 0 /\ n > 0)
           /\ ~(conn_r.left > 0 /\ n = 0 /\ rev.ready /\ net.fin)
           /\ H!Becomes(H!DiscardAgain(s))
    BY <1>2, <1>4, <1>6 DEF H!ReadDiscarded
  <2> QED
    BY <1>a, <1>5, <2>1
<1>9. H!Ahead(s) = H!Ahead(H!Now)
  BY <1>0, <1>7 DEF H!Ahead, H!Pos, H!Last_
<1>10. CASE conn_r.left = 0 /\ H!Becomes(H!Discarded([H!Now EXCEPT !.r.reh = "block"]))
  <2>1. PICK q : q = [conn_r EXCEPT !.reh = "block"]
    OBVIOUS
  <2>2. q \in Request
    BY <1>1, <2>1 DEF Request
  <2>3. q.reh = "block" /\ q.left = 0 /\ q.count = conn_r.count /\ q.resp = conn_r.resp
    BY <1>1, <1>10, <2>1 DEF Request
  <2>4. PICK d : d = Put(H!Now, rev, c, q)
    OBVIOUS
  <2>5. Typed(d) /\ d.net = net /\ d.rev = rev /\ d.c = c /\ d.r = q
    BY <1>0, <1>1, <2>2, <2>4, Made
  <2>6. d = [H!Now EXCEPT !.r.reh = "block"]
    BY <1>0, <1>1, <2>1, <2>4 DEF Put, States
  <2>7. Base(d)
    BY <1>0, <2>5, BaseKept
  <2>8. Kept(H!Discarded(d))
    <3>1. ~d.rev.eof /\ ~(d.r.left > 0)
      BY <1>0, <1>10, <2>3, <2>5
    <3>2. \/ d.r.resp = "none" /\ d.r.reh = "block" /\ d.r.count = 1
          \/ d.r.resp # "none" /\ d.r.count = 1
          \/ d.r.resp = "on" /\ d.r.count = 2 /\ d.r.reh = "block"
      BY <1>0, <2>3, <2>5
    <3> QED
      BY <1>0, <2>5, <2>7, <3>1, <3>2, DiscardedKept
  <2> QED
    BY <1>10, <2>6, <2>8, OnStep
<1>11. CASE n > 0 /\ H!Becomes([s EXCEPT !.r.left = @ - n])
  <2>0. s \in States /\ s.rev \in Rev
    BY <1>7, StateParts DEF Base
  <2>1. PICK l : l = conn_r.left - n
    OBVIOUS
  <2>2. l \in Nat
    BY <1>a, <1>5, <1>11, <2>1
  <2>3. PICK q : q = [conn_r EXCEPT !.left = l]
    OBVIOUS
  <2>4. q \in Request
    BY <1>1, <2>2, <2>3 DEF Request
  <2>5. /\ q.reh = conn_r.reh /\ q.count = conn_r.count /\ q.resp = conn_r.resp /\ q.in = conn_r.in
        /\ q.discard = conn_r.discard /\ q.lt = conn_r.lt
    BY <1>1, <2>3 DEF Request
  <2>6. PICK t : t = Put(s, s.rev, c, q)
    OBVIOUS
  <2>7. Typed(t) /\ t.net = s.net /\ t.rev = s.rev /\ t.c = c /\ t.r = q /\ t.buf = buf
    BY <1>1, <1>7, <2>0, <2>4, <2>6, Made DEF Base
  <2>8. t = [s EXCEPT !.r.left = @ - n]
    BY <1>7, <2>0, <2>1, <2>3, <2>6 DEF Put, States
  <2>9. H!Ahead(t) = H!Ahead(H!Now)
    BY <1>0, <2>5, <2>7 DEF H!Ahead, H!Pos, H!Last_
  <2>10. Base(t)
    BY <1>7, <2>7, BaseKept
  <2>11. Answers(t)
    BY <1>0, <1>5, <1>7, <1>11, <2>5, <2>7, <2>9 DEF Answers
  <2>12. Kept(t)
    BY <1>0, <1>7, <2>7, <2>10, <2>11 DEF Kept, Base, HandlerOK
  <2> QED
    BY <1>11, <2>8, <2>12, OnStep
<1>12. CASE conn_r.left > 0 /\ n = 0 /\ rev.ready /\ net.fin /\ H!Becomes(H!Discarded(s))
  <2>1. Kept(H!Discarded(s))
    BY <1>0, <1>7, <1>9, <1>12, DiscardedKept
  <2> QED
    BY <1>12, <2>1, OnStep
<1>13. CASE /\ conn_r.left > 0 /\ n = 0 /\ ~(rev.ready /\ net.fin)
            /\ H!Becomes(H!DiscardAgain(s))
  <2>1. s.rev.eof => rev.eof
    BY <1>7, <1>13
  <2>2. Kept(H!DiscardAgain(s))
    BY <1>0, <1>7, <1>9, <1>13, <2>1, DiscardAgainKept
  <2> QED
    BY <1>13, <2>2, OnStep
<1> QED
  BY <1>8, <1>10, <1>11, <1>12, <1>13

LEMMA ResponseDoneStep ==
  ASSUME H!HttpConnectionAssumption, IInv, H!ResponseDone
  PROVE  IInv'
<1>0. /\ Base(H!Now) /\ ~rev.posted /\ c.handler = "request" /\ c.pc = "idle" /\ conn_r.resp = "on"
      /\ H!Now.net = net /\ H!Now.rev = rev /\ H!Now.c = c /\ H!Now.r = conn_r /\ H!Now.buf = buf
      /\ Answers(H!Now) /\ Waits(H!Now)
  <2>1. /\ H!Now.net = net /\ H!Now.rev = rev /\ H!Now.c = c /\ H!Now.r = conn_r /\ H!Now.buf = buf
        /\ Typed(H!Now) /\ c.pc = "idle" /\ conn_r.resp = "on"
    BY NowParts DEF H!ResponseDone
  <2>2. Sighted(H!Now) /\ HandlerOK(H!Now) /\ Waits(H!Now)
        /\ (rev.posted => c.handler \in {"wait", "line", "keepalive"})
    BY <2>1 DEF IInv, Kept
  <2>3. c.handler = "request" /\ Answers(H!Now)
    BY <2>1, <2>2 DEF HandlerOK, Fresh
  <2> QED
    BY <2>1, <2>2, <2>3 DEF Base
<1>1. /\ Typed(H!Now) /\ H!Now \in States /\ rev \in Rev /\ c \in Con /\ conn_r \in Request
  BY <1>0, StateParts, NowParts DEF Base
<1>2. PICK v : v = [rev EXCEPT !.timer = FALSE]
  OBVIOUS
<1>3. /\ v \in Rev /\ v.posted = rev.posted /\ v.ready = rev.ready /\ v.event = rev.event
      /\ v.eof = rev.eof
  BY <1>1, <1>2 DEF Rev
<1>4. PICK q : q = [conn_r EXCEPT !.resp = "done"]
  OBVIOUS
<1>5. q \in Request
  BY <1>1, <1>4 DEF Request
<1>6. /\ q.resp = "done" /\ q.reh = conn_r.reh /\ q.count = conn_r.count /\
           q.left = conn_r.left /\ q.in = conn_r.in
      /\ q.discard = conn_r.discard
  BY <1>1, <1>4 DEF Request
<1>7. PICK s : s = Put(H!Now, v, c, q)
  OBVIOUS
<1>8. Typed(s) /\ s.net = net /\ s.rev = v /\ s.c = c /\ s.r = q /\ s.buf = buf
  BY <1>0, <1>1, <1>3, <1>5, <1>7, Made
<1>9. s = [H!Now EXCEPT !.rev.timer = FALSE, !.r.resp = "done"]
  BY <1>0, <1>1, <1>2, <1>4, <1>7 DEF Put, States
<1>10. SameNet(H!Now, s) /\ Base(s) /\ (Outstanding(s) <=> Outstanding(H!Now)) /\
         H!Ahead(s) = H!Ahead(H!Now)
  <2>1. SameNet(H!Now, s)
    BY <1>0, <1>3, <1>8 DEF SameNet
  <2>2. H!Ahead(s) = H!Ahead(H!Now)
    BY <1>0, <1>6, <1>8 DEF H!Ahead, H!Pos, H!Last_
  <2> QED
    BY <1>0, <1>8, <2>1, <2>2, SameNetBase
<1>11. PICK t : t = IF rev.eof THEN H!CloseRequest(s) ELSE H!FinalizeConnection(s)
  OBVIOUS
<1>12. H!Becomes(t)
  <2>1. \E x \in {[H!Now EXCEPT !.rev.timer = FALSE, !.r.resp = "done"]} :
          H!Becomes(IF rev.eof THEN H!CloseRequest(x) ELSE H!FinalizeConnection(x))
    BY DEF H!ResponseDone
  <2> QED
    BY <1>9, <1>11, <2>1
<1>13. conn_r.count = 1 \/ (conn_r.count = 2 /\ conn_r.reh = "discard" /\ conn_r.discard /\ ~rev.eof)
  BY <1>0 DEF Answers
<1>14. CASE conn_r.count = 1
  <2>1. CASE rev.eof
    <3>1. t = H!Closed(s)
      BY <1>6, <1>8, <1>11, <1>14, <2>1 DEF H!CloseRequest
    <3> QED
      BY <1>8, <1>12, <3>1, ClosedKept, OnStep
  <2>2. CASE ~rev.eof
    <3>1. Kept(t)
      BY <1>0, <1>3, <1>6, <1>8, <1>10, <1>11, <1>14, <2>2, FinalizedLast
    <3> QED
      BY <1>12, <3>1, OnStep
  <2> QED
    BY <2>1, <2>2
<1>15. CASE conn_r.count = 2 /\ conn_r.reh = "discard" /\ conn_r.discard /\ ~rev.eof
  <2>0. s \in States
    BY <1>8, StateParts
  <2>1. PICK w : w = [v EXCEPT !.timer = TRUE]
    OBVIOUS
  <2>2. /\ w \in Rev /\ w.posted = rev.posted /\ w.ready = rev.ready /\ w.event = rev.event
        /\ w.eof = rev.eof /\ w.timer
    BY <1>3, <2>1 DEF Rev
  <2>3. PICK p : p = [q EXCEPT !.reh = "discard", !.lt = TRUE, !.count = 1]
    OBVIOUS
  <2>4. p \in Request
    BY <1>5, <2>3 DEF Request
  <2>5. /\ p.resp = "done" /\ p.reh = "discard" /\ p.count = 1 /\ p.left = conn_r.left /\
             p.in = conn_r.in
        /\ p.lt
    BY <1>5, <1>6, <2>3 DEF Request
  <2>6. PICK d : d = Put(s, w, c, p)
    OBVIOUS
  <2>7. Typed(d) /\ d.net = net /\ d.rev = w /\ d.c = c /\ d.r = p /\ d.buf = buf
    BY <1>1, <1>8, <2>2, <2>4, <2>6, Made
  <2>8. PICK e : e = [s EXCEPT !.r.reh = "discard", !.rev.timer = TRUE, !.r.lt = TRUE]
    OBVIOUS
  <2>9. e.r.count = 2 /\ d = [e EXCEPT !.r.count = @ - 1]
    <3>1. PICK g : g = [q EXCEPT !.reh = "discard", !.lt = TRUE]
      OBVIOUS
    <3>2. g \in Request /\ g.count = 2
      BY <1>5, <1>6, <1>15, <3>1 DEF Request
    <3>3. e = [s EXCEPT !.rev = w, !.r = g]
      BY <1>8, <2>0, <2>1, <2>8, <3>1 DEF States
    <3>4. e.r = g /\ e.c = c
      BY <1>8, <2>0, <3>3 DEF States
    <3>5. p = [g EXCEPT !.count = g.count - 1]
      <4>1. g.count - 1 = 1
        BY <3>2
      <4> QED
        BY <1>5, <2>3, <3>1, <4>1 DEF Request
    <3>6. [e EXCEPT !.r.count = @ - 1] = [e EXCEPT !.r = p]
      BY <2>0, <3>3, <3>4, <3>5 DEF States
    <3> QED
      BY <1>8, <2>0, <2>6, <3>2, <3>3, <3>4, <3>6 DEF Put, States
  <2>10. H!FinalizeConnection(s) = H!Goto(d, "idle")
    <3>1. H!CloseRequest(e) = H!Goto(d, "idle")
      BY <2>9 DEF H!CloseRequest
    <3>2. s.r.count # 1 /\ s.r.discard = TRUE
      <4>1. s.r.count = 2 /\ s.r.discard = conn_r.discard /\ conn_r.discard \in BOOLEAN
        BY <1>1, <1>6, <1>8, <1>15 DEF Request
      <4> QED
        BY <1>15, <4>1
    <3>3. H!FinalizeConnection(s) = H!CloseRequest(e)
      BY <2>8, <3>2 DEF H!FinalizeConnection
    <3> QED
      BY <3>1, <3>3
  <2>11. /\ Typed(t) /\ t.net = net /\ t.rev = w /\ t.r = p /\ t.buf = buf
         /\ t.c.pc = "idle" /\ t.c.handler = "request"
    BY <1>0, <1>11, <1>15, <2>7, <2>10, GotoIs
  <2>12. H!Ahead(t) = H!Ahead(H!Now)
    BY <1>0, <2>5, <2>11 DEF H!Ahead, H!Pos, H!Last_
  <2>13. Base(t) /\ (Outstanding(t) <=> Outstanding(H!Now))
    <3>1. SameNet(H!Now, t)
      BY <1>0, <2>2, <2>11 DEF SameNet
    <3> QED
      BY <1>0, <2>11, <3>1, SameNetBase
  <2>14. Answers(t) /\ Waits(t)
    BY <1>0, <1>15, <2>2, <2>5, <2>11, <2>12, <2>13 DEF Answers, Waits
  <2>15. Kept(t)
    BY <1>0, <2>2, <2>11, <2>13, <2>14 DEF Kept, Base, HandlerOK
  <2> QED
    BY <1>12, <2>15, OnStep
<1> QED
  BY <1>13, <1>14, <1>15

LEMMA LingeringCloseStep ==
  ASSUME H!HttpConnectionAssumption, IInv, H!LingeringClose
  PROVE  IInv'
<1>0. /\ Base(H!Now) /\ ~rev.posted /\ c.handler = "linger" /\ c.pc = "linger"
      /\ conn_r.count = 1 /\ conn_r.resp = "done"
      /\ H!Now.net = net /\ H!Now.rev = rev /\ H!Now.c = c /\ H!Now.r = conn_r
      /\ Typed(H!Now) /\ net \in Net /\ net.read <= net.sent
  <2>1. /\ H!Now.net = net /\ H!Now.rev = rev /\ H!Now.c = c /\ H!Now.r = conn_r
        /\ Typed(H!Now) /\ c.pc = "linger" /\ net \in Net /\ net.read <= net.sent
    BY NowParts DEF H!LingeringClose
  <2>2. Sighted(H!Now) /\ HandlerOK(H!Now) /\ ~rev.posted
    BY <2>1 DEF IInv, Kept
  <2> QED
    BY <2>1, <2>2 DEF HandlerOK, Base, Answers
<1>1. PICK n : n = net.sent - net.read
  OBVIOUS
<1>2. n \in Nat /\ net.read + n <= net.sent /\ (n = 0 => net.read = net.sent)
  <2>1. net.sent \in Nat /\ net.read \in Nat
    BY <1>0 DEF Net
  <2> QED
    BY <1>0, <1>1, <2>1
<1>3. PICK s : s = H!Recv(H!Now, n)
  OBVIOUS
<1>4. /\ Base(s) /\ s.rev.posted = rev.posted /\ (n = 0 => ~Outstanding(s)) /\ s.c = c /\ s.r = conn_r
  BY <1>0, <1>2, <1>3, RecvKeeps
<1>5. \/ n > 0 /\ H!Becomes(s)
      \/ H!Becomes(H!Closed(H!Now))
      \/ n = 0 /\ H!Becomes(H!Goto([s EXCEPT !.rev.timer = TRUE], "idle"))
  BY <1>1, <1>2, <1>3 DEF H!LingeringClose
<1>6. CASE n > 0 /\ H!Becomes(s)
  <2>1. Kept(s)
    BY <1>0, <1>4 DEF Kept, Base, HandlerOK
  <2> QED
    BY <1>6, <2>1, OnStep
<1>7. CASE n = 0 /\ H!Becomes(H!Goto([s EXCEPT !.rev.timer = TRUE], "idle"))
  <2>1. PICK d : d = [s EXCEPT !.rev.timer = TRUE]
    OBVIOUS
  <2>2. /\ Typed(d) /\ SameNet(s, d) /\ d.rev.timer /\ d.rev.posted = s.rev.posted
        /\ d.c = c /\ d.r = conn_r
    BY <1>4, <2>1, TimerIs DEF Base
  <2>3. PICK t : t = H!Goto(d, "idle")
    OBVIOUS
  <2>4. /\ Typed(t) /\ t.net = d.net /\ t.rev = d.rev /\ t.r = conn_r /\ t.c.pc = "idle"
        /\ t.c.handler = "linger"
    BY <1>0, <2>2, <2>3, GotoIs
  <2>5. Base(t) /\ ~Outstanding(t)
    <3>1. SameNet(s, t)
      BY <2>2, <2>4 DEF SameNet
    <3> QED
      BY <1>4, <1>7, <2>4, <3>1, SameNetBase
  <2>6. Kept(t)
    BY <1>0, <1>4, <2>2, <2>4, <2>5 DEF Kept, Base, HandlerOK, Waits
  <2> QED
    BY <1>7, <2>1, <2>3, <2>6, OnStep
<1> QED
  BY <1>5, <1>6, <1>7, Closes

-----------------------------------------------------------------------------
LEMMA InitOK ==
  ASSUME H!HttpConnectionAssumption, H!Init
  PROVE  IInv
<1>1. stream \in Streams /\ 1 <= Len(stream) /\ Len(stream) \in Nat
  <2>1. PICK R : R = [n : Nat, part : {"crlf", "line", "body"}, end : BOOLEAN, head : BOOLEAN,
                      body : Nat, chunked : BOOLEAN, keep : BOOLEAN]
    OBVIOUS
  <2>2. stream \in Streams /\ stream # <<>> /\ stream \in Seq(R)
    BY <2>1 DEF H!Init, H!HttpConnectionAssumption
  <2> QED
    BY <2>2
<1>2. PICK deferred \in BOOLEAN :
        /\ net = [sent |-> IF deferred THEN 1 ELSE 0, read |-> 0, fin |-> FALSE]
        /\ rev = [ready |-> deferred, posted |-> deferred, timer |-> ~deferred,
                  event |-> FALSE, eof |-> FALSE]
        /\ c = [handler |-> "wait", reusable |-> ~deferred, pc |-> "idle"]
  BY DEF H!Init
<1>3. /\ net \in Net /\ net.read <= net.sent /\ net.sent <= Len(stream) /\ ~net.fin
      /\ net.read < net.sent <=> deferred
  BY <1>1, <1>2 DEF Net
<1>4. /\ rev \in Rev /\ rev.ready = deferred /\ rev.posted = deferred /\ rev.timer = ~deferred
      /\ ~rev.eof
  BY <1>2 DEF Rev
<1>5. c \in Con /\ c.handler = "wait" /\ c.pc = "idle"
  BY <1>2 DEF Con
<1>6. /\ buf = [i \in 0..Num |-> H!Empty] /\ hc = [busy |-> <<>>, free |-> <<>>]
      /\ conn_r = H!NoRequest
  BY DEF H!Init
<1>7. hc \in Hc /\ buf \in [0..Num -> Buf] /\ conn_r \in Request /\ Fresh(conn_r)
      /\ \A i \in 0..Num : buf[i].pos <= Len(buf[i].data)
  BY <1>6, EmptyBuffers, NoRequestFresh DEF Hc
<1>8. PICK s : s = H!Now
  OBVIOUS
<1>9. /\ s.net = net /\ s.rev = rev /\ s.buf = buf /\ s.hc = hc /\ s.c = c /\ s.r = conn_r
      /\ s \in States
  BY <1>3, <1>4, <1>5, <1>7, <1>8 DEF H!Now, States
<1>10. Typed(s)
  BY <1>3, <1>7, <1>9 DEF Typed
<1>11. Sighted(s) /\ Waits(s) /\ HandlerOK(s)
  BY <1>3, <1>4, <1>5, <1>7, <1>9 DEF Sighted, Waits, HandlerOK, Outstanding
<1> QED
  BY <1>1, <1>5, <1>8, <1>9, <1>10, <1>11 DEF IInv, Kept

LEMMA NextKeeps ==
  ASSUME H!HttpConnectionAssumption, IInv, [H!Next]_(H!vars)
  PROVE  IInv'
<1>1. CASE H!Done \/ UNCHANGED H!vars
  <2>1. UNCHANGED H!vars
    BY <1>1 DEF H!Done
  <2>2. H!Becomes(H!Now) /\ Kept(H!Now)
    BY <2>1, NowParts DEF H!Becomes, H!vars, IInv
  <2> QED
    BY <2>2, OnStep
<1>2. CASE H!Timeout \/ H!DrainConnection \/ H!Terminate \/ H!LingeringOver
  BY <1>2, Closes DEF H!Timeout, H!DrainConnection, H!Terminate, H!LingeringOver
<1> QED
  BY <1>1, <1>2, ClientStep, EventStep, WaitRequestStep, ParseUnitStep, ReadHeaderStep,
     AllocLargeStep, HandleStep, DoReadBodyStep, ReadDiscardedStep, ResponseDoneStep,
     LingeringCloseStep DEF H!Next

(* When a client connection is as it should be, it is attended. *)
LEMMA IInvAttended ==
  ASSUME IInv
  PROVE  H!Attended
<1> SUFFICES ASSUME c.pc = "idle"
             PROVE  /\ net.read < net.sent \/ (net.fin /\ ~rev.eof) =>
                         rev.event \/ rev.posted \/ (conn_r.resp = "on" /\ conn_r.reh = "block")
                    /\ rev.timer \/ rev.posted \/ conn_r.resp = "on"
  BY DEF H!Attended
<1>1. Waits(H!Now) /\ H!Now.net = net /\ H!Now.rev = rev /\ H!Now.r = conn_r
  BY NowParts DEF IInv, Kept
<1> QED
  BY <1>1 DEF Waits, Outstanding

-----------------------------------------------------------------------------
MCvars == <<part, vars, hvars, pvars, uvars, ovars>>

ConnectionInv == part = "connection" => IInv

(* Every step of the handlers of ngx_http_request.c and ngx_http_request_body.c keeps the
   connection as they need it: c->read is ready or has an event to come as long as
   something has arrived that was not read, each handler runs with the request that it
   belongs to, and a request is held (r->count) by the body that is discarded and by the
   response, which the last one of them ends. *)
THEOREM HttpConnectionInvariant == MCSpec => []ConnectionInv
<1>1. MCInit => ConnectionInv
  BY InitOK, HttpConnectionAssumption DEF MCInit, ConnectionInv
<1>2. ASSUME ConnectionInv, [MCNext]_MCvars PROVE ConnectionInv'
  <2> SUFFICES ASSUME part' = "connection" PROVE IInv'
    BY DEF ConnectionInv
  <2>1. part = "connection" /\ IInv
    BY <1>2 DEF MCNext, MCvars, ConnectionInv
  <2>2. [H!Next]_(H!vars)
    BY <1>2, <2>1 DEF MCNext, MCvars, hvars, H!vars
  <2> QED
    BY <2>1, <2>2, NextKeeps, HttpConnectionAssumption
<1> QED
  BY <1>1, <1>2, PTL DEF MCSpec, MCvars

(* No client is forgotten, for every client and every size of the buffers: whenever the
   process leaves a connection, what has arrived or the client's close has an event that
   is pending or was posted by ngx_http_set_keepalive(), unless the end of a response
   comes first, and a silent client meets the timer of c->read. *)
THEOREM AttendedHolds == MCSpec => []Attended
<1>1. ConnectionInv => Attended
  BY IInvAttended DEF ConnectionInv, Attended
<1> QED
  BY <1>1, HttpConnectionInvariant, PTL
=============================================================================
