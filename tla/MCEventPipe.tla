----------------------------- MODULE MCEventPipe -----------------------------
(* Small instances for TLC of the ways of a response: the event pipe, the output chain, a
   response without proxy_buffering, and an upgraded connection.  A behaviour is one of
   them; of the event pipe there is otherwise an initial state, of the rest no value. *)
EXTENDS EventPipe

CONSTANTS Setups, Shapes, MaxBufs, ClientRoom, Responses, Talks, PeerBufSize

VARIABLES part, setup, src, buf, ctx, out, chain_cli, chain_wev, chain_st,
          resp, plain_srv, plain_cli, plain_u, plain_rev, plain_wev, pc,
          talk, talk_peer, talk_buf, talk_rev, talk_wev, posted, call, watched

O == INSTANCE OutputChain WITH Room <- ClientRoom, cli <- chain_cli, wev <- chain_wev,
                               st <- chain_st
P == INSTANCE Unbuffered WITH BufSize <- PeerBufSize, Room <- ClientRoom, srv <- plain_srv,
                              u <- plain_u, cli <- plain_cli, rev <- plain_rev,
                              wev <- plain_wev
G == INSTANCE Upgraded WITH BufSize <- PeerBufSize, Room <- ClientRoom, peer <- talk_peer,
                            buf <- talk_buf, rev <- talk_rev, wev <- talk_wev

ovars == <<setup, src, buf, ctx, out, chain_cli, chain_wev, chain_st>>
pvars == <<resp, plain_srv, plain_cli, plain_u, plain_rev, plain_wev, pc>>
gvars == <<talk, talk_peer, talk_buf, talk_rev, talk_wev, posted, call>>

ASSUME OutputChainAssumption == O!OutputChainAssumption
ASSUME UnbufferedAssumption == P!UnbufferedAssumption
ASSUME UpgradedAssumption == G!UpgradedAssumption

-----------------------------------------------------------------------------
Conf(f, cacheable, length, limit, max, n) ==
  [filter |-> f, cacheable |-> cacheable, length |-> length, limit |-> limit,
   maxfile |-> max, total |-> n]

AllConfigs ==
  {Conf("copy", FALSE, FALSE, FALSE, 3, 7), Conf("copy", FALSE, TRUE, TRUE, 4, 5),
   Conf("copy", FALSE, TRUE, FALSE, 0, 6), Conf("chunked", FALSE, FALSE, FALSE, 4, 5),
   Conf("copy", TRUE, FALSE, FALSE, 0, 7), Conf("chunked", TRUE, FALSE, FALSE, 4, 5)}

Setup(num, size, postpone, limit, n) ==
  [num |-> num, size |-> size, postpone |-> postpone, limit |-> limit, total |-> n]

(* One buffer or two, smaller than postpone_output or larger, and one that can be made
   larger for the last part. *)
AllSetups ==
  {Setup(1, 2, 3, FALSE, 5), Setup(2, 1, 2, FALSE, 4), Setup(1, 1, 2, TRUE, 4),
   Setup(1, 4, 0, FALSE, 5)}

Shape(size, copy, flush) == [size |-> size, copy |-> copy, flush |-> flush]

AllShapes ==
  {Shape(0, FALSE, TRUE), Shape(0, FALSE, FALSE), Shape(1, FALSE, FALSE), Shape(2, FALSE, TRUE),
   Shape(1, TRUE, FALSE), Shape(3, TRUE, FALSE), Shape(2, TRUE, TRUE)}

Response(length, chunked, n) == [total |-> n, length |-> length, chunked |-> chunked]

(* With and without a length, cut off, longer than announced, chunked, and empty. *)
AllResponses ==
  {Response(-1, FALSE, 4), Response(4, FALSE, 4), Response(5, FALSE, 3),
   Response(2, FALSE, 4), Response(-1, TRUE, 3), Response(0, FALSE, 0)}

(* The server has spoken first; the client has spoken ahead. *)
AllTalks ==
  {[response |-> 4, request |-> 0, header |-> 2, ahead |-> 0],
   [response |-> 0, request |-> 4, header |-> 0, ahead |-> 1],
   [response |-> 1, request |-> 1, header |-> 0, ahead |-> 0]}

-----------------------------------------------------------------------------
NoChain ==
  /\ setup = <<>> /\ src = <<>> /\ buf = <<>> /\ ctx = <<>> /\ out = <<>>
  /\ chain_cli = <<>> /\ chain_wev = <<>> /\ chain_st = <<>>
NoPlain ==
  /\ resp = <<>> /\ plain_srv = <<>> /\ plain_cli = <<>> /\ plain_u = <<>>
  /\ plain_rev = <<>> /\ plain_wev = <<>> /\ pc = <<>>
NoTalk ==
  /\ talk = <<>> /\ talk_peer = <<>> /\ talk_buf = <<>> /\ talk_rev = <<>>
  /\ talk_wev = <<>> /\ posted = <<>> /\ call = <<>> /\ watched = <<>>

MCInit ==
  /\ Init
  /\ part \in {"pipe", "chain", "plain", "talk"}
  /\ part # "pipe" => conf = CHOOSE c \in Configs : TRUE
  /\ IF part = "chain" THEN O!Init ELSE NoChain
  /\ IF part = "plain" THEN P!Init ELSE NoPlain
  /\ IF part = "talk" THEN G!Init /\ watched \in G!Directions ELSE NoTalk

MCNext ==
  \/ part = "pipe" /\ Next /\ UNCHANGED <<part, watched, ovars, pvars, gvars>>
  \/ part = "chain" /\ O!Next /\ UNCHANGED <<part, watched, vars, pvars, gvars>>
  \/ part = "plain" /\ P!Next /\ UNCHANGED <<part, watched, vars, ovars, gvars>>
  \/ part = "talk" /\ G!Next /\ UNCHANGED <<part, watched, vars, ovars, pvars>>

(* The fairness of the four modules *)
MCFairness ==
  /\ WF_vars(part = "pipe" /\ (Worker \/ Drain \/ ReadEvent \/ WriteEvent \/ DelayTimer))
  /\ WF_vars(part = "pipe" /\ ServerCloses)
  /\ WF_vars(part = "pipe" /\ ClientReads)
  /\ WF_ovars(part = "chain" /\ O!Worker)
  /\ WF_ovars(part = "chain" /\ O!ClientReads)
  /\ WF_pvars(part = "plain" /\ P!Worker)
  /\ WF_pvars(part = "plain" /\ P!ServerCloses)
  /\ WF_pvars(part = "plain" /\ P!ClientReads)
  /\ WF_gvars(part = "talk" /\ G!Worker)
  /\ WF_gvars(part = "talk" /\ G!Closes("response"))
  /\ WF_gvars(part = "talk" /\ G!Receives("response"))

MCSpec == MCInit /\ [][MCNext]_<<part, watched, vars, ovars, pvars, gvars>> /\ MCFairness

(* All are implementations of the byte stream: EventPipe!Streamed and Unbuffered!Delivered
   of the response of a server, OutputChain!Delivered of the content of a handler, and
   either direction of an upgraded connection. *)
Result(end) == IF end \in {"complete", "broken", "alert"} THEN end ELSE "no"
AllStreams ==
  INSTANCE ByteStream WITH
    total  <- CASE part = "pipe" -> conf.total [] part = "chain" -> setup.total
                [] part = "plain" -> resp.total [] part = "talk" -> talk[watched],
    length <- IF part = "plain" /\ ~resp.chunked THEN resp.length ELSE -1,
    sent   <- CASE part = "pipe" -> srv.sent [] part = "chain" -> src.sent
                [] part = "plain" -> plain_srv.sent [] part = "talk" -> talk_peer[watched].sent,
    got    <- CASE part = "pipe" -> cli.got [] part = "chain" -> chain_cli.got
                [] part = "plain" -> plain_cli.got [] part = "talk" -> talk_peer[watched].got,
    closed <- CASE part = "pipe" -> srv.fin [] part = "chain" -> src.fin
                [] part = "plain" -> plain_srv.fin [] part = "talk" -> talk_peer[watched].fin,
    ended  <- CASE part = "pipe" -> Result(st.pc) [] part = "chain" -> Result(chain_st.pc)
                [] part = "plain" -> Result(pc) [] part = "talk" -> G!Ended(watched)
EveryResponse == AllStreams!Spec
==============================================================================
