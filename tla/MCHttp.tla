------------------------------- MODULE MCHttp -------------------------------
(* Small instances for TLC of a request: how the requests of a connection are read,
   the normalization of a URI, the phases of one request, a request with subrequests,
   and the cache of the files that requests open.  A behaviour is one of these five; the
   variables of the others have no value. *)
EXTENDS Subrequests

CONSTANTS
  Streams, HeaderSize, LargeSize, Num, BodySize,
  Configs, Server, Locations, Named, Internal, SatisfyAny, Recursive, Handled,
  MaxChanges, Width,
  Chars, First, Second, MaxLen,
  Names, Users, Files, Nothing, Directory, MaxEntries, MinUses, BackAgain

VARIABLES part, stream, net, rev, buf, hc, c, conn_r, engine, phase_r,
          uri, merge_slashes, parser, disk, cache, user

H == INSTANCE HttpConnection WITH r <- conn_r
P == INSTANCE Phases WITH r <- phase_r
U == INSTANCE ComplexUri
O == INSTANCE OpenFileCache

hvars == <<stream, net, rev, buf, hc, c, conn_r>>
pvars == <<engine, phase_r>>
uvars == <<uri, merge_slashes, parser>>
ovars == <<disk, cache, user>>

ASSUME HttpConnectionAssumption == H!HttpConnectionAssumption
ASSUME PhasesAssumption == P!PhasesAssumption
ASSUME OpenFileCacheAssumption == O!OpenFileCacheAssumption

-----------------------------------------------------------------------------
(* A request of the client: line breaks before it, the lengths of its lines, of which
   the last one is empty, and its body. *)
Req(crlf, lines, body, chunked, keep) ==
  [crlf |-> crlf, lines |-> lines, body |-> body, chunked |-> chunked, keep |-> keep]

Units(n, q) ==
  LET u(of, end, head) ==
        [n |-> n, part |-> of, end |-> end, head |-> head, body |-> q.body,
         chunked |-> q.chunked, keep |-> q.keep]
      line(k) == [i \in 1..q.lines[k] |->
                    u("line", i = q.lines[k], i = q.lines[k] /\ k = Len(q.lines))]
  IN  [i \in 1..q.crlf |-> u("crlf", FALSE, FALSE)]
      \o FlattenSeq([k \in DOMAIN q.lines |-> line(k)])
      \o [i \in 1..q.body |-> u("body", FALSE, FALSE)]

StreamOf(qs) == FlattenSeq([n \in DOMAIN qs |-> Units(n, qs[n])])

(* Line breaks that fill a buffer, a pipelined request with a body; large buffers
   that are used again by the next requests; longer and chunked bodies; a header line
   and a request line that are too long, and more large buffers than there are. *)
AllStreams ==
  {StreamOf(<<Req(2, <<2, 1>>, 0, FALSE, TRUE), Req(1, <<1, 3, 1>>, 2, FALSE, TRUE),
              Req(0, <<1, 1>>, 0, FALSE, TRUE)>>),
   StreamOf(<<Req(0, <<3, 2, 2>>, 0, FALSE, TRUE), Req(0, <<2, 3, 1>>, 0, FALSE, TRUE),
              Req(3, <<3, 2, 1>>, 1, FALSE, TRUE), Req(0, <<1, 1>>, 0, FALSE, FALSE)>>),
   StreamOf(<<Req(0, <<1, 1>>, 4, FALSE, TRUE), Req(0, <<1, 1>>, 3, TRUE, TRUE),
              Req(0, <<1, 1>>, 0, FALSE, TRUE)>>),
   StreamOf(<<Req(0, <<2, 1>>, 3, TRUE, TRUE), Req(0, <<1, 1>>, 5, FALSE, FALSE),
              Req(0, <<1, 1>>, 0, FALSE, TRUE)>>),
   StreamOf(<<Req(0, <<1, 4, 1>>, 0, FALSE, TRUE), Req(0, <<1, 1>>, 0, FALSE, TRUE)>>),
   StreamOf(<<Req(0, <<4, 1>>, 2, FALSE, TRUE), Req(0, <<1, 1>>, 0, FALSE, TRUE)>>),
   StreamOf(<<Req(0, <<2, 3, 3, 1>>, 0, FALSE, TRUE), Req(0, <<1, 1>>, 0, FALSE, TRUE)>>)}

(* All phases in use, two handlers for the access and the content; and a server that
   only has content handlers and try_files. *)
AllConfigs ==
  {[handlers |-> [p \in {"post_read", "server_rewrite", "rewrite", "preaccess"} |-> 1]
                 @@ [p \in {"access", "content"} |-> 2],
    try_files |-> TRUE],
   [handlers |-> [p \in {"post_read", "server_rewrite", "rewrite", "preaccess", "access"} |-> 0]
                 @@ [p \in {"content"} |-> 1],
    try_files |-> TRUE]}

-----------------------------------------------------------------------------
NoConnection ==
  /\ stream = <<>> /\ net = <<>> /\ rev = <<>> /\ buf = <<>> /\ hc = <<>> /\ c = <<>>
  /\ conn_r = <<>>
NoPhases == engine = <<>> /\ phase_r = <<>>
NoUri == uri = <<>> /\ merge_slashes = <<>> /\ parser = <<>>
NoFiles == disk = <<>> /\ cache = <<>> /\ user = <<>>

MCInit ==
  /\ Init
  /\ \/ part = "subrequests" /\ NoConnection /\ NoPhases /\ NoUri /\ NoFiles
     \/ part = "connection" /\ call = "sync" /\ H!Init /\ NoPhases /\ NoUri /\ NoFiles
     \/ part = "phases" /\ call = "sync" /\ NoConnection /\ P!Init /\ NoUri /\ NoFiles
     \/ part = "uri" /\ call = "sync" /\ NoConnection /\ NoPhases /\ U!Init /\ NoFiles
     \/ part = "files" /\ call = "sync" /\ NoConnection /\ NoPhases /\ NoUri /\ O!Init

MCNext ==
  \/ part = "subrequests" /\ Next /\ UNCHANGED <<part, hvars, pvars, uvars, ovars>>
  \/ part = "connection" /\ H!Next /\ UNCHANGED <<part, vars, pvars, uvars, ovars>>
  \/ part = "phases" /\ P!Next /\ UNCHANGED <<part, vars, hvars, uvars, ovars>>
  \/ part = "uri" /\ U!Next /\ UNCHANGED <<part, vars, hvars, pvars, ovars>>
  \/ part = "files" /\ O!Next /\ UNCHANGED <<part, vars, hvars, pvars, uvars>>

(* Subrequests!Fairness, where there are subrequests. *)
MCFairness ==
  /\ WF_vars(part = "subrequests" /\ Step)
  /\ SF_vars(part = "subrequests" /\ \E r \in Requests : Finish(r))

MCSpec == MCInit /\ [][MCNext]_<<part, vars, hvars, pvars, uvars, ovars>> /\ MCFairness

(* Every request is what the client sent as this request: HttpConnection!Framing. *)
Framing == part = "connection" => H!Framing

(* The connection is never forgotten: HttpConnection!Attended. *)
Attended == part = "connection" => H!Attended

(* No content without permission: Phases!Guarded. *)
Guarded == part = "phases" => P!Guarded

(* Rewrites and redirects come to an end: Phases!Bounded. *)
Bounded == part = "phases" => P!Bounded

(* The URI is in normal form: ComplexUri!Normalized. *)
Normalized == part = "uri" => U!Normalized

(* Descriptors stay open for their users and none is lost: OpenFileCache!Descriptors. *)
Descriptors == part = "files" => O!Descriptors

(* A request with subrequests ends: Subrequests!Ends. *)
AllEnd == part = "subrequests" => Ends
=============================================================================
