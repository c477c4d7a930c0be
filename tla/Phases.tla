------------------------------- MODULE Phases -------------------------------
(***************************************************************************)
(* The phases of a request: the array of handlers that is built when the     *)
(* configuration is read (ngx_http_init_phase_handlers(), src/http/ngx_http.c) *)
(* and the checkers that walk through it (src/http/ngx_http_core_module.c),     *)
(* with all that sends a request back: rewrites, internal redirects, named       *)
(* locations, error pages (src/http/ngx_http_special_response.c) and post_action.*)
(*                                                                         *)
(* URIs are left out: which location a URI has, what a script of the rewrite    *)
(* module does, and whether an error page, try_files or post_action apply are   *)
(* choices.  What the configuration says of a location is a set of locations.  *)
(* A checker is one step, and so is what a content handler ends with.          *)
(***************************************************************************)
EXTENDS Naturals, Sequences, FiniteSets

CONSTANTS
  Configs,     \* [handlers : numbers of handlers of a phase, try_files : BOOLEAN]
  Server,      \* the configuration of the server, outside of all locations
  Locations,   \* locations that a URI may have
  Named,       \* named locations
  Internal,    \* locations with "internal"
  SatisfyAny,  \* locations with "satisfy any"
  Recursive,   \* locations with "recursive_error_pages on"
  Handled,     \* locations with a handler of their own, such as proxy_pass
  MaxChanges,  \* NGX_HTTP_MAX_URI_CHANGES
  Width        \* of the field uri_changes: 2^4

\* the phases for which modules may have handlers
HandlerPhases == {"post_read", "server_rewrite", "rewrite", "preaccess", "access", "content"}

(* What is assumed of the constants; the modules of the instances state it. *)
PhasesAssumption ==
  /\ Server \notin Locations \cup Named /\ Locations \cap Named = {}
  /\ Internal \cup SatisfyAny \cup Recursive \cup Handled \subseteq Locations \cup Named
  /\ MaxChanges \in Nat /\ Width \in Nat /\ MaxChanges + 1 < Width
  /\ Configs \subseteq [handlers : [HandlerPhases -> Nat], try_files : BOOLEAN]
  /\ \A conf \in Configs : conf.handlers["content"] > 0

VARIABLES
  engine,  \* cmcf->phase_engine: the handlers and two places in them
  r        \* the request, with the history that the properties speak of

vars == <<engine, r>>

-----------------------------------------------------------------------------
(* ngx_http_init_phase_handlers().  n counts the handlers; it is ahead of them   *)
(* between the access phase and the one after it.                            *)

NoHandlers == [ph |-> <<>>, n |-> 0, find |-> 0, server |-> 0, location |-> 0]

\* the handlers of a phase, which have the same checker, and a checker without a handler
Many(e, checker, n, h) ==
  [e EXCEPT !.ph = @ \o [i \in 1..h |-> [checker |-> checker, next |-> n + h]], !.n = n + h]
One(e, checker, next, n) ==
  [e EXCEPT !.ph = Append(@, [checker |-> checker, next |-> next]), !.n = n]

Handlers(checker, conf, e, p) == Many(e, checker, e.n, conf.handlers[p])

\* what each phase adds, in the order of ngx_http_phases
PostRead(conf, e) == Handlers("generic", conf, e, "post_read")
ServerRewrite(conf, e) ==
  [Handlers("rewrite", conf, e, "server_rewrite") EXCEPT !.server = e.n]
FindConfig(e)    == [One(e, "find_config", 0, e.n + 1) EXCEPT !.find = e.n]
Rewrite(conf, e) == [Handlers("rewrite", conf, e, "rewrite") EXCEPT !.location = e.n]
PostRewrite(conf, e) ==
  IF conf.handlers["rewrite"] > 0 THEN One(e, "post_rewrite", e.find, e.n + 1) ELSE e
Preaccess(conf, e) == Handlers("generic", conf, e, "preaccess")
Access(conf, e)    == Many(e, "access", e.n + 1, conf.handlers["access"])
PostAccess(conf, e) ==
  IF conf.handlers["access"] > 0 THEN One(e, "post_access", e.n, e.n) ELSE e
TryFiles(conf, e) == IF conf.try_files THEN One(e, "try_files", 0, e.n + 1) ELSE e
Content(conf, e)  == Handlers("content", conf, e, "content")

InitPhaseHandlers(conf) ==
  LET server   == FindConfig(ServerRewrite(conf, PostRead(conf, NoHandlers)))
      location == PostRewrite(conf, Rewrite(conf, server))
      access   == PostAccess(conf, Access(conf, Preaccess(conf, location)))
  IN  Content(conf, TryFiles(conf, access))

-----------------------------------------------------------------------------
(* ngx_http_handler() for a request of a client, which starts with the first phase, *)
(* or for a subrequest, which is internal.                                   *)
Init ==
  /\ \E conf \in Configs : engine = InitPhaseHandlers(conf)
  /\ \E main \in BOOLEAN :
       r = [ph |-> IF main THEN 0 ELSE engine.server, loc |-> Server, main |-> main,
            internal |-> ~main, changed |-> FALSE, changes |-> MaxChanges + 1,
            denied |-> FALSE, page |-> FALSE, handler |-> FALSE, post |-> FALSE,
            pc |-> "run", seen |-> {}, hops |-> 0]

(* r->loc_conf gets another value and ngx_http_update_location_config() follows.     *)
Located(q, l) ==
  [q EXCEPT !.loc = l, !.handler = @ \/ l \in Handled, !.seen = {}]

(* The checkers *)

\* the handler of the array that is next, and its index
At(checker) ==
  r.pc = "run" /\ r.ph < Len(engine.ph) /\ engine.ph[r.ph + 1].checker = checker
NextPhase   == engine.ph[r.ph + 1].next
Goes(q, pc) == [q EXCEPT !.pc = pc]
Advanced(q) == [q EXCEPT !.ph = @ + 1]
Saw(q, rc)  == [q EXCEPT !.seen = @ \cup {<<q.ph, rc>>}]

Becomes(q) == r' = q /\ UNCHANGED engine

(* ngx_http_core_generic_phase() *)
GenericPhase ==
  /\ At("generic")
  /\ \/ Becomes([r EXCEPT !.ph = NextPhase])
     \/ Becomes(Advanced(r))
     \/ \E pc \in {"wait", "error", "fail"} : Becomes(Goes(r, pc))

(* ngx_http_core_rewrite_phase() and ngx_http_rewrite_handler(): the script may     *)
(* change the URI, with a new look-up or without, and return a response.      *)
Script(q, change) ==
  IF change = "none" THEN q ELSE [q EXCEPT !.internal = TRUE, !.changed = change = "last"]

RewritePhase ==
  /\ At("rewrite")
  /\ IF r.ph = engine.location /\ r.loc = Server THEN Becomes(Advanced(r))
     ELSE \E change \in {"none", "last", "break"} :
            \/ Becomes(Advanced(Script(r, change)))
            \/ \E pc \in {"end", "error"} : Becomes(Goes(Script(r, change), pc))

(* ngx_http_core_find_config_phase(); the look-up may fail, the body may be too    *)
(* large, and a missing slash is a redirect of the client.                   *)
FindConfigPhase ==
  /\ At("find_config")
  /\ \E l \in Locations \cup {Server} :
       \E q \in {[r EXCEPT !.handler = FALSE, !.changed = FALSE, !.loc = l, !.seen = {}]} :
         \/ Becomes(Goes(q, "error"))
         \/ (l \in Internal => r.internal) /\ Becomes(Advanced(Located(q, l)))

(* r->uri_changes-- of a field of four bits, as all that goes back begins. *)
Hop(q) == [q EXCEPT !.changes = (@ + Width - 1) % Width, !.hops = @ + 1]

(* ngx_http_core_post_rewrite_phase() *)
PostRewritePhase ==
  /\ At("post_rewrite")
  /\ \/ ~r.changed /\ Becomes(Advanced(r))
     \/ r.changed /\ \E q \in {Hop(r)} :
          Becomes(IF q.changes = 0 THEN Goes(q, "error")
                  ELSE [q EXCEPT !.ph = NextPhase, !.loc = Server, !.seen = {}])

(* ngx_http_core_access_phase().  A refusal is remembered if one permission is     *)
(* enough; r->access_code is 401 or 403, which is the same here.              *)
AccessPhase ==
  /\ At("access")
  /\ \/ ~r.main /\ Becomes([r EXCEPT !.ph = NextPhase])
     \/ r.main /\ Becomes(Advanced(Saw(r, "declined")))
     \/ r.main /\ Becomes(IF r.loc \in SatisfyAny
                            THEN [Saw(r, "ok") EXCEPT !.denied = FALSE, !.ph = NextPhase]
                            ELSE Advanced(Saw(r, "ok")))
     \/ /\ r.main /\ r.loc \in SatisfyAny
        /\ Becomes(Advanced([Saw(r, "denied") EXCEPT !.denied = TRUE]))
     \/ r.main /\ \E pc \in {"wait", "error", "fail"} : Becomes(Goes(r, pc))

(* ngx_http_core_post_access_phase() *)
\* Bug: what was refused is forgotten.
PostAccessPhase_Forgets ==
  At("post_access") /\ Becomes(Advanced([r EXCEPT !.denied = FALSE]))

PostAccessPhase ==
  /\ At("post_access")
  /\ Becomes(IF r.denied THEN Goes([r EXCEPT !.denied = FALSE], "error") ELSE Advanced(r))

(* ngx_http_internal_redirect() *)
InternalRedirect(q) ==
  LET h == Hop(q)
  IN  IF h.changes = 0 THEN Goes(h, "error")
      ELSE Goes([Located(h, Server) EXCEPT !.internal = TRUE, !.ph = engine.server], "run")

(* ngx_http_named_location(); the name may be unknown. *)
NamedLocation(q, l) ==
  LET h == Hop(q)
  IN  IF h.changes = 0 \/ l \notin Named THEN Goes(h, "error")
      ELSE Goes([Located([h EXCEPT !.handler = FALSE], l) EXCEPT
                   !.internal = TRUE, !.changed = FALSE, !.ph = engine.location], "run")

Redirected(q) ==
  \/ Becomes(InternalRedirect(q))
  \/ \E l \in Named \cup {Server} : Becomes(NamedLocation(q, l))

(* ngx_http_core_try_files_phase(): no try_files here, or a file that is there; or     *)
(* the last argument, a code or a place to go on.                            *)
TryFilesPhase ==
  /\ At("try_files")
  /\ \/ Becomes(Advanced(Saw(r, "passed")))
     \/ Becomes(Goes(r, "error"))
     \/ Redirected(r)

(* ngx_http_core_content_phase() *)
ContentPhase ==
  /\ At("content")
  /\ \/ Becomes(Goes(r, "content"))
     \/ ~r.handler /\ Becomes(IF r.ph + 1 < Len(engine.ph) THEN Advanced(r)
                              ELSE Goes(r, "error"))

(* A content handler ends, at once or after events: with a response, an error, an    *)
(* internal redirect, as X-Accel-Redirect and index do, or, if it is that of the    *)
(* location, with the wish that the phase goes on.                            *)
ContentEnds ==
  /\ r.pc = "content"
  /\ \/ \E pc \in {"end", "fail", "error"} : Becomes(Goes(r, pc))
     \/ Becomes(InternalRedirect(r))
     \/ r.handler /\ Becomes(Goes([r EXCEPT !.handler = FALSE], "run"))

(* An event for a handler that waits, which is asked again, or the client is gone. *)
Event == r.pc = "wait" /\ \E pc \in {"run", "fail"} : Becomes(Goes(r, pc))

-----------------------------------------------------------------------------
(* ngx_http_finalize_request() *)

(* ngx_http_special_response_handler(), ngx_http_send_error_page(); the flag is set    *)
(* whether or not there is a page for this error.                            *)
Paged(q) == [q EXCEPT !.page = @ \/ q.loc \notin Recursive]

\* Bug: an error page is sent when no change of the URI is left.
SpecialResponse_Endless ==
  /\ r.pc = "error"
  /\ \/ \E pc \in {"end", "fail"} : Becomes(Goes(r, pc)) \/ Becomes(Goes(Paged(r), pc))
     \/ ~r.page /\ Redirected(Paged(r))

SpecialResponse ==
  /\ r.pc = "error"
  /\ \/ \E pc \in {"end", "fail"} : Becomes(Goes(r, pc))
     \/ ~r.page /\ r.changes # 0 /\ \E pc \in {"end", "fail"} : Becomes(Goes(Paged(r), pc))
     \/ ~r.page /\ r.changes # 0 /\ Redirected(Paged(r))

(* The request is over, or ngx_http_post_action() goes on with it. *)
EndRequest ==
  /\ r.pc \in {"end", "fail"}
  /\ \/ Becomes(Goes(r, "done"))
     \/ /\ r.main \/ r.pc = "fail"
        /\ ~(r.post /\ r.changes = 0)
        /\ Redirected([r EXCEPT !.post = TRUE])

Done == r.pc = "done" /\ UNCHANGED vars

Next ==
  \/ GenericPhase \/ RewritePhase \/ FindConfigPhase \/ PostRewritePhase
  \/ AccessPhase \/ PostAccessPhase \/ TryFilesPhase \/ ContentPhase
  \/ ContentEnds \/ Event \/ SpecialResponse \/ EndRequest \/ Done

Spec == Init /\ [][Next]_vars

-----------------------------------------------------------------------------
Places(checker) == {i \in 0..Len(engine.ph) - 1 : engine.ph[i + 1].checker = checker}
Asked(rc)       == {p[1] : p \in {s \in r.seen : s[2] = rc}}

(* No content without permission: whatever rewrites, redirects and error pages have   *)
(* sent a request to a location, its content phase is reached with no look-up       *)
(* pending, and only after the handlers of the access phase have been asked for      *)
(* this location, all of them or, where one is enough, up to the first that agrees,  *)
(* and after its try_files.  Subrequests are not asked.  An internal location is   *)
(* never reached by the URI that the client sent.                            *)
Guarded ==
  At("content") \/ r.pc = "content" =>
    /\ ~r.changed
    /\ r.main => \/ r.loc \in SatisfyAny /\ Asked("ok") # {}
                 \/ Places("access") \subseteq Asked("declined") \cup Asked("ok")
    /\ Places("try_files") \subseteq Asked("passed")
    /\ r.loc \in Internal => r.internal

(* Rewrites and redirects come to an end, though the field that counts them is     *)
(* narrow: before a post_action it never wraps, and MaxChanges of them are the    *)
(* most; a post_action that follows an exhausted count wraps it once, and what     *)
(* remains is at most one round of the field.                                *)
Bounded ==
  /\ ~r.post => r.changes = MaxChanges + 1 - r.hops
  /\ r.hops <= MaxChanges + 1 + Width
=============================================================================
