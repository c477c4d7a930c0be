---------------------------- MODULE OpenFileCache ----------------------------
(***************************************************************************)
(* The cache of open descriptors of a worker (src/core/ngx_open_file_cache.c).    *)
(* An entry is what is known of a name: a descriptor, a directory, or an error.     *)
(* The requests that were given its descriptor are its count.  An entry that is     *)
(* replaced or expires while it is in use leaves the tree and the queue, and its     *)
(* last user closes the descriptor.                                        *)
(*                                                                         *)
(* A call runs to its end in one step.  The kernel gives out the lowest free         *)
(* descriptor.  Whether an entry is still valid and which ones have been inactive    *)
(* depends on times, and is a choice.  Of a file only its identity, uniq, counts.    *)
(* Events of files (kqueue only) are left out.                                *)
(***************************************************************************)
EXTENDS Naturals, FiniteSets, FiniteSetsExt, Sequences, SequencesExt

CONSTANTS
  Names,
  Users,      \* requests; each uses one file at a time
  Files,      \* values of uniq
  Nothing,    \* no file of this name, a closed descriptor, no user
  Directory,
  MaxEntries, \* cache->max
  MinUses,    \* of->min_uses
  BackAgain   \* whether a file that stat() found replaced may be back for open()

(* What is assumed of the constants; the modules of the instances state it. *)
OpenFileCacheAssumption == MaxEntries > 0 /\ MinUses > 0 /\ BackAgain \in BOOLEAN

VARIABLES
  disk,    \* name -> what is there
  cache,   \* the entries; the ones in the tree; expire_queue, the latest one first;
           \* current; the descriptors of the process; whether a close() has failed
  user     \* user -> the entry and the descriptor it was given

vars == <<disk, cache, user>>

Invalid == 0                                    \* NGX_INVALID_FILE
Fds     == 1..MaxEntries + Cardinality(Users) + 1
Entries == 1..MaxEntries + Cardinality(Users)
OnDisk  == {Nothing, Directory} \cup Files

(* ngx_open_file_cache_init() *)
Init ==
  /\ disk \in [Names -> OnDisk]
  /\ cache = [ent |-> [e \in {} |-> Nothing], tree |-> {}, queue |-> <<>>, current |-> 0,
              fds |-> [f \in Fds |-> Nothing], alert |-> FALSE]
  /\ user = [u \in Users |-> Nothing]

-----------------------------------------------------------------------------
CloseFile(s, fd) ==
  [s EXCEPT !.fds[fd] = Nothing, !.alert = @ \/ s.fds[fd] = Nothing]

FreeEntry(s, e) == [s EXCEPT !.ent = [x \in DOMAIN @ \ {e} |-> @[x]]]

Unlink(s, e) == [s EXCEPT !.tree = @ \ {e}, !.current = @ - 1]

(* ngx_close_cached_file() *)
CloseCached(s, e, min) ==
  LET moved  == [s EXCEPT !.queue = <<e>> \o Remove(@, e)]
      closed == IF s.ent[e].fd = Invalid THEN s
                ELSE [CloseFile(s, s.ent[e].fd) EXCEPT !.ent[e].fd = Invalid]
  IN  CASE s.ent[e].close -> IF s.ent[e].count > 0 THEN s ELSE FreeEntry(closed, e)
        [] s.ent[e].uses >= min \/ s.ent[e].count > 0 -> moved
        [] OTHER -> [closed EXCEPT !.queue = moved.queue]

(* ngx_expire_old_cached_files(), one round: the entry that was not used for longest. *)
Expired(s) ==
  LET e == Last(s.queue)
      t == [Unlink(s, e) EXCEPT !.queue = Front(@)]
  IN  IF s.queue = <<>> THEN s
      ELSE IF s.ent[e].err \/ s.ent[e].dir THEN FreeEntry(t, e)
      ELSE CloseCached([t EXCEPT !.ent[e].close = TRUE], e, 0)

(* The caches after n of them, the inactive ones and one by force. *)
ExpireOld(s, n) ==
  CASE n = 0 -> s
    [] n = 1 -> Expired(s)
    [] n = 2 -> Expired(Expired(s))
    [] OTHER -> Expired(Expired(Expired(s)))

-----------------------------------------------------------------------------
(* ngx_open_and_stat_file(): what it may find, for a descriptor that is known or not.
   Between its stat() and its open() the file may change. *)

Of(rc, err, fd, uniq, dir) == [rc |-> rc, err |-> err, fd |-> fd, uniq |-> uniq, dir |-> dir]

\* open() or stat() fails; fstat() does, which is no error to remember
OpenError == Of("error", TRUE, Invalid, Nothing, FALSE)
InfoError == Of("error", FALSE, Invalid, Nothing, FALSE)

Open(s, there) ==
  LET fd == Min({f \in Fds : s.fds[f] = Nothing})
  IN  {OpenError, InfoError}
        \cup CASE there = Nothing -> {}
               [] there = Directory -> {Of("ok", FALSE, Invalid, Directory, TRUE)}
               [] OTHER -> {Of("ok", FALSE, fd, there, FALSE)}

OpenAndStat(s, name, fd, uniq) ==
  LET later == IF BackAgain THEN OnDisk ELSE OnDisk \ {uniq}
  IN  IF fd = Invalid THEN Open(s, disk[name])
      ELSE {OpenError}
             \cup CASE disk[name] = Nothing -> {}
                    [] disk[name] = uniq -> {Of("ok", FALSE, fd, uniq, FALSE)}
                    [] OTHER -> UNION {Open(s, there) : there \in later}

(* The descriptor is open from there on. *)
WithFile(s, of) == IF of.fd = Invalid THEN s ELSE [s EXCEPT !.fds[of.fd] = of.uniq]

-----------------------------------------------------------------------------
(* ngx_open_cached_file().  Each case is a set of what comes of it: the cache, and the    *)
(* entry whose descriptor the user gets, if any.                             *)

Result(s, e) == [cache |-> s, entry |-> e]

(* The label failed, with an entry, e, or without one, 0. *)
Failed(s, e, of) ==
  LET t == IF e = 0 THEN s
           ELSE IF s.ent[e].count > 0 THEN [Unlink(s, e) EXCEPT !.ent[e].close = TRUE]
           ELSE FreeEntry(IF s.ent[e].fd = Invalid THEN Unlink(s, e)
                          ELSE CloseFile(Unlink(s, e), s.ent[e].fd), e)
  IN  {Result(IF of.fd = Invalid THEN t ELSE CloseFile(t, of.fd), 0)}

(* The label found: back into the queue. *)
Found(s, e, of) ==
  {Result([s EXCEPT !.queue = <<e>> \o @], IF of.err \/ of.dir THEN 0 ELSE e)}

(* The label update. *)
Update(s, e, of) ==
  Found(IF of.err THEN [s EXCEPT !.ent[e].fd = of.fd, !.ent[e].err = TRUE]
        ELSE [s EXCEPT !.ent[e] =
                [@ EXCEPT !.fd = of.fd, !.err = FALSE, !.uniq = of.uniq, !.close = FALSE,
                          !.dir = of.dir, !.count = IF of.dir THEN @ ELSE @ + 1]], e, of)

(* The label create.  The memory of a new entry is not cleared; of what is left as it
   is only is_dir is ever looked at. *)
Create(s, name, of) ==
  UNION {LET t == ExpireOld(s, n)
             e == Min(Entries \ DOMAIN t.ent)
             new(dir) == [name |-> name, fd |-> Invalid, err |-> FALSE, dir |-> dir,
                          uniq |-> Nothing, uses |-> 1, count |-> 0, close |-> FALSE]
             put(dir) == [t EXCEPT !.ent = [x \in DOMAIN @ \cup {e} |->
                                              IF x = e THEN new(dir) ELSE @[x]],
                                   !.tree = @ \cup {e}, !.current = @ + 1]
         IN  Failed(t, 0, of) \cup UNION {Update(put(dir), e, of) : dir \in BOOLEAN}
         : n \in IF s.current >= MaxEntries THEN 1..3 ELSE {0}}

(* An error that is not to be cached, or cannot be. *)
Fails(of, errors) == of.rc = "error" /\ (~of.err \/ ~errors)

NotFound(s, name, errors) ==
  UNION {IF Fails(of, errors) THEN Failed(WithFile(s, of), 0, of)
         ELSE Create(WithFile(s, of), name, of) : of \in OpenAndStat(s, name, Invalid, Nothing)}

(* An entry whose file was closed, as it was not used often enough. *)
Reopened(s, e, errors) ==
  UNION {IF Fails(of, errors) THEN Failed(WithFile(s, of), e, of)
         ELSE Update(WithFile(s, of), e, of)
         : of \in OpenAndStat(s, s.ent[e].name, Invalid, Nothing)}

(* An entry that is valid. *)
Valid(s, e) ==
  LET x == s.ent[e]
  IN  Found(IF x.err \/ x.dir THEN s ELSE [s EXCEPT !.ent[e].count = @ + 1], e, x)

\* Bug: the descriptor of a file that has changed is closed under its users.
Unused_Any(s, e) == TRUE

Unused(s, e) == s.ent[e].count = 0

(* An entry that has to be looked at again. *)
Retested(s, e, errors) ==
  LET x == s.ent[e]
      same(of) == x.dir \/ x.err \/ (~of.err /\ ~of.dir /\ of.uniq = x.uniq)
      changed(t, of) ==
        IF Unused(t, e) THEN Update(CloseFile(t, x.fd), e, of)
        ELSE Create([Unlink(t, e) EXCEPT !.ent[e].close = TRUE], x.name, of)
  IN  UNION {LET t == WithFile(s, of)
             IN  CASE Fails(of, errors) -> Failed(t, e, of)
                   [] ~Fails(of, errors) /\ same(of) -> Update(t, e, of)
                   [] OTHER -> changed(t, of)
             : of \in OpenAndStat(s, x.name, x.fd, x.uniq)}

Results(name, errors, valid) ==
  LET known == {e \in cache.tree : cache.ent[e].name = name}
      e == CHOOSE x \in known : TRUE
      x == cache.ent[e]
      s == [cache EXCEPT !.ent[e].uses = IF @ < MinUses THEN @ + 1 ELSE @,
                         !.queue = Remove(@, e)]
  IN  CASE known = {} -> NotFound(cache, name, errors)
        [] known # {} /\ x.fd = Invalid /\ ~x.err /\ ~x.dir -> Reopened(s, e, errors)
        [] known # {} /\ (x.fd # Invalid \/ x.err \/ x.dir) /\ valid -> Valid(s, e)
        [] OTHER -> Retested(s, e, errors)

OpenCachedFile(u, name) ==
  /\ user[u] = Nothing
  /\ \E errors, valid \in BOOLEAN : \E r \in Results(name, errors, valid) :
       /\ cache' = r.cache
       /\ user' = [user EXCEPT ![u] =
                     IF r.entry = 0 THEN Nothing
                     ELSE [entry |-> r.entry, fd |-> r.cache.ent[r.entry].fd,
                           uniq |-> r.cache.ent[r.entry].uniq]]
  /\ UNCHANGED disk

(* ngx_open_file_cleanup(), when the pool of the request is destroyed. *)
OpenFileCleanup(u) ==
  /\ user[u] # Nothing
  /\ LET e == user[u].entry
         s == CloseCached([cache EXCEPT !.ent[e].count = @ - 1], e, MinUses)
     IN  \E n \in 0..2 : cache' = ExpireOld(s, n)
  /\ user' = [user EXCEPT ![u] = Nothing]
  /\ UNCHANGED disk

(* Somebody changes the files. *)
Change(name) ==
  /\ \E there \in OnDisk \ {disk[name]} : disk' = [disk EXCEPT ![name] = there]
  /\ UNCHANGED <<cache, user>>

Next ==
  \/ \E u \in Users : OpenFileCleanup(u) \/ \E name \in Names : OpenCachedFile(u, name)
  \/ \E name \in Names : Change(name)

Spec == Init /\ [][Next]_vars

-----------------------------------------------------------------------------
UsersOf(e) == {u \in Users : user[u] # Nothing /\ user[u].entry = e}

(* Whoever was given a descriptor has it, open on the file it was told, until it is done
   with it, whatever happens to the entry meanwhile; a descriptor has one owner and is
   closed once; and nothing is left over: an entry is in the tree and in the queue, one
   for a name and no more than there may be, or it is on its way out with its users. *)
Descriptors ==
  LET ent == cache.ent
  IN
  /\ ~cache.alert
  /\ \A u \in Users : user[u] # Nothing =>
       /\ user[u].entry \in DOMAIN ent
       /\ ent[user[u].entry].fd = user[u].fd
       /\ cache.fds[user[u].fd] = user[u].uniq
  /\ \A f \in Fds :
       LET owners == {e \in DOMAIN ent : ent[e].fd = f}
       IN  /\ Cardinality(owners) = IF cache.fds[f] = Nothing THEN 0 ELSE 1
           /\ \A e \in owners : cache.fds[f] = ent[e].uniq
  /\ \A e \in DOMAIN ent : ent[e].count = Cardinality(UsersOf(e))
  /\ \A e \in DOMAIN ent \ cache.tree : ent[e].close /\ ent[e].count > 0
  /\ \A e, x \in cache.tree : ent[e].name = ent[x].name => e = x
  /\ IsInjective(cache.queue) /\ ToSet(cache.queue) = cache.tree
  /\ cache.current = Cardinality(cache.tree) /\ cache.current <= MaxEntries
=============================================================================
