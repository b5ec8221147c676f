------------------------------ MODULE CacheSync ------------------------------
(***************************************************************************)
(* The package metadata cache of a user (crs/cache_db.cpp): what the       *)
(* remote repositories last said, in one SQLite database that every bpt    *)
(* process of the user opens. open_ready_cache (cli/cmd/cache_util.cpp)    *)
(* synchronises and enables the repositories of a command, one after the   *)
(* other. Meanwhile the repositories change, time passes, requests fail,   *)
(* and other processes do the same.                                        *)
(*                                                                         *)
(* A remote is one row per unique name, with the URL it was last read      *)
(* from; a URL that comes to serve a repository of another name gets a     *)
(* second row. An ETag is the content it names. What is left out: the      *)
(* Last-Modified validator, which does what the ETag does, and the Age     *)
(* header, which moves the time of a response back.                        *)
(***************************************************************************)
EXTENDS Integers, Sequences

CONSTANTS Procs,
          Urls,
          FileUrls,     \* those with the scheme `file:', read in place
          Names,        \* unique names of repositories
          Serves,       \* Serves[u]: the repositories that u may come to serve
          Packages,     \* package ids
          Metas,        \* what the metadata of a package can be
          Invalid,      \* metadata that does not parse, or of a revision below one
          Listings,     \* what the table of packages of a repository can be
          CacheControls, \* of the servers' responses: a max-age, no-cache, or none
          MaxAge,
          MaxTime, MaxPublishes, MaxCommands, MaxUrls,   \* bounds
          None

VARIABLES
    server,    \* what each URL serves
    now,       \* steady_clock
    remotes,   \* bpt_crs_remotes, by unique_name
    packages,  \* bpt_crs_packages of each remote
    pc,        \* where each process is in use_repo
    todo,      \* the repositories it has yet to use, first the one it is at
    mode,      \* its --repo-sync-mode
    prior,     \* the ETag it sends along
    info,      \* remote_repo_db_info: what it will note down
    enabled,   \* bpt_crs_enabled_remotes, temporary and its own
    publishes, commands,
    heard,     \* history: the time of the latest response of a URL with a max-age
    alone      \* history: the processes since whose look at the prior
               \* information nobody else imported anything

procVars == <<pc, todo, mode, prior, info, enabled>>
tableVars == <<remotes, packages>>
vars == <<server, now, tableVars, procVars, publishes, commands, heard, alone>>

Content == [name : Names, listing : Listings]
Modes == {"always", "cached_okay", "never"}
Times == 0..MaxTime

Infos == [etag : Content \cup {None}, time : Times \cup {None}, cache_control : CacheControls]
Row == [url : Urls, revno : Nat, etag : Content \cup {None}, time : Times \cup {None},
        cache_control : CacheControls]
Package == [meta : Metas, revno : Nat]

ASSUME CacheSyncAssumption ==
    /\ FileUrls \subseteq Urls
    /\ Serves \in [Urls -> SUBSET Names]
    /\ Listings \subseteq [Packages -> Metas \cup {Invalid, None}]
    /\ None \in CacheControls /\ CacheControls \subseteq {"max-age", "no-cache", None}
    /\ None \notin {"max-age", "no-cache"}
    /\ {MaxAge, MaxTime, MaxPublishes, MaxCommands, MaxUrls} \subseteq Nat
    /\ None \notin Metas \cup {Invalid} \cup Times \cup Content \cup Infos \cup Row \cup Package
    /\ Invalid \notin Metas

Steps == {"idle", "next", "request", "touch", "import", "enable", "ready"}

(* There are no headers with a file. *)
MayServe(u, content, cc) == content.name \in Serves[u] /\ (u \in FileUrls => cc = None)

Init == /\ server \in [Urls -> [content : Content, cache_control : CacheControls]]
        /\ \A u \in Urls : MayServe(u, server[u].content, server[u].cache_control)
        /\ now = 0
        /\ remotes = [n \in Names |-> None]
        /\ packages = [n \in Names |-> [k \in Packages |-> None]]
        /\ pc = [p \in Procs |-> "idle"]
        /\ todo = [p \in Procs |-> <<>>]
        /\ mode = [p \in Procs |-> None]
        /\ prior = [p \in Procs |-> None]
        /\ info = [p \in Procs |-> None]
        /\ enabled = [p \in Procs |-> {}]
        /\ publishes = 0
        /\ commands = 0
        /\ heard = [u \in Urls |-> None]
        /\ alone = {}

Url(p) == Head(todo[p])

Rows(u) == {n \in Names : remotes[n] # None /\ remotes[n].url = u}

Go(p, a, b) == pc[p] = a /\ pc' = [pc EXCEPT ![p] = b]

(* The command is over, with its connection and temporary tables. *)
Stop(p) == /\ pc' = [pc EXCEPT ![p] = "idle"]
           /\ todo' = [todo EXCEPT ![p] = <<>>]
           /\ mode' = [mode EXCEPT ![p] = None]
           /\ prior' = [prior EXCEPT ![p] = None]
           /\ info' = [info EXCEPT ![p] = None]
           /\ enabled' = [enabled EXCEPT ![p] = {}]
           /\ alone' = alone \ {p}
-----------------------------------------------------------------------------
(* The world. *)
Publish(u, content, cc) ==
    /\ publishes < MaxPublishes
    /\ publishes' = publishes + 1
    /\ MayServe(u, content, cc)
    /\ server' = [server EXCEPT ![u] = [content |-> content, cache_control |-> cc]]
    /\ UNCHANGED <<now, tableVars, procVars, commands, heard, alone>>

Tick == /\ now < MaxTime
        /\ now' = now + 1
        /\ UNCHANGED <<server, tableVars, procVars, publishes, commands, heard, alone>>

(* open_ready_cache: --use-repo may name several, or the same twice. *)
StartCommand(p, urls, m) ==
    /\ commands < MaxCommands
    /\ commands' = commands + 1
    /\ Go(p, "idle", "next")
    /\ todo' = [todo EXCEPT ![p] = urls]
    /\ mode' = [mode EXCEPT ![p] = m]
    /\ UNCHANGED <<server, now, tableVars, prior, info, enabled, publishes, heard, alone>>
-----------------------------------------------------------------------------
(* sync_remote *)
DoNotSync(p) == /\ Go(p, "next", "enable")
                /\ mode[p] = "never"
                /\ UNCHANGED <<server, now, tableVars, todo, mode, prior, info, enabled,
                               publishes, commands, heard, alone>>

(* Mutation: no-cache is not heeded, nor the age. *)
ShouldRevalidateWithoutControl(row) == row.cache_control = None

ShouldRevalidate(row) == row.cache_control = "max-age" => row.time + MaxAge < now

(* Mutation: the WHERE clause of the prior information is gone. *)
PriorRowsOfAnyUrl(u) == {n \in Names : remotes[n] # None /\ remotes[n].etag # None}

PriorRows(u) == Rows(u)

(* A file: URL has no prior information and no validators. *)
OpenFile(p) == /\ Go(p, "next", "import")
               /\ mode[p] # "never"
               /\ Url(p) \in FileUrls
               /\ info' = [info EXCEPT ![p] = [etag |-> None, time |-> None,
                                               cache_control |-> None]]
               /\ UNCHANGED <<server, now, tableVars, todo, mode, prior, enabled,
                              publishes, commands, heard, alone>>

(* The prior information is read: SQL gives the rows in no promised order, *)
(* and the first is taken.                                                 *)
ReadPrior(p) ==
    /\ mode[p] # "never"
    /\ Url(p) \notin FileUrls
    /\ alone' = alone \cup {p}
    /\ UNCHANGED <<server, now, tableVars, todo, mode, enabled, publishes, commands, heard>>

NeverSeen(p) ==
    /\ Go(p, "next", "request")
    /\ ReadPrior(p)
    /\ PriorRows(Url(p)) = {}
    /\ prior' = [prior EXCEPT ![p] = None]
    /\ UNCHANGED info

Revalidate(p) ==
    /\ Go(p, "next", "request")
    /\ ReadPrior(p)
    /\ \E n \in PriorRows(Url(p)) :
           /\ ShouldRevalidate(remotes[n])
           /\ prior' = [prior EXCEPT ![p] = remotes[n].etag]
    /\ UNCHANGED info

(* Still fresh by the Cache-Control it came with: no request. *)
AnswerFresh(p) ==
    /\ Go(p, "next", "touch")
    /\ ReadPrior(p)
    /\ \E n \in PriorRows(Url(p)) :
           /\ ~ShouldRevalidate(remotes[n])
           /\ info' = [info EXCEPT ![p] = [etag |-> remotes[n].etag, time |-> remotes[n].time,
                                           cache_control |-> remotes[n].cache_control]]
    /\ UNCHANGED prior

(* Mutation: noted down is the time until which the response is fresh. *)
ResponseUntil(u) == [etag |-> server[u].content, time |-> now + MaxAge + 1,
                     cache_control |-> server[u].cache_control]

(* GET repo.db.gz, with the prior ETag if there is one. What the response  *)
(* says, at this time; the 304 only renews the age and the Cache-Control.  *)
Response(u) == [etag |-> server[u].content, time |-> now,
                cache_control |-> server[u].cache_control]

Request(p) ==
    /\ Go(p, "request", IF prior[p] = server[Url(p)].content THEN "touch" ELSE "import")
    /\ info' = [info EXCEPT ![p] = Response(Url(p))]
    /\ prior' = [prior EXCEPT ![p] = None]
    /\ heard' = [heard EXCEPT ![Url(p)] = IF server[Url(p)].cache_control = "max-age"
                                         THEN now ELSE @]
    /\ UNCHANGED <<server, now, tableVars, todo, mode, enabled, publishes, commands, alone>>

Touched(p, row) == [url |-> row.url, revno |-> row.revno, etag |-> row.etag,
                    time |-> info[p].time, cache_control |-> info[p].cache_control]

(* Up to date: UPDATE bpt_crs_remotes SET resource_time, cache_control,    *)
(* of every row there is.                                                  *)
Touch(p) == /\ Go(p, "touch", "enable")
            /\ remotes' = [n \in Names |-> IF remotes[n] = None THEN None
                                           ELSE Touched(p, remotes[n])]
            /\ info' = [info EXCEPT ![p] = None]
            /\ alone' = alone \ {p}
            /\ UNCHANGED <<server, now, packages, todo, mode, prior, enabled,
                           publishes, commands, heard>>
-----------------------------------------------------------------------------
(* The transaction that imports a listing: the remote's row is inserted,   *)
(* or updated with the next revision number, *)
Source(p) == IF Url(p) \in FileUrls THEN server[Url(p)].content ELSE info[p].etag

NewRow(p, n) ==
    [url |-> Url(p), revno |-> IF remotes[n] = None THEN 1 ELSE remotes[n].revno + 1,
     etag |-> info[p].etag, time |-> info[p].time, cache_control |-> info[p].cache_control]

(* Mutation: only the packages that are new get the revision number. *)
UpsertedIfNew(old, listing, revno) ==
    [k \in Packages |-> IF listing[k] \in Metas /\ old[k] = None
                        THEN [meta |-> listing[k], revno |-> revno] ELSE old[k]]

(* each package with good metadata is inserted or updated, *)
Upserted(old, listing, revno) ==
    [k \in Packages |-> IF listing[k] \in Metas
                        THEN [meta |-> listing[k], revno |-> revno] ELSE old[k]]

(* and what still has an older revision number is deleted. *)
WithoutOld(table, revno) ==
    [k \in Packages |-> IF table[k] # None /\ table[k].revno < revno THEN None ELSE table[k]]

Import(p) ==
    LET n == Source(p).name IN
    /\ Go(p, "import", "enable")
    /\ remotes' = [remotes EXCEPT ![n] = NewRow(p, n)]
    /\ packages' = [packages EXCEPT ![n] = WithoutOld(Upserted(@, Source(p).listing,
                                                              NewRow(p, n).revno),
                                                     NewRow(p, n).revno)]
    /\ info' = [info EXCEPT ![p] = None]
    /\ alone' = {}
    /\ UNCHANGED <<server, now, todo, mode, prior, enabled, publishes, commands, heard>>

(* The request fails, or the listing is no good: with --repo-sync=always   *)
(* the command ends; else what is cached under the URL has to do. The      *)
(* failed transaction is rolled back.                                      *)
Fail(p) == /\ pc[p] \in {"request", "import"}
           /\ \/ /\ mode[p] # "always"
                 /\ Rows(Url(p)) # {}
                 /\ pc' = [pc EXCEPT ![p] = "enable"]
                 /\ prior' = [prior EXCEPT ![p] = None]
                 /\ info' = [info EXCEPT ![p] = None]
                 /\ alone' = alone \ {p}
                 /\ UNCHANGED <<todo, mode, enabled>>
              \/ /\ mode[p] = "always" \/ Rows(Url(p)) = {}
                 /\ Stop(p)
           /\ UNCHANGED <<server, now, tableVars, publishes, commands, heard>>
-----------------------------------------------------------------------------
(* enable_remote: an error unless it adds a remote. *)
CanEnable(p) == Rows(Url(p)) \ enabled[p] # {}

Enable(p) == /\ Go(p, "enable", IF Tail(todo[p]) = <<>> THEN "ready" ELSE "next")
             /\ CanEnable(p)
             /\ enabled' = [enabled EXCEPT ![p] = @ \cup Rows(Url(p))]
             /\ todo' = [todo EXCEPT ![p] = Tail(@)]
             /\ UNCHANGED <<server, now, tableVars, mode, prior, info,
                            publishes, commands, heard, alone>>

NoSuchRemote(p) == /\ pc[p] = "enable"
                   /\ ~CanEnable(p)
                   /\ Stop(p)
                   /\ UNCHANGED <<server, now, tableVars, publishes, commands, heard>>

(* The command has its packages and ends; or the process dies anywhere, in *)
(* the transaction too.                                                    *)
Finish(p) == /\ pc[p] # "idle"
             /\ Stop(p)
             /\ UNCHANGED <<server, now, tableVars, publishes, commands, heard>>

UseRepo(p) == \/ DoNotSync(p) \/ OpenFile(p) \/ NeverSeen(p) \/ Revalidate(p)
              \/ AnswerFresh(p) \/ Request(p) \/ Touch(p) \/ Import(p) \/ Fail(p)
              \/ Enable(p) \/ NoSuchRemote(p) \/ Finish(p)

UrlLists == UNION {[1..i -> Urls] : i \in 1..MaxUrls}

Next == \/ Tick
        \/ \E u \in Urls, content \in Content, cc \in CacheControls : Publish(u, content, cc)
        \/ \E p \in Procs, urls \in UrlLists, m \in Modes : StartCommand(p, urls, m)
        \/ \E p \in Procs : UseRepo(p)

Spec == Init /\ [][Next]_vars
-----------------------------------------------------------------------------
TypeOK ==
    /\ server \in [Urls -> [content : Content, cache_control : CacheControls]]
    /\ now \in Times
    /\ remotes \in [Names -> Row \cup {None}]
    /\ packages \in [Names -> [Packages -> Package \cup {None}]]
    /\ pc \in [Procs -> Steps]
    /\ todo \in [Procs -> Seq(Urls)]
    /\ \A p \in Procs : todo[p] = <<>> <=> pc[p] \in {"idle", "ready"}
    /\ mode \in [Procs -> Modes \cup {None}]
    /\ prior \in [Procs -> Content \cup {None}]
    /\ info \in [Procs -> Infos \cup {None}]
    /\ \A p \in Procs : info[p] # None <=> pc[p] \in {"touch", "import"}
    /\ enabled \in [Procs -> SUBSET Names]
    /\ publishes \in 0..MaxPublishes
    /\ commands \in 0..MaxCommands
    /\ heard \in [Urls -> Times \cup {None}]
    /\ alone \in SUBSET Procs

(* The cache never mixes two listings, whatever processes synchronise at   *)
(* the same time, fail or die: the packages of a remote are exactly the    *)
(* good ones of the listing that its ETag names. (Else the next 304 would  *)
(* confirm the mixture, and for ever.)                                     *)
PackagesMatchEtag ==
    \A n \in Names :
        IF remotes[n] = None THEN \A k \in Packages : packages[n][k] = None
        ELSE /\ \A k \in Packages :
                    packages[n][k] # None => packages[n][k].revno = remotes[n].revno
             /\ remotes[n].etag # None =>
                    /\ remotes[n].etag.name = n
                    /\ \A k \in Packages :
                           IF remotes[n].etag.listing[k] \in Metas
                           THEN /\ packages[n][k] # None
                                /\ packages[n][k].meta = remotes[n].etag.listing[k]
                           ELSE packages[n][k] = None

(* "Not modified" is only heard about what is in the cache: when a server  *)
(* confirms the ETag, the cached listing of that URL is the one confirmed, *)
(* unless another process has imported something since we looked.          *)
NotModifiedIsCached ==
    [][\A p \in Procs : Request(p) /\ pc'[p] = "touch" /\ p \in alone =>
          \E n \in Rows(Url(p)) : remotes[n].etag = server[Url(p)].content]_vars

(* A remote's data is used without asking only as long as some server      *)
(* allowed it: no more than a max-age after the last response with one.    *)
(* (Should be: after the last response of the remote in question.)         *)
FreshWithinSomeMaxAge ==
    [][\A p \in Procs : AnswerFresh(p) =>
          \E u \in Urls : heard[u] # None /\ now <= heard[u] + MaxAge]_vars

(* should_revalidate: "Determine whether we should revalidate a cached     *)
(* resource based on the cache-control and age of the resource". Not so:   *)
(* by the UPDATE without a WHERE, based on those of whatever remote was    *)
(* confirmed last.                                                         *)
FreshWithinItsMaxAge ==
    [][\A p \in Procs : AnswerFresh(p) =>
          heard[Url(p)] # None /\ now <= heard[Url(p)] + MaxAge]_vars
=============================================================================
