--------------------------- MODULE CacheSyncProofs ---------------------------
(***************************************************************************)
(* For any number of processes, repositories, packages and failures: the   *)
(* cache never mixes two listings of a repository, "not modified" is only  *)
(* heard about what is cached, and nothing is used unasked for longer than *)
(* some server allowed.                                                    *)
(***************************************************************************)
EXTENDS CacheSync, TLAPS

(* What a process is about to import from a server is a listing, and what  *)
(* it asks the server to confirm is cached.                                *)
ImportsContent ==
    \A p \in Procs :
        /\ pc[p] = "import" => IF Url(p) \in FileUrls THEN info[p].etag = None
                              ELSE info[p].etag \in Content
        /\ pc[p] = "request" => Url(p) \notin FileUrls

AsksAboutCached ==
    \A p \in alone : pc[p] = "request" /\ prior[p] # None =>
        \E n \in Rows(Url(p)) : remotes[n].etag = prior[p]

IInv == TypeOK /\ ImportsContent /\ AsksAboutCached /\ PackagesMatchEtag
-----------------------------------------------------------------------------
LEMMA UrlOfBusy ==
  ASSUME TypeOK, NEW p \in Procs, pc[p] \notin {"idle", "ready"}
  PROVE  /\ Url(p) \in Urls
         /\ Tail(todo[p]) \in Seq(Urls)
  BY DEF TypeOK, Url

LEMMA ListsAreSequences == \A urls \in UrlLists : urls \in Seq(Urls) /\ urls # <<>>
  BY CacheSyncAssumption DEF UrlLists

LEMMA InitIInv == Init => IInv
  BY CacheSyncAssumption
  DEF Init, IInv, TypeOK, ImportsContent, AsksAboutCached, PackagesMatchEtag, Steps, Times

LEMMA StopTypeOK ==
  ASSUME TypeOK, NEW p \in Procs, Stop(p)
  PROVE  /\ pc' \in [Procs -> Steps] /\ todo' \in [Procs -> Seq(Urls)]
         /\ \A q \in Procs : todo'[q] = <<>> <=> pc'[q] \in {"idle", "ready"}
         /\ mode' \in [Procs -> Modes \cup {None}]
         /\ prior' \in [Procs -> Content \cup {None}]
         /\ info' \in [Procs -> Infos \cup {None}]
         /\ \A q \in Procs : info'[q] # None <=> pc'[q] \in {"touch", "import"}
         /\ enabled' \in [Procs -> SUBSET Names]
         /\ alone' \in SUBSET Procs
  BY DEF TypeOK, Stop, Steps

LEMMA NextTypeOK == TypeOK /\ [Next]_vars => TypeOK'
<1> SUFFICES ASSUME TypeOK, [Next]_vars PROVE TypeOK'
  OBVIOUS
<1> USE CacheSyncAssumption, UrlOfBusy DEF procVars, tableVars
<1>1. CASE Tick
  BY <1>1 DEF TypeOK, Tick, Times
<1>2. ASSUME NEW u \in Urls, NEW content \in Content, NEW cc \in CacheControls,
             Publish(u, content, cc)
      PROVE  TypeOK'
  BY <1>2 DEF TypeOK, Publish, Times
<1>3. ASSUME NEW p \in Procs, NEW urls \in UrlLists, NEW m \in Modes,
             StartCommand(p, urls, m)
      PROVE  TypeOK'
  <2>1. urls \in Seq(Urls) /\ urls # <<>>
    BY <1>3, ListsAreSequences
  <2>2. /\ pc' \in [Procs -> Steps] /\ todo' \in [Procs -> Seq(Urls)]
        /\ mode' \in [Procs -> Modes \cup {None}] /\ commands' \in 0..MaxCommands
    BY <1>3, <2>1 DEF TypeOK, StartCommand, Go, Steps
  <2>3. /\ \A q \in Procs : todo'[q] = <<>> <=> pc'[q] \in {"idle", "ready"}
        /\ \A q \in Procs : info'[q] # None <=> pc'[q] \in {"touch", "import"}
    BY <1>3, <2>1 DEF TypeOK, StartCommand, Go
  <2> QED
    BY <1>3, <2>2, <2>3 DEF TypeOK, StartCommand
<1>4. ASSUME NEW p \in Procs, DoNotSync(p) PROVE TypeOK'
  BY <1>4 DEF TypeOK, DoNotSync, Go, Steps
<1>5. ASSUME NEW p \in Procs, OpenFile(p) PROVE TypeOK'
  <2>1. [etag |-> None, time |-> None, cache_control |-> None] \in Infos
    BY DEF Infos
  <2> QED
    BY <1>5, <2>1 DEF TypeOK, OpenFile, Go, Steps
<1>6. ASSUME NEW p \in Procs, NeverSeen(p) PROVE TypeOK'
  BY <1>6 DEF TypeOK, NeverSeen, ReadPrior, Go, Steps
<1>7. ASSUME NEW p \in Procs, Revalidate(p) PROVE TypeOK'
  BY <1>7 DEF TypeOK, Revalidate, ReadPrior, PriorRows, Rows, Row, Go, Steps
<1>8. ASSUME NEW p \in Procs, AnswerFresh(p) PROVE TypeOK'
  <2>1. PICK n \in Names :
            /\ remotes[n] \in Row
            /\ info' = [info EXCEPT ![p] = [etag |-> remotes[n].etag, time |-> remotes[n].time,
                                           cache_control |-> remotes[n].cache_control]]
    BY <1>8 DEF TypeOK, AnswerFresh, PriorRows, Rows
  <2>2. /\ info' \in [Procs -> Infos \cup {None}]
        /\ info'[p] # None
        /\ \A q \in Procs \ {p} : info'[q] = info[q]
    BY <2>1 DEF TypeOK, Row, Infos
  <2>3. /\ pc' \in [Procs -> Steps]
        /\ \A q \in Procs : /\ todo'[q] = <<>> <=> pc'[q] \in {"idle", "ready"}
                            /\ info'[q] # None <=> pc'[q] \in {"touch", "import"}
    BY <1>8, <2>2 DEF TypeOK, AnswerFresh, ReadPrior, Go, Steps
  <2> QED
    BY <1>8, <2>2, <2>3 DEF TypeOK, AnswerFresh, ReadPrior
<1>9. ASSUME NEW p \in Procs, Request(p) PROVE TypeOK'
  <2>1. Url(p) \in Urls
    BY <1>9 DEF Request, Go
  <2>2. Response(Url(p)) \in Infos
    BY <2>1 DEF TypeOK, Response, Infos
  <2> QED
    BY <1>9, <2>1, <2>2 DEF TypeOK, Request, Go, Steps
<1>10. ASSUME NEW p \in Procs, Touch(p) PROVE TypeOK'
  <2>1. info[p] \in Infos
    BY <1>10 DEF TypeOK, Touch, Go
  <2>2. \A n \in Names : remotes[n] # None => Touched(p, remotes[n]) \in Row
    BY <2>1 DEF TypeOK, Touched, Row, Infos
  <2> QED
    BY <1>10, <2>2 DEF TypeOK, Touch, Go, Steps
<1>11. ASSUME NEW p \in Procs, Import(p) PROVE TypeOK'
  <2> DEFINE n == Source(p).name
             revno == NewRow(p, n).revno
  <2>1. info[p] \in Infos /\ Url(p) \in Urls
    BY <1>11 DEF TypeOK, Import, Go
  <2>2. ASSUME n \in Names
        PROVE  NewRow(p, n) \in Row /\ revno \in Nat
    BY <2>1, <2>2 DEF TypeOK, NewRow, Row, Infos
  <2>3. remotes' \in [Names -> Row \cup {None}]
    BY <1>11, <2>2 DEF TypeOK, Import
  <2>4. ASSUME n \in Names
        PROVE  WithoutOld(Upserted(packages[n], Source(p).listing, revno), revno)
                 \in [Packages -> Package \cup {None}]
    <3>1. packages[n] \in [Packages -> Package \cup {None}]
      BY <2>4 DEF TypeOK
    <3>2. Upserted(packages[n], Source(p).listing, revno)
            \in [Packages -> Package \cup {None}]
      BY <2>2, <2>4, <3>1 DEF Upserted, Package
    <3> QED
      BY <3>2 DEF WithoutOld
  <2>5. packages' \in [Names -> [Packages -> Package \cup {None}]]
    BY <1>11, <2>4 DEF TypeOK, Import
  <2> QED
    BY <1>11, <2>3, <2>5 DEF TypeOK, Import, Go, Steps
<1>12. ASSUME NEW p \in Procs, Fail(p) PROVE TypeOK'
  <2>1. CASE Stop(p)
    BY <1>12, <2>1, StopTypeOK DEF TypeOK, Fail
  <2>2. CASE pc' = [pc EXCEPT ![p] = "enable"] /\ ~Stop(p)
    BY <1>12, <2>2 DEF TypeOK, Fail, Steps
  <2> QED
    BY <1>12, <2>1, <2>2 DEF Fail
<1>13. ASSUME NEW p \in Procs, Enable(p) PROVE TypeOK'
  BY <1>13 DEF TypeOK, Enable, Rows, Go, Steps
<1>14. ASSUME NEW p \in Procs, NoSuchRemote(p) PROVE TypeOK'
  BY <1>14, StopTypeOK DEF TypeOK, NoSuchRemote
<1>15. ASSUME NEW p \in Procs, Finish(p) PROVE TypeOK'
  BY <1>15, StopTypeOK DEF TypeOK, Finish
<1>16. CASE UNCHANGED vars
  BY <1>16 DEF TypeOK, vars
<1> QED
  BY <1>1, <1>2, <1>3, <1>4, <1>5, <1>6, <1>7, <1>8, <1>9, <1>10, <1>11, <1>12, <1>13,
     <1>14, <1>15, <1>16 DEF Next, UseRepo
-----------------------------------------------------------------------------
(* The two statements that write the tables. *)
LEMMA TablesChange ==
  ASSUME [Next]_vars
  PROVE  UNCHANGED tableVars \/ \E p \in Procs : Touch(p) \/ Import(p)
  BY DEF Next, UseRepo, vars, tableVars, Tick, Publish, StartCommand, DoNotSync, OpenFile,
         NeverSeen, Revalidate, AnswerFresh, ReadPrior, Request, Fail, Enable, NoSuchRemote,
         Finish

(* A process that is about to import opened the file or got the response   *)
(* just now, or it was about to before.                                    *)
LEMMA ImportersWere ==
  ASSUME TypeOK, [Next]_vars, NEW p \in Procs, pc'[p] = "import"
  PROVE  \/ OpenFile(p) \/ Request(p)
         \/ pc[p] = "import" /\ info'[p] = info[p] /\ todo'[p] = todo[p]
<1> USE DEF TypeOK, Go, Stop, procVars
<1>1. CASE Tick \/ UNCHANGED vars
  BY <1>1 DEF Tick, vars
<1>2. CASE \E u \in Urls, content \in Content, cc \in CacheControls : Publish(u, content, cc)
  BY <1>2 DEF Publish
<1>3. CASE \E q \in Procs, urls \in UrlLists, m \in Modes : StartCommand(q, urls, m)
  BY <1>3 DEF StartCommand
<1>4. ASSUME NEW q \in Procs, UseRepo(q)
      PROVE  \/ OpenFile(p) \/ Request(p)
             \/ pc[p] = "import" /\ info'[p] = info[p] /\ todo'[p] = todo[p]
  <2>1. CASE DoNotSync(q) \/ OpenFile(q) \/ NeverSeen(q) \/ Revalidate(q) \/ AnswerFresh(q)
    BY <2>1 DEF DoNotSync, OpenFile, NeverSeen, Revalidate, AnswerFresh, ReadPrior
  <2>2. CASE Request(q) \/ Touch(q) \/ Import(q)
    BY <2>2 DEF Request, Touch, Import
  <2>3. CASE Fail(q) \/ Enable(q) \/ NoSuchRemote(q) \/ Finish(q)
    BY <2>3 DEF Fail, Enable, NoSuchRemote, Finish
  <2> QED
    BY <1>4, <2>1, <2>2, <2>3 DEF UseRepo
<1> QED
  BY <1>1, <1>2, <1>3, <1>4 DEF Next

(* A process that is about to ask looked at the prior information just     *)
(* now, or it was about to before.                                         *)
LEMMA RequestersWere ==
  ASSUME TypeOK, [Next]_vars, NEW p \in Procs, pc'[p] = "request"
  PROVE  \/ NeverSeen(p) \/ Revalidate(p)
         \/ /\ pc[p] = "request" /\ prior'[p] = prior[p] /\ todo'[p] = todo[p]
            /\ p \in alone' => p \in alone
<1> DEFINE Before == /\ pc[p] = "request" /\ prior'[p] = prior[p] /\ todo'[p] = todo[p]
                     /\ p \in alone' => p \in alone
<1> USE DEF TypeOK, Go, Stop, procVars
<1>1. CASE Tick \/ UNCHANGED vars
  BY <1>1 DEF Tick, vars
<1>2. CASE \E u \in Urls, content \in Content, cc \in CacheControls : Publish(u, content, cc)
  BY <1>2 DEF Publish
<1>3. CASE \E q \in Procs, urls \in UrlLists, m \in Modes : StartCommand(q, urls, m)
  BY <1>3 DEF StartCommand
<1>4. ASSUME NEW q \in Procs, UseRepo(q)
      PROVE  NeverSeen(p) \/ Revalidate(p) \/ Before
  <2>1. CASE DoNotSync(q) \/ OpenFile(q) \/ NeverSeen(q) \/ Revalidate(q) \/ AnswerFresh(q)
    BY <2>1 DEF DoNotSync, OpenFile, NeverSeen, Revalidate, AnswerFresh, ReadPrior
  <2>2. CASE Request(q) \/ Touch(q) \/ Import(q)
    BY <2>2 DEF Request, Touch, Import
  <2>3. CASE Fail(q) \/ Enable(q) \/ NoSuchRemote(q) \/ Finish(q)
    BY <2>3 DEF Fail, Enable, NoSuchRemote, Finish
  <2> QED
    BY <1>4, <2>1, <2>2, <2>3 DEF UseRepo
<1> QED
  BY <1>1, <1>2, <1>3, <1>4 DEF Next

(* The age of a row is not what it is found or confirmed by. *)
LEMMA TouchKeepsRows ==
  ASSUME TypeOK, NEW p \in Procs, Touch(p)
  PROVE  /\ packages' = packages
         /\ \A n \in Names : /\ remotes'[n] = None <=> remotes[n] = None
                             /\ remotes[n] # None =>
                                    /\ remotes'[n].url = remotes[n].url
                                    /\ remotes'[n].revno = remotes[n].revno
                                    /\ remotes'[n].etag = remotes[n].etag
<1>1. \A n \in Names : remotes[n] # None => Touched(p, remotes[n]) \in Row
  <2>1. info[p] \in Infos
    BY DEF TypeOK, Touch, Go
  <2> QED
    BY <2>1 DEF TypeOK, Touched, Row, Infos
<1>2. \A n \in Names : remotes[n] # None => Touched(p, remotes[n]) # None
  BY <1>1, CacheSyncAssumption
<1> QED
  BY <1>2 DEF Touch, Touched
-----------------------------------------------------------------------------
LEMMA NextImportsContent ==
  ASSUME TypeOK, ImportsContent, [Next]_vars
  PROVE  ImportsContent'
<1>1. ASSUME NEW p \in Procs, pc'[p] = "import"
      PROVE  IF Url(p)' \in FileUrls THEN info'[p].etag = None ELSE info'[p].etag \in Content
  <2>1. CASE OpenFile(p)
    BY <2>1 DEF OpenFile, Url, TypeOK
  <2>2. CASE Request(p)
    <3>1. Url(p) \in Urls \ FileUrls
      BY <2>2, UrlOfBusy DEF Request, Go, ImportsContent
    <3>2. info'[p] = Response(Url(p)) /\ Url(p)' = Url(p)
      BY <2>2 DEF Request, TypeOK, Url
    <3> QED
      BY <3>1, <3>2 DEF Response, TypeOK
  <2>3. CASE pc[p] = "import" /\ info'[p] = info[p] /\ todo'[p] = todo[p]
    BY <2>3 DEF ImportsContent, Url
  <2> QED
    BY <1>1, <2>1, <2>2, <2>3, ImportersWere
<1>2. ASSUME NEW p \in Procs, pc'[p] = "request"
      PROVE  Url(p)' \notin FileUrls
  <2>1. CASE NeverSeen(p) \/ Revalidate(p)
    BY <2>1 DEF NeverSeen, Revalidate, ReadPrior, Url
  <2>2. CASE pc[p] = "request" /\ todo'[p] = todo[p]
    BY <2>2 DEF ImportsContent, Url
  <2> QED
    BY <1>2, <2>1, <2>2, RequestersWere
<1> QED
  BY <1>1, <1>2 DEF ImportsContent

LEMMA NextAsksAboutCached ==
  ASSUME TypeOK, AsksAboutCached, [Next]_vars
  PROVE  AsksAboutCached'
<1> SUFFICES ASSUME NEW p \in alone', pc'[p] = "request", prior'[p] # None
             PROVE  \E n \in Rows(Url(p))' : remotes'[n].etag = prior'[p]
  BY DEF AsksAboutCached
<1>1. p \in Procs
  BY NextTypeOK DEF TypeOK
<1>2. CASE NeverSeen(p)
  BY <1>1, <1>2 DEF NeverSeen, TypeOK
<1>3. CASE Revalidate(p)
  BY <1>1, <1>3 DEF Revalidate, ReadPrior, PriorRows, Rows, Url, tableVars, TypeOK
<1>4. CASE /\ pc[p] = "request" /\ prior'[p] = prior[p] /\ todo'[p] = todo[p]
           /\ p \in alone
  <2>1. PICK n \in Rows(Url(p)) : remotes[n].etag = prior[p]
    BY <1>4 DEF AsksAboutCached
  <2>2. CASE UNCHANGED tableVars
    BY <1>4, <2>1, <2>2 DEF Rows, Url, tableVars
  <2>3. ASSUME NEW q \in Procs, Touch(q)
        PROVE  n \in Rows(Url(p))' /\ remotes'[n].etag = prior'[p]
    BY <1>4, <2>1, <2>3, TouchKeepsRows DEF Rows, Url
  <2>4. ASSUME NEW q \in Procs, Import(q) PROVE FALSE
    BY <2>4 DEF Import
  <2> QED
    BY <2>1, <2>2, <2>3, <2>4, TablesChange
<1> QED
  BY <1>1, <1>2, <1>3, <1>4, RequestersWere

LEMMA NextPackagesMatchEtag ==
  ASSUME TypeOK, ImportsContent, PackagesMatchEtag, [Next]_vars
  PROVE  PackagesMatchEtag'
<1>1. CASE UNCHANGED tableVars
  BY <1>1 DEF PackagesMatchEtag, tableVars
<1>2. ASSUME NEW p \in Procs, Touch(p) PROVE PackagesMatchEtag'
  BY <1>2, TouchKeepsRows DEF PackagesMatchEtag
<1>3. ASSUME NEW p \in Procs, Import(p) PROVE PackagesMatchEtag'
  <2> DEFINE content == Source(p)
             n == content.name
             old == remotes[n]
             r == IF old = None THEN 0 ELSE old.revno
             row == NewRow(p, n)
  <2>1. info[p] \in Infos /\ Url(p) \in Urls
    BY <1>3, UrlOfBusy DEF TypeOK, Import, Go
  <2>2. content \in Content /\ (info[p].etag # None => content = info[p].etag)
    <3>1. CASE Url(p) \in FileUrls
      BY <1>3, <2>1, <3>1 DEF TypeOK, Source, ImportsContent, Import, Go
    <3>2. CASE Url(p) \notin FileUrls
      BY <1>3, <3>2 DEF Source, ImportsContent, Import, Go
    <3> QED
      BY <3>1, <3>2
  <2>3. n \in Names /\ content.listing \in Listings
    BY <2>2 DEF Content
  <2>4. r \in Nat /\ row.revno = r + 1 /\ row.etag = info[p].etag /\ row # None
    <3>1. r \in Nat /\ row.revno = r + 1 /\ row.etag = info[p].etag
      BY <2>3 DEF TypeOK, NewRow, Row
    <3>2. row \in Row
      BY <2>1, <3>1 DEF NewRow, Row, Infos
    <3> QED
      BY <3>1, <3>2, CacheSyncAssumption
  <2>5. \A k \in Packages : packages[n][k] # None => packages[n][k].revno = r
    BY <2>3 DEF PackagesMatchEtag
  <2>6. packages'[n] = WithoutOld(Upserted(packages[n], content.listing, row.revno), row.revno)
    BY <1>3, <2>3 DEF Import, TypeOK
  <2>7. ASSUME NEW k \in Packages
        PROVE  /\ content.listing[k] \in Metas =>
                      packages'[n][k] = [meta |-> content.listing[k], revno |-> row.revno]
               /\ content.listing[k] \notin Metas => packages'[n][k] = None
    <3> DEFINE upserted == Upserted(packages[n], content.listing, row.revno)
    <3>1. packages'[n][k] = IF upserted[k] # None /\ upserted[k].revno < row.revno
                            THEN None ELSE upserted[k]
      BY <2>6 DEF WithoutOld
    <3>2. CASE content.listing[k] \in Metas
      <4>1. upserted[k] = [meta |-> content.listing[k], revno |-> row.revno]
        BY <3>2 DEF Upserted
      <4>2. ~(upserted[k].revno < row.revno)
        BY <2>4, <4>1
      <4> HIDE DEF content, n, row, upserted
      <4> QED
        BY <3>1, <3>2, <4>1, <4>2
    <3>3. CASE content.listing[k] \notin Metas
      <4>1. upserted[k] = packages[n][k]
        BY <3>3 DEF Upserted
      <4>2. upserted[k] # None => upserted[k].revno < row.revno
        BY <2>4, <2>5, <4>1
      <4> HIDE DEF content, n, row, upserted
      <4> QED
        BY <3>1, <3>3, <4>2
    <3> QED
      BY <3>2, <3>3
  <2>8. \A k \in Packages : content.listing[k] \in Metas => packages'[n][k] # None
    <3> SUFFICES ASSUME NEW k \in Packages, content.listing[k] \in Metas
                 PROVE  packages'[n][k] \in Package
      BY CacheSyncAssumption
    <3>1. row.revno \in Nat
      BY <2>4
    <3>2. packages'[n][k] = [meta |-> content.listing[k], revno |-> row.revno]
      BY <2>7
    <3> HIDE DEF content, n, r, row
    <3> QED
      BY <3>1, <3>2 DEF Package
  <2>9. remotes'[n] = row
    BY <1>3, <2>3 DEF Import, TypeOK
  <2>10. \A m \in Names \ {n} : remotes'[m] = remotes[m] /\ packages'[m] = packages[m]
    BY <1>3 DEF Import, TypeOK
  <2> HIDE DEF content, n, r, row
  <2>11. ASSUME NEW k \in Packages, packages'[n][k] # None
         PROVE  packages'[n][k].revno = remotes'[n].revno
    <3>1. packages'[n][k] = [meta |-> content.listing[k], revno |-> row.revno]
      BY <2>7, <2>11
    <3> QED
      BY <2>9, <3>1
  <2>12. ASSUME remotes'[n].etag # None
         PROVE  /\ remotes'[n].etag.name = n
                /\ \A k \in Packages :
                       IF remotes'[n].etag.listing[k] \in Metas
                       THEN /\ packages'[n][k] # None
                            /\ packages'[n][k].meta = remotes'[n].etag.listing[k]
                       ELSE packages'[n][k] = None
    <3>1. remotes'[n].etag = content
      BY <2>2, <2>4, <2>9, <2>12
    <3>2. content.name = n
      BY DEF n
    <3>3. ASSUME NEW k \in Packages, content.listing[k] \in Metas
          PROVE  packages'[n][k] # None /\ packages'[n][k].meta = content.listing[k]
      <4>1. packages'[n][k] = [meta |-> content.listing[k], revno |-> row.revno]
        BY <2>7, <3>3
      <4> QED
        BY <2>8, <3>3, <4>1
    <3>4. ASSUME NEW k \in Packages, content.listing[k] \notin Metas
          PROVE  packages'[n][k] = None
      BY <2>7, <3>4
    <3> QED
      BY <3>1, <3>2, <3>3, <3>4
  <2> QED
    BY <2>4, <2>9, <2>10, <2>11, <2>12 DEF PackagesMatchEtag
<1> QED
  BY <1>1, <1>2, <1>3, TablesChange

THEOREM Invariance == Spec => []IInv
<1>1. IInv /\ [Next]_vars => IInv'
  BY NextTypeOK, NextImportsContent, NextAsksAboutCached, NextPackagesMatchEtag DEF IInv
<1> QED
  BY <1>1, InitIInv, PTL DEF Spec

(* Every variable of the cache keeps its type, and a process has something *)
(* to note down exactly between the answer and the table.                  *)
THEOREM TypeCorrect == Spec => []TypeOK
<1>1. IInv => TypeOK
  BY DEF IInv
<1> QED
  BY <1>1, Invariance, PTL

(* sync_remote's transaction: the packages of a remote are the good ones   *)
(* of the listing its ETag names, whoever synchronises, fails or dies.     *)
THEOREM CacheNeverMixesListings == Spec => []PackagesMatchEtag
<1>1. IInv => PackagesMatchEtag
  BY DEF IInv
<1> QED
  BY <1>1, Invariance, PTL

(* get_remote_db's conditional request: a 304 is about the cached listing, *)
(* unless another process imported in between.                             *)
THEOREM NotModifiedIsAboutTheCache == Spec => NotModifiedIsCached
<1>1. ASSUME IInv, [Next]_vars
      PROVE  [\A p \in Procs : Request(p) /\ pc'[p] = "touch" /\ p \in alone =>
                \E n \in Rows(Url(p)) : remotes[n].etag = server[Url(p)].content]_vars
  <2> SUFFICES ASSUME NEW p \in Procs, Request(p), pc'[p] = "touch", p \in alone
               PROVE  \E n \in Rows(Url(p)) : remotes[n].etag = server[Url(p)].content
    OBVIOUS
  <2>1. Url(p) \in Urls
    BY <1>1, UrlOfBusy DEF IInv, Request, Go
  <2>2. prior[p] = server[Url(p)].content
    BY <1>1 DEF IInv, TypeOK, Request, Go
  <2>3. prior[p] # None
    BY <1>1, <2>1, <2>2, CacheSyncAssumption DEF IInv, TypeOK
  <2> QED
    BY <1>1, <2>2, <2>3 DEF IInv, AsksAboutCached, Request, Go
<1> QED
  BY <1>1, Invariance, PTL DEF Spec, NotModifiedIsCached
-----------------------------------------------------------------------------
(* Times. A time is allowed if a response with a max-age is as young. What *)
(* is noted down as fresh for a while, in a row or by a process on its way *)
(* to one, has such a time; and the responses only get younger.            *)
Allowed(time) == time \in Times /\ \E u \in Urls : heard[u] # None /\ time <= heard[u]

Ages ==
    /\ \A u \in Urls : heard[u] # None => heard[u] <= now
    /\ \A n \in Names : remotes[n] # None /\ remotes[n].cache_control = "max-age" =>
           Allowed(remotes[n].time)
    /\ \A p \in Procs : info[p] # None /\ info[p].cache_control = "max-age" =>
           Allowed(info[p].time)

(* What is heard later is heard of later times. *)
LEMMA HeardGrows ==
  ASSUME TypeOK, Ages, [Next]_vars
  PROVE  /\ now <= now'
         /\ \A u \in Urls : /\ heard'[u] # None => heard'[u] <= now'
                            /\ heard[u] # None => heard'[u] # None /\ heard[u] <= heard'[u]
<1> USE CacheSyncAssumption DEF Times
<1>1. CASE UNCHANGED heard /\ (Tick \/ UNCHANGED now)
  BY <1>1 DEF TypeOK, Ages, Tick
<1>2. ASSUME NEW p \in Procs, Request(p)
      PROVE  /\ now <= now'
             /\ \A u \in Urls : /\ heard'[u] # None => heard'[u] <= now'
                                /\ heard[u] # None => heard'[u] # None /\ heard[u] <= heard'[u]
  BY <1>2 DEF TypeOK, Ages, Request
<1>3. \/ UNCHANGED heard /\ (Tick \/ UNCHANGED now)
      \/ \E p \in Procs : Request(p)
  BY DEF Next, UseRepo, vars, Tick, Publish, StartCommand, DoNotSync, OpenFile,
         NeverSeen, Revalidate, AnswerFresh, ReadPrior, Touch, Import, Fail, Enable,
         NoSuchRemote, Finish
<1> QED
  BY <1>1, <1>2, <1>3

LEMMA AllowedStays ==
  ASSUME TypeOK, Ages, [Next]_vars, NEW time, Allowed(time)
  PROVE  Allowed(time)'
<1>1. PICK u \in Urls : heard[u] # None /\ time <= heard[u]
  BY DEF Allowed
<1>2. heard'[u] # None /\ heard[u] <= heard'[u]
  BY <1>1, HeardGrows
<1>3. heard[u] \in Int /\ heard'[u] \in Int /\ time \in Int
  BY <1>1, <1>2, NextTypeOK DEF TypeOK, Times, Allowed
<1>4. time <= heard'[u]
  BY <1>1, <1>2, <1>3
<1> QED
  BY <1>2, <1>4 DEF Allowed

(* What a process notes down comes from a file, from a response of now, or *)
(* from a row.                                                             *)
LEMMA NotedIsAllowed ==
  ASSUME TypeOK, Ages, [Next]_vars, NEW p \in Procs,
         info'[p] # None, info'[p].cache_control = "max-age"
  PROVE  Allowed(info[p].time)'
<1> USE CacheSyncAssumption
<1>1. CASE info'[p] = info[p]
  BY <1>1, AllowedStays DEF Ages
<1>2. CASE OpenFile(p)
  BY <1>2 DEF TypeOK, OpenFile
<1>3. CASE AnswerFresh(p)
  <2>1. PICK n \in PriorRows(Url(p)) :
            info'[p] = [etag |-> remotes[n].etag, time |-> remotes[n].time,
                        cache_control |-> remotes[n].cache_control]
    BY <1>3 DEF TypeOK, AnswerFresh
  <2> QED
    BY <2>1, AllowedStays DEF Ages, PriorRows, Rows
<1>4. CASE Request(p)
  <2>1. Url(p) \in Urls
    BY <1>4, UrlOfBusy DEF Request, Go
  <2>2. info'[p] = Response(Url(p)) /\ server[Url(p)].cache_control = "max-age"
    BY <1>4 DEF TypeOK, Request, Response
  <2>3. heard'[Url(p)] = now /\ info'[p].time = now
    BY <1>4, <2>1, <2>2 DEF TypeOK, Request, Response
  <2>4. now \in Times /\ now # None /\ now <= now
    BY DEF TypeOK, Times
  <2>5. heard'[Url(p)] # None /\ info'[p].time <= heard'[Url(p)] /\ info'[p].time \in Times
    BY <2>3, <2>4
  <2> QED
    BY <2>1, <2>5 DEF Allowed
<1>5. ASSUME NEW q \in Procs, UseRepo(q)
      PROVE  info'[p] \in {info[p], None} \/ OpenFile(p) \/ AnswerFresh(p) \/ Request(p)
  <2>1. CASE OpenFile(q) \/ AnswerFresh(q) \/ Request(q)
    BY <2>1 DEF TypeOK, OpenFile, AnswerFresh, Request
  <2>2. CASE DoNotSync(q) \/ NeverSeen(q) \/ Revalidate(q) \/ Touch(q) \/ Import(q)
    BY <2>2 DEF TypeOK, DoNotSync, NeverSeen, Revalidate, Touch, Import
  <2>3. CASE Fail(q) \/ Enable(q) \/ NoSuchRemote(q) \/ Finish(q)
    BY <2>3 DEF TypeOK, Fail, Enable, NoSuchRemote, Finish, Stop
  <2> QED
    BY <1>5, <2>1, <2>2, <2>3 DEF UseRepo
<1>6. \/ info'[p] = info[p]
      \/ \E q \in Procs : UseRepo(q)
  BY DEF Next, vars, procVars, Tick, Publish, StartCommand
<1> QED
  BY <1>1, <1>2, <1>3, <1>4, <1>5, <1>6

(* A row gets its time from what a process has noted down. *)
LEMMA CachedIsAllowed ==
  ASSUME TypeOK, Ages, [Next]_vars, NEW n \in Names,
         remotes'[n] # None, remotes'[n].cache_control = "max-age"
  PROVE  Allowed(remotes[n].time)'
<1>1. CASE remotes'[n] = remotes[n]
  BY <1>1, AllowedStays DEF Ages
<1>2. ASSUME NEW p \in Procs, Touch(p) \/ Import(p), remotes'[n] # remotes[n]
      PROVE  /\ info[p] # None
             /\ remotes'[n].time = info[p].time
             /\ remotes'[n].cache_control = info[p].cache_control
  <2>1. info[p] # None
    BY <1>2 DEF TypeOK, Touch, Import, Go
  <2>2. CASE Touch(p)
    BY <2>1, <2>2 DEF TypeOK, Touch, Touched
  <2>3. CASE Import(p)
    BY <1>2, <2>1, <2>3 DEF TypeOK, Import, NewRow
  <2> QED
    BY <1>2, <2>1, <2>2, <2>3
<1> QED
  BY <1>1, <1>2, TablesChange, AllowedStays DEF Ages, tableVars

LEMMA NextAges == TypeOK /\ Ages /\ [Next]_vars => Ages'
  BY HeardGrows, NotedIsAllowed, CachedIsAllowed DEF Ages

(* should_revalidate: cached data is used without a question only within a *)
(* max-age of the last response of some server that came with one.         *)
THEOREM FreshIsAllowed == Spec => FreshWithinSomeMaxAge
<1>1. Init => TypeOK /\ Ages
  BY InitIInv DEF IInv, Init, Ages
<1>2. TypeOK /\ Ages /\ [Next]_vars => (TypeOK /\ Ages)'
  BY NextTypeOK, NextAges
<1>3. ASSUME TypeOK, Ages, NEW p \in Procs, AnswerFresh(p)
      PROVE  \E u \in Urls : heard[u] # None /\ now <= heard[u] + MaxAge
  <2>1. PICK n \in Rows(Url(p)) : ~ShouldRevalidate(remotes[n])
    BY <1>3 DEF AnswerFresh, PriorRows
  <2>2. remotes[n].cache_control = "max-age" /\ ~(remotes[n].time + MaxAge < now)
    BY <2>1 DEF ShouldRevalidate
  <2>3. Allowed(remotes[n].time)
    BY <1>3, <2>1, <2>2 DEF Ages, Rows
  <2>4. PICK u \in Urls : heard[u] # None /\ remotes[n].time <= heard[u]
    BY <2>3 DEF Allowed
  <2>5. /\ remotes[n].time \in Int /\ heard[u] \in Int /\ now \in Int /\ MaxAge \in Int
    BY <1>3, <2>3, <2>4, CacheSyncAssumption DEF Allowed, TypeOK, Times
  <2> QED
    BY <2>2, <2>4, <2>5
<1>4. TypeOK /\ Ages =>
        [\A p \in Procs : AnswerFresh(p) =>
            \E u \in Urls : heard[u] # None /\ now <= heard[u] + MaxAge]_vars
  BY <1>3
<1> QED
  BY <1>1, <1>2, <1>4, PTL DEF Spec, FreshWithinSomeMaxAge
=============================================================================
