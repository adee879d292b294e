----------------------------- MODULE MkDatabase ------------------------------
(***************************************************************************)
(* cmd/mkdatabase: builds that collect the lists of the categories they    *)
(* were asked for, through a source cache on disk that all of them share,  *)
(* and write each a database.                                              *)
(*                                                                         *)
(* There is one source of each kind: a repository of several lists, each   *)
(* in any of the formats, an HTTP list whose parser groups networks by     *)
(* provider, an autonomous system with up to two categories, and a local   *)
(* file.  A build makes every access to the cache a step of its own, so    *)
(* builds interleave if several run at once, and it may stop between two   *)
(* of them: an error it returns, or the death of the process.              *)
(*                                                                         *)
(* An operator named Bug_X is X with a plausible mistake in it.  Nothing   *)
(* uses it: putting it in X's place shows that a property can fail.        *)
(***************************************************************************)
EXTENDS Parsers

CONSTANTS
  Builds,            \* invocations of mkdatabase
  Category,          \* every category
  Selections,        \* the sets of categories builds are asked for
  RepoLists,         \* the repository's lists, in order: their categories
  HttpCategory,      \* the category of the HTTP list
  HttpProviders,     \* the providers its networks are grouped by
  ASCategories,      \* the categories of the autonomous system, in order
  FileCategory,      \* the category of the local file
  Upstreams,         \* what the sources may publish: [time |-> [key |-> networks]]
  CacheMaxAge,       \* cacheMaxAge
  MaxTime,           \* bound: the last instant
  MaxRunning,        \* bound: how many builds run at once
  None

Lists == DOMAIN RepoLists
HttpList == Len(RepoLists) + 1
AS == Len(RepoLists) + 2
File == Len(RepoLists) + 3
Keys == {<<l, 1>> : l \in Lists \cup {AS, File}} \cup {<<HttpList, v>> : v \in HttpProviders}
Time == 0 .. MaxTime

ASSUME MkDatabaseAssumption ==
  /\ PrefixAssumption /\ ParsersAssumption
  /\ Selections \subseteq (SUBSET Category) \ {{}}
  /\ RepoLists \in Seq(Category)
  /\ ASCategories \in Seq(Category) /\ Len(ASCategories) <= 2
  /\ {HttpCategory, FileCategory} \subseteq Category
  /\ IsFiniteSet(HttpProviders) /\ HttpProviders \subseteq Nat
  /\ Upstreams \subseteq [Time -> [Keys -> SUBSET Prefix]]
  /\ CacheMaxAge \in Nat \ {0} /\ MaxTime \in Nat /\ MaxRunning \in Nat
  /\ None \notin Time

VARIABLES
  now,
  upstream,          \* what the sources publish at each instant
  files,             \* files[l]: the instant of the cached copy of list l, or None
  marker,            \* when .fetched was written, or None
  httpFile,          \* the cached HTTP body: when it was fetched, and if it decodes
  asFile,            \* the cached prefixes of the AS and when they were written
  pc,                \* pc[b]: what build b does next
  cats,              \* cats[b]: the categories it selects
  begun,             \* begun[b]: when it started
  cloned,            \* cloned[b]: when it cloned the repository
  next,              \* next[b]: the repository's list it writes or reads next
  fromCache,         \* fromCache[b]: it reads the cache, not its clone
  table,             \* table[b]: the store of prefixes and their memberships
  out                \* out[b]: the database it wrote, None before

cacheVars == <<files, marker, httpFile, asFile>>
repoVars == <<cloned, next, fromCache>>
buildVars == <<pc, cats, begun, repoVars, table, out>>
vars == <<now, upstream, cacheVars, buildVars>>

Running(b) == pc[b] \notin {"idle", "done", "failed"}
Published(key, t) == upstream[t][key]

\* readFreshCache and cachedRepoFresh: written less than cacheMaxAge ago.
Bug_Fresh(at) == now - at <= CacheMaxAge
Fresh(at) == now - at < CacheMaxAge

\* cacheRepo caches every list, whatever the build selects.
Bug_Cached(b) == {l \in Lists : RepoLists[l] \in cats[b]}
Cached(b) == Lists

\* categorySet.has, selectLists and intersect.
Has(b, category) == category \in cats[b]
SelectLists(b) == {l \in Lists : Has(b, RepoLists[l])}
Intersect(b) ==
  LET at == {i \in DOMAIN ASCategories : Has(b, ASCategories[i])}
      kept == Sorted(at, {e \in at \X at : e[1] < e[2]})
  IN  [k \in DOMAIN kept |-> ASCategories[kept[k]]]

Init ==
  /\ now = 0 /\ upstream \in Upstreams
  /\ files = [l \in Lists |-> None] /\ marker = None
  /\ httpFile = None /\ asFile = None
  /\ pc = [b \in Builds |-> "idle"]
  /\ cats = [b \in Builds |-> {}]
  /\ begun = [b \in Builds |-> 0] /\ cloned = [b \in Builds |-> 0]
  /\ next = [b \in Builds |-> 1] /\ fromCache = [b \in Builds |-> FALSE]
  /\ table = [b \in Builds |-> EmptyTable]
  /\ out = [b \in Builds |-> None]

\* What a build keeps in memory goes with the process.
Leave(b) ==
  /\ begun' = [begun EXCEPT ![b] = 0] /\ cloned' = [cloned EXCEPT ![b] = 0]
  /\ next' = [next EXCEPT ![b] = 1] /\ fromCache' = [fromCache EXCEPT ![b] = FALSE]
  /\ table' = [table EXCEPT ![b] = EmptyTable]
Fail(b) == pc' = [pc EXCEPT ![b] = "failed"] /\ cats' = [cats EXCEPT ![b] = {}] /\ Leave(b)

-----------------------------------------------------------------------------
\* run: a repository nothing is selected from is skipped whole.
Start(b) ==
  /\ pc[b] = "idle"
  /\ Cardinality({c \in Builds : Running(c)}) < MaxRunning
  /\ \E selection \in Selections :
       /\ cats' = [cats EXCEPT ![b] = selection]
       /\ pc' = [pc EXCEPT ![b] =
                   IF \E l \in Lists : RepoLists[l] \in selection THEN "repo" ELSE "http"]
  /\ begun' = [begun EXCEPT ![b] = now]
  /\ UNCHANGED <<now, upstream, cacheVars, repoVars, table, out>>

-----------------------------------------------------------------------------
(* repoFS, cacheRepo and collect *)

Goto(b, step) == pc' = [pc EXCEPT ![b] = step]

ReadFrom(b, cache) ==
  /\ Goto(b, "collect")
  /\ fromCache' = [fromCache EXCEPT ![b] = cache]
  /\ next' = [next EXCEPT ![b] = 1]

UseCachedRepo(b) ==
  /\ pc[b] = "repo"
  /\ marker # None /\ Fresh(marker)
  /\ ReadFrom(b, TRUE)
  /\ UNCHANGED <<now, upstream, cacheVars, cats, begun, cloned, table, out>>

Clone(b) ==
  /\ pc[b] = "repo"
  /\ marker # None => ~Fresh(marker)
  /\ cloned' = [cloned EXCEPT ![b] = now]
  /\ Goto(b, "remove")
  /\ UNCHANGED <<now, upstream, cacheVars, cats, begun, next, fromCache, table, out>>

\* os.RemoveAll removes one file after the other.
RemoveFile(b) ==
  /\ pc[b] = "remove"
  /\ \/ \E l \in Lists : /\ files[l] # None
                         /\ files' = [files EXCEPT ![l] = None]
                         /\ UNCHANGED marker
     \/ marker # None /\ marker' = None /\ UNCHANGED files
  /\ UNCHANGED <<now, upstream, httpFile, asFile, buildVars>>

Removed(b) ==
  /\ pc[b] = "remove"
  /\ marker = None /\ \A l \in Lists : files[l] = None
  /\ Goto(b, "write")
  /\ next' = [next EXCEPT ![b] = 1]
  /\ UNCHANGED <<now, upstream, cacheVars, cats, begun, cloned, fromCache, table, out>>

WriteList(b) ==
  /\ pc[b] = "write" /\ next[b] \in Lists
  /\ files' = [files EXCEPT ![next[b]] = IF next[b] \in Cached(b) THEN cloned[b] ELSE @]
  /\ next' = [next EXCEPT ![b] = @ + 1]
  /\ UNCHANGED <<now, upstream, marker, httpFile, asFile, pc, cats, begun, cloned, fromCache, table, out>>

WriteMarker(b) ==
  /\ pc[b] = "write" /\ next[b] \notin Lists
  /\ marker' = now
  /\ ReadFrom(b, TRUE)
  /\ UNCHANGED <<now, upstream, files, httpFile, asFile, cats, begun, cloned, table, out>>

\* cacheRepo fails: the build only warns and reads its clone.
CachingFails(b) ==
  /\ pc[b] \in {"remove", "write"}
  /\ ReadFrom(b, FALSE)
  /\ UNCHANGED <<now, upstream, cacheVars, cats, begun, cloned, table, out>>

\* What matchFiles finds of list l: a file that is not there matches nothing.
Copy(b, l) == IF fromCache[b] THEN files[l] ELSE cloned[b]
Listed(b, l) == IF Copy(b, l) = None THEN {} ELSE Published(<<l, 1>>, Copy(b, l))

CollectList(b) ==
  /\ pc[b] = "collect" /\ next[b] \in Lists
  /\ \/ /\ next[b] \in SelectLists(b)
        /\ \E format \in Formats :
             /\ Listed(b, next[b]) \subseteq Writable(format)
             /\ table' = [table EXCEPT ![b] = Fold(@, Read(format, Listed(b, next[b])),
                                                  <<<<next[b], 1, RepoLists[next[b]]>>>>)]
     \/ next[b] \notin SelectLists(b) /\ UNCHANGED table
  /\ next' = [next EXCEPT ![b] = @ + 1]
  /\ UNCHANGED <<now, upstream, cacheVars, pc, cats, begun, cloned, fromCache, out>>

Collected(b) ==
  /\ pc[b] = "collect" /\ next[b] \notin Lists
  /\ Goto(b, "http")
  /\ next' = [next EXCEPT ![b] = 1]
  /\ cloned' = [cloned EXCEPT ![b] = 0] /\ fromCache' = [fromCache EXCEPT ![b] = FALSE]
  /\ UNCHANGED <<now, upstream, cacheVars, cats, begun, table, out>>

-----------------------------------------------------------------------------
(* collectHTTP and fetchHTTP *)

\* The body, and what parseGrouped makes of it for one provider.
Body(at) == RegionsDocument([v \in HttpProviders |-> Published(<<HttpList, v>>, at)])
Group(v, at) == RegionGroup(Body(at), v)

\* The groups are a map: they are folded in any order.
FoldGroups(t, at, order) ==
  LET folded[n \in 0 .. Len(order)] ==
        IF n = 0 THEN t
        ELSE Fold(folded[n - 1], Group(order[n], at), <<<<HttpList, order[n], HttpCategory>>>>)
  IN  folded[Len(order)]

FoldHttp(b, at) ==
  \E order \in SetToSeqs(HttpProviders) :
    table' = [table EXCEPT ![b] = FoldGroups(@, at, order)]

HttpFresh == httpFile # None /\ Fresh(httpFile.at)

HttpSkipped(b) ==
  /\ pc[b] = "http" /\ ~Has(b, HttpCategory)
  /\ Goto(b, "as")
  /\ UNCHANGED <<now, upstream, cacheVars, cats, begun, repoVars, table, out>>

\* A cached body that does not decode fails the build: it is not fetched anew.
HttpCached(b) ==
  /\ pc[b] = "http" /\ Has(b, HttpCategory) /\ HttpFresh
  /\ \/ httpFile.decodes /\ Goto(b, "as") /\ FoldHttp(b, httpFile.at) /\ UNCHANGED <<cats, begun, repoVars>>
     \/ ~httpFile.decodes /\ Fail(b)
  /\ UNCHANGED <<now, upstream, cacheVars, out>>

\* The body is cached before it is decoded; a failed write is only logged.
Download(b) ==
  /\ pc[b] = "http" /\ Has(b, HttpCategory) /\ ~HttpFresh
  /\ \E decodes \in BOOLEAN :
       /\ httpFile' \in {httpFile, [at |-> now, decodes |-> decodes]}
       /\ \/ decodes /\ Goto(b, "as") /\ FoldHttp(b, now) /\ UNCHANGED <<cats, begun, repoVars>>
          \/ ~decodes /\ Fail(b)
  /\ UNCHANGED <<now, upstream, files, marker, asFile, out>>

-----------------------------------------------------------------------------
(* collectAS, fetchAS and foldAS *)

FoldAS(b, prefixes) ==
  LET ms == [k \in DOMAIN Intersect(b) |-> <<AS, 1, Intersect(b)[k]>>]
  IN  table' = [table EXCEPT ![b] = Fold(@, prefixes, ms)]

ASFresh == asFile # None /\ Fresh(asFile.at)

ASSkipped(b) ==
  /\ pc[b] = "as" /\ Intersect(b) = << >>
  /\ Goto(b, "file")
  /\ UNCHANGED <<now, upstream, cacheVars, cats, begun, repoVars, table, out>>

ASCached(b) ==
  /\ pc[b] = "as" /\ Intersect(b) # << >> /\ ASFresh
  /\ FoldAS(b, asFile.prefixes)
  /\ Goto(b, "file")
  /\ UNCHANGED <<now, upstream, cacheVars, cats, begun, repoVars, out>>

\* ripeasn.Fetch does not look at the status: an error reply has no prefixes.
FetchAS(b) ==
  /\ pc[b] = "as" /\ Intersect(b) # << >> /\ ~ASFresh
  /\ \E prefixes \in {Published(<<AS, 1>>, now), {}} :
       /\ asFile' \in {asFile, [at |-> now, prefixes |-> prefixes]}
       /\ FoldAS(b, prefixes)
  /\ Goto(b, "file")
  /\ UNCHANGED <<now, upstream, files, marker, httpFile, cats, begun, repoVars, out>>

-----------------------------------------------------------------------------
\* collectFile: the local lists are part of the checkout.
CollectFile(b) ==
  /\ pc[b] = "file"
  /\ table' = [table EXCEPT ![b] =
                 IF Has(b, FileCategory)
                 THEN Fold(@, Read("parseIPLines", Published(<<File, 1>>, 0)),
                           <<<<File, 1, FileCategory>>>>)
                 ELSE @]
  /\ Goto(b, "merge")
  /\ UNCHANGED <<now, upstream, cacheVars, cats, begun, repoVars, out>>

Merge(b) ==
  /\ pc[b] = "merge"
  /\ \E order \in Orders(table[b]) :
       table' = [table EXCEPT ![b] = MergeContained(@, order)]
  /\ Goto(b, "output")
  /\ UNCHANGED <<now, upstream, cacheVars, cats, begun, repoVars, out>>

Output(b) ==
  /\ pc[b] = "output"
  /\ \E order \in InsertOrders(table[b]), exchanged \in SUBSET LongRecords(table[b]) :
       out' = [out EXCEPT ![b] = Insert(table[b], order, exchanged)]
  /\ Goto(b, "done") /\ Leave(b)
  /\ UNCHANGED <<now, upstream, cacheVars, cats>>

\* Every error run returns ends the process, as does its death anywhere.
Abort(b) ==
  /\ Running(b)
  /\ Fail(b)
  /\ UNCHANGED <<now, upstream, cacheVars, out>>

\* Instants are hours apart: a clone is cached in the one it was made in.
Tick ==
  /\ now < MaxTime
  /\ \A b \in Builds : pc[b] \notin {"remove", "write"}
  /\ now' = now + 1
  /\ UNCHANGED <<upstream, cacheVars, buildVars>>

Repository(b) ==
  \/ UseCachedRepo(b) \/ Clone(b) \/ RemoveFile(b) \/ Removed(b) \/ WriteList(b)
  \/ WriteMarker(b) \/ CachingFails(b) \/ CollectList(b) \/ Collected(b)

Sources(b) ==
  \/ HttpSkipped(b) \/ HttpCached(b) \/ Download(b)
  \/ ASSkipped(b) \/ ASCached(b) \/ FetchAS(b) \/ CollectFile(b)

Next ==
  \/ Tick
  \/ \E b \in Builds : \/ Start(b) \/ Repository(b) \/ Sources(b)
                       \/ Merge(b) \/ Output(b) \/ Abort(b)

Spec == Init /\ [][Next]_vars

-----------------------------------------------------------------------------
Membership == (Lists \X {1} \X Category) \cup ({HttpList} \X HttpProviders \X {HttpCategory})
                \cup ({AS, File} \X {1} \X Category)

\* Types of the clock, the cache and the builds (not of what they have written).
TypeOK ==
  /\ now \in Time /\ upstream \in Upstreams
  /\ files \in [Lists -> Time \cup {None}] /\ marker \in Time \cup {None}
  /\ httpFile \in [at : Time, decodes : BOOLEAN] \cup {None}
  /\ asFile \in [at : Time, prefixes : SUBSET Prefix] \cup {None}
  /\ pc \in [Builds -> {"idle", "repo", "remove", "write", "collect", "http", "as", "file",
                        "merge", "output", "done", "failed"}]
  /\ cats \in [Builds -> Selections \cup {{}}]
  /\ begun \in [Builds -> Time] /\ cloned \in [Builds -> Time]
  /\ next \in [Builds -> 1 .. Len(RepoLists) + 1] /\ fromCache \in [Builds -> BOOLEAN]
  /\ table \in [Builds -> [Stored -> Seq(Membership)]]

\* A repository whose marker is fresh has every list, all of one clone: a
\* build with other categories, or after a crash, can rely on the cache.
CacheComplete ==
  marker # None /\ Fresh(marker) =>
    \E t \in Time : \A l \in Lists : files[l] = t

\* When build b may have read what it read, and what the AS may have announced.
Recent(b) == {t \in Time : begun[b] - CacheMaxAge < t /\ t <= now}
Announced(b) == {Published(<<AS, 1>>, t) : t \in Recent(b)} \cup {{}}

\* All memberships there are of something when on(networks) says whether it is
\* on a list of those networks, the repository was read at r, the HTTP list at
\* h, and the AS announced prefixes.
Memberships(on(_), r, h, announced) ==
  {<<l, 1, RepoLists[l]>> : l \in {k \in Lists : on(Published(<<k, 1>>, r))}}
    \cup {<<HttpList, v, HttpCategory>> : v \in {w \in HttpProviders : on(Published(<<HttpList, w>>, h))}}
    \cup (IF on(announced) THEN {<<AS, 1, c>> : c \in Range(ASCategories)} ELSE {})
    \cup (IF on(Published(<<File, 1>>, 0)) THEN {<<File, 1, FileCategory>>} ELSE {})

\* What a build of the given categories should say of address a.
Expected(selection, a, r, h, announced) ==
  LET on(networks) == a \notin Reserved /\ \E p \in networks : a \in Covers[Collapse[p]]
  IN  {m \in Memberships(on, r, h, announced) : m[3] \in selection}

\* A build that succeeds has, for every address, exactly the memberships of
\* the selected lists that cover it (run, mergeContained, collapseV6), and no
\* list was older than cacheMaxAge when the build began, whatever builds of
\* other categories, failures and crashes the cache has been through.  Its
\* masks name the categories of those memberships and no other, so a filtered
\* build carries nothing it was not asked for (category.go:23-28).
Complete ==
  [][\A b \in Builds : pc[b] = "output" /\ pc'[b] = "done" =>
       \E r \in Recent(b), h \in Recent(b), s \in Announced(b) :
         \A a \in Addr :
           LET expected == Expected(cats[b], a, r, h, s) IN
           /\ Range(out'[b][a].sources) = expected
           /\ out'[b][a].categories = {m[3] : m \in expected}]_vars

\* A record of up to InsertionMax memberships depends on what was found and not
\* on the order it was found in (record.go:60-61): two builds that found the
\* same write the same bytes for it, whatever order lists, groups and networks
\* were walked in.  Of a longer record that is not so, since the sort is not
\* stable and leaves an autonomous system's two memberships in either order.
ShortRecordsCanonical ==
  \A b, c \in Builds :
    out[b] # None /\ out[c] # None =>
      \A a \in Addr :
        \/ out[b][a] = out[c][a]
        \/ Len(out[b][a].sources) > InsertionMax
        \/ Range(out[b][a].sources) # Range(out[c][a].sources)

-----------------------------------------------------------------------------
(* The inductive invariant, when one build runs at a time *)

OneBuild == \A b, c \in Builds : Running(b) /\ Running(c) => b = c

\* A fresh marker stands for all lists of the clone it was written after, and
\* what is cached was published when the cache says.
CacheInv ==
  /\ marker # None => marker <= now
  /\ marker # None /\ Fresh(marker) => \A l \in Lists : files[l] = marker
  /\ httpFile # None => httpFile.at <= now
  /\ asFile # None => /\ asFile.at <= now
                      /\ asFile.prefixes \in {Published(<<AS, 1>>, asFile.at), {}}

\* A build takes the old cache away only when its marker is stale, and writes
\* the new one, list by list, when the marker is gone.
Writing(b) ==
  /\ pc[b] \in {"remove", "write"} => cloned[b] = now
  /\ pc[b] = "remove" /\ marker # None => ~Fresh(marker)
  /\ pc[b] = "write" => /\ marker = None
                        /\ \A l \in Lists : l < next[b] => files[l] = cloned[b]

\* The sources a build has folded in when it comes to a step.
Folded(b) == IF pc[b] = "collect" THEN 1 .. (next[b] - 1)
             ELSE IF pc[b] = "http" THEN Lists
             ELSE IF pc[b] = "as" THEN Lists \cup {HttpList}
             ELSE IF pc[b] = "file" THEN Lists \cup {HttpList, AS}
             ELSE Lists \cup {HttpList, AS, File}

\* What they say of network p.
Found(b, p, r, h, announced) ==
  LET on(networks) == p \in Collapsed(networks)
  IN  {m \in Memberships(on, r, h, announced) : m[1] \in Folded(b) /\ m[3] \in cats[b]}

\* Before it is merged, a network's record has just that.
Holds(b, r, h, announced) ==
  \A p \in Stored : Range(table[b][p]) = Found(b, p, r, h, announced)

\* Once merged, it has what broader networks say too.
Inherits(b, r, h, announced) ==
  /\ \A p \in Stored : Found(b, p, r, h, announced) # {} => p \in Networks(table[b])
  /\ \A p \in Networks(table[b]) :
       Range(table[b][p])
         = UNION {Found(b, q, r, h, announced) : q \in {k \in Stored : Covers[p] \subseteq Covers[k]}}

\* What build b has in memory at each step.
TableInv(b) ==
  /\ Running(b) => begun[b] <= now
  /\ pc[b] \in {"idle", "repo", "remove", "write", "done", "failed"} => table[b] = EmptyTable
  /\ pc[b] = "collect" =>
       \E r \in Recent(b) : /\ \A l \in Lists : Copy(b, l) = r
                            /\ Holds(b, r, r, {})
  /\ pc[b] \in {"http", "as", "file", "merge"} =>
       \E r \in Recent(b), h \in Recent(b), s \in Announced(b) : Holds(b, r, h, s)
  /\ pc[b] = "output" =>
       \E r \in Recent(b), h \in Recent(b), s \in Announced(b) : Inherits(b, r, h, s)

IInv == TypeOK /\ OneBuild /\ CacheInv /\ \A b \in Builds : Writing(b) /\ TableInv(b)
=============================================================================
