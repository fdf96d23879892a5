---------------------------- MODULE MarketViewer ----------------------------
(***************************************************************************)
(* MarketViewer of the spot service with its two caches in Redis: one      *)
(* entry per market (GetMarketByID) and one head page per role             *)
(* (ViewMarkets), filled by requests that miss and written by the poller   *)
(* after it has announced changes (refreshCache).                          *)
(*                                                                         *)
(* A market is its number in ORDER BY name, id.  Time passes with Tick:    *)
(* left counts down the time to live of an entry, and the time to the      *)
(* deadline of a load in flight; 0 means that there is none.  Every copy   *)
(* carries three marks that the code does not have: fresh, it still is     *)
(* what the database holds; lag, how long it has not been; orphan, an      *)
(* entry that no poller knows to be outdated.                              *)
(***************************************************************************)
EXTENDS Integers, Sequences, FiniteSets, Functions

CONSTANTS
    Instances,     \* running instances of the spot service
    Markets,       \* rows of market_store that may exist
    Existing,      \* the rows there are at the start
    Admin, Viewer, User, \* cacheRoleKeys
    CacheTTL,      \* redis.spot_cache_ttl
    ServiceTimeout, \* timeouts.service
    DefaultLimit, MaxLimit, CacheLimit, \* view_markets
    Requested,     \* the keys that requests ask for
    Faults,        \* which of FaultKinds may happen
    MaxLoads,      \* bound on loads at the same time
    MaxChanges,    \* bound on changes of rows
    MaxFaults      \* bound on faults

Roles == {Admin, Viewer, User}
Keys == Markets \cup Roles

(***************************************************************************)
(*  crash       the process dies between two steps;                        *)
(*  redis       a write or a deletion fails without effect;                *)
(*  db          a query fails, or the deadline is over;                    *)
(*  corrupt     an entry can no longer be decoded;                         *)
(*  remove      a row is deleted by hand, which no trigger records;        *)
(*  late        a change commits behind the cursor of pollers, because     *)
(*              updated_at is when its transaction began.                  *)
(***************************************************************************)
FaultKinds == {"crash", "redis", "db", "corrupt", "remove", "late"}

\* validateSpotService, validateSpotViewMarkets and validateSpotRedis.
ValidConfig ==
    /\ DefaultLimit > 0 /\ MaxLimit > 0 /\ CacheLimit > 0
    /\ DefaultLimit <= MaxLimit /\ DefaultLimit <= CacheLimit
    /\ CacheTTL > 0 /\ ServiceTimeout > 0

ASSUME ViewerAssumption ==
    /\ Instances # {}
    /\ Markets \subseteq Nat /\ IsFiniteSet(Markets) /\ Existing \subseteq Markets
    /\ Admin # Viewer /\ Admin # User /\ Viewer # User
    /\ Markets \cap Roles = {}
    /\ {CacheTTL, ServiceTimeout, DefaultLimit, MaxLimit, CacheLimit} \subseteq Nat
    /\ ValidConfig
    /\ Requested \subseteq Keys
    /\ Faults \subseteq FaultKinds
    /\ MaxLoads \in Nat /\ MaxChanges \in Nat /\ MaxFaults \in Nat

\* What a row says: there is none, the market can be traded, enabled is false,
\* or deleted_at is set.
Status == {"absent", "enabled", "disabled", "deleted"}

VARIABLES
    rows,     \* market_store
    cache,    \* entries in Redis
    loads,    \* what requests have read from the database and not yet cached
    pending,  \* markets that changed after the cursor of a poller
    todo,     \* updatedIDs of the running refreshCache
    refresh,  \* position in cacheRoleKeys of the running RefreshAll, 0 if none
    emptied,  \* RefreshAll found the store empty and deletes the head pages
    page,     \* what RefreshAll has read for the role
    changes,  \* changes so far
    faults    \* faults so far

pollVars == <<pending, todo, refresh, emptied, page>>
vars == <<rows, cache, loads, pollVars, changes, faults>>

-----------------------------------------------------------------------------
(* Pages of a table.                                                       *)

\* The WHERE of loadMarketsPage.
Selected(role, status) ==
    /\ status # "absent"
    /\ role # Admin => status # "deleted"
    /\ role = User => status = "enabled"

\* ORDER BY name, id: the n-th market of S has n - 1 before it.
Ordered(S) ==
    [n \in 1 .. Cardinality(S) |-> CHOOSE m \in S : Cardinality({k \in S : k < m}) = n - 1]

\* ORDER BY name, id OFFSET offset LIMIT limit + 1.
GetMarketsPage(table, role, limit, offset) ==
    LET found == Ordered({m \in Markets : Selected(role, table[m])})
        last == IF offset + limit + 1 < Len(found) THEN offset + limit + 1 ELSE Len(found)
    IN  [j \in 1 .. last - offset |-> <<found[offset + j], table[found[offset + j]]>>]

\* hasAnyMarkets.
StoreIsEmpty == \A m \in Markets : rows[m] = "absent"

\* Seeded variant for checking: the head page has just the rows of the largest
\* page it serves.
HeadPageOfLimit(table, role) == GetMarketsPage(table, role, CacheLimit - 1, 0)

\* What the head page of a role is filled with.
HeadPage(table, role) == GetMarketsPage(table, role, CacheLimit + 1, 0)

\* buildPageResponse.
buildPageResponse(markets, limit, offset) ==
    LET more == Len(markets) > limit
    IN  [markets |-> IF more THEN SubSeq(markets, 1, limit) ELSE markets,
         nextOffset |-> IF more THEN offset + limit ELSE 0,
         hasMore |-> more]

\* normalizeLimit.
normalizeLimit(limit) ==
    IF limit = 0 THEN DefaultLimit ELSE IF limit > MaxLimit THEN MaxLimit ELSE limit

\* effectiveUserRole: of several roles the one that sees most.
effectiveUserRole(roles) ==
    IF Admin \in roles THEN Admin ELSE IF Viewer \in roles THEN Viewer ELSE User

\* validateMarketAccess lets the role have the market.
MayAccess(role, status) ==
    \/ role = Admin
    \/ role = Viewer /\ status # "deleted"
    \/ role = User /\ status = "enabled"

\* ViewMarkets, when the head page in the cache is head and is usable.
ViewMarkets(role, asked, offset, head) ==
    LET limit == normalizeLimit(asked)
    IN  IF offset = 0 /\ limit <= CacheLimit
        THEN buildPageResponse(head, limit, 0)
        ELSE buildPageResponse(GetMarketsPage(rows, role, limit, offset), limit, offset)

-----------------------------------------------------------------------------
(* Copies of what the database holds.                                      *)

NoCopy == [value |-> << >>, garbled |-> FALSE, left |-> 0, fresh |-> TRUE, lag |-> 0, orphan |-> FALSE]

\* The contents of a key: the row, or the head page of the role.
Content(k) == IF k \in Markets THEN rows[k] ELSE HeadPage(rows, k)

\* Seeded variant for checking: a load that is detached from its request gets
\* a deadline of its own.
ReadDetached(k) ==
    [NoCopy EXCEPT !.value = Content(k), !.left = ServiceTimeout + CacheTTL + 1]

\* Read now, to be used before the context ends.
ReadNow(k) == [NoCopy EXCEPT !.value = Content(k), !.left = ServiceTimeout + 1]

InUse(copy) == copy.left > 0

\* The entry that a copy becomes; written late, it is no longer what the
\* database holds, and no poller knows of it.
Entry(copy) == [copy EXCEPT !.left = CacheTTL, !.orphan = ~copy.fresh]

\* A copy that a change has overtaken.
Outdated(copy) == IF InUse(copy) THEN [copy EXCEPT !.fresh = FALSE] ELSE copy

\* An entry that nobody is going to delete or to write again.
Abandoned(copy) == IF InUse(copy) THEN [copy EXCEPT !.orphan = TRUE] ELSE copy

\* Time passes for a copy.
Aged(copy) ==
    IF copy.left <= 1 THEN NoCopy
    ELSE [copy EXCEPT !.left = copy.left - 1, !.lag = IF copy.fresh THEN 0 ELSE copy.lag + 1]

Init ==
    /\ rows = [m \in Markets |-> IF m \in Existing THEN "enabled" ELSE "absent"]
    /\ cache = [k \in Keys |-> NoCopy]
    /\ loads = [i \in Instances |-> [k \in Keys |-> NoCopy]]
    /\ pending = [i \in Instances |-> {}]
    /\ todo = [i \in Instances |-> {}]
    /\ refresh = [i \in Instances |-> 0]
    /\ emptied = [i \in Instances |-> FALSE]
    /\ page = [i \in Instances |-> NoCopy]
    /\ changes = 0 /\ faults = 0

Fault(kind) == kind \in Faults /\ faults < MaxFaults /\ faults' = faults + 1

-----------------------------------------------------------------------------
(* The database, and time.                                                 *)

\* A row is written, or removed.  The pollers of found are going to read the
\* change after their cursor: all of them, unless it comes late; none of them,
\* if the row is gone.  What nobody finds is left to its time to live.
Change(m, status) ==
    LET over(k, copy) == IF k \in Markets \ {m} THEN copy ELSE Outdated(copy)
        missed(k, copy) == IF k \in Markets \ {m} THEN copy ELSE Abandoned(Outdated(copy))
    IN  /\ status # rows[m]
        /\ changes < MaxChanges /\ changes' = changes + 1
        /\ rows' = [rows EXCEPT ![m] = status]
        /\ loads' = [i \in Instances |-> [k \in Keys |-> over(k, loads[i][k])]]
        /\ page' = [i \in Instances |-> Outdated(page[i])]
        /\ \E found \in SUBSET Instances :
              /\ \/ status # "absent" /\ found = Instances /\ UNCHANGED faults
                 \/ status # "absent" /\ found # Instances /\ Fault("late")
                 \/ status = "absent" /\ found = {} /\ Fault("remove")
              /\ pending' = [i \in Instances |-> IF i \in found THEN pending[i] \cup {m}
                                                               ELSE pending[i] \ {m}]
              /\ cache' = [k \in Keys |-> IF found = {} THEN missed(k, cache[k])
                                                        ELSE over(k, cache[k])]
        /\ UNCHANGED <<todo, refresh, emptied>>

\* Time passes: entries expire, and loads end when their context does.  A page
\* of RefreshAll is written, or RefreshAll fails, before that.
Tick ==
    /\ \A i \in Instances : page[i].left # 1
    /\ cache' = [k \in Keys |-> Aged(cache[k])]
    /\ loads' = [i \in Instances |-> [k \in Keys |-> Aged(loads[i][k])]]
    /\ page' = [i \in Instances |-> Aged(page[i])]
    /\ UNCHANGED <<rows, pending, todo, refresh, emptied, changes, faults>>

\* Anything may spoil an entry, a new version of its format for instance.
Corrupt(k) ==
    /\ k \in Requested /\ InUse(cache[k])
    /\ Fault("corrupt")
    /\ cache' = [cache EXCEPT ![k].garbled = TRUE]
    /\ UNCHANGED <<rows, loads, pollVars, changes>>

-----------------------------------------------------------------------------
(* Requests.  One that finds a usable entry answers with it and changes    *)
(* nothing.                                                                *)

\* GetMarketByID and GetMarkets of the cache delete what they cannot decode
\* (invalidateCorruptedCache) and the request goes on as after a miss.
DropCorrupted(k) ==
    /\ cache[k].garbled
    /\ cache' = [cache EXCEPT ![k] = NoCopy]
    /\ UNCHANGED <<rows, loads, pollVars, changes, faults>>

\* A request missed the cache a moment ago, or Redis did not answer, and reads
\* the database; for one market one at a time in each instance (singleflight).
StartLoad(i, k) ==
    /\ k \in Requested /\ ~InUse(loads[i][k])
    /\ Cardinality({load \in Instances \X Keys : InUse(loads[load[1]][load[2]])}) < MaxLoads
    /\ loads' = [loads EXCEPT ![i][k] = ReadNow(k)]
    /\ UNCHANGED <<rows, cache, pollVars, changes, faults>>

\* A row that is not there is ErrMarketNotFound, an empty store ErrMarketsNotFound.
loadMarket(i, m) == rows[m] # "absent" /\ StartLoad(i, m)
tryLoadHeadPage(i, role) == ~StoreIsEmpty /\ StartLoad(i, role)

EndLoad(i, k) == loads' = [loads EXCEPT ![i][k] = NoCopy]

\* SetMarketByID; after an error the request still has its answer, and
\* handleWarmupSetError deletes the key if it had been found corrupted.
SetMarketByID(i, m) ==
    /\ InUse(loads[i][m])
    /\ \/ cache' = [cache EXCEPT ![m] = Entry(loads[i][m])] /\ UNCHANGED faults
       \/ Fault("redis") /\ UNCHANGED cache
       \/ Fault("redis") /\ "corrupt" \in Faults /\ cache' = [cache EXCEPT ![m] = NoCopy]
    /\ EndLoad(i, m)
    /\ UNCHANGED <<rows, pollVars, changes>>

\* SetMarkets for the page of a request; an error is logged only.
warmHeadCache(i, role) ==
    /\ InUse(loads[i][role])
    /\ \/ cache' = [cache EXCEPT ![role] = Entry(loads[i][role])] /\ UNCHANGED faults
       \/ Fault("redis") /\ UNCHANGED cache
    /\ EndLoad(i, role)
    /\ UNCHANGED <<rows, pollVars, changes>>

-----------------------------------------------------------------------------
(* The poller, after it has announced what changed.                        *)

cacheRoleKeys == <<Admin, Viewer, User>>

\* Roles that the running RefreshAll has yet to write.
RolesLeft(i) ==
    IF todo[i] # {} THEN Roles
    ELSE {cacheRoleKeys[n] : n \in {j \in 1 .. 3 : refresh[i] # 0 /\ refresh[i] <= j}}

\* poll has advanced the cursor, and its deferred refreshCache begins.
refreshCache(i) ==
    /\ todo[i] = {} /\ refresh[i] = 0 /\ pending[i] # {}
    /\ todo' = [todo EXCEPT ![i] = pending[i]]
    /\ pending' = [pending EXCEPT ![i] = {}]
    /\ UNCHANGED <<rows, cache, loads, refresh, emptied, page, changes, faults>>

\* Seeded variant for checking: the first error ends the loop.
InvalidateUntilError(i, m) ==
    /\ m \in todo[i]
    /\ \/ /\ cache' = [cache EXCEPT ![m] = NoCopy]
          /\ todo' = [todo EXCEPT ![i] = @ \ {m}]
          /\ UNCHANGED faults
       \/ /\ Fault("redis")
          /\ cache' = [cache EXCEPT ![m] = Abandoned(@)]
          /\ todo' = [todo EXCEPT ![i] = {}]
    /\ refresh' = [refresh EXCEPT ![i] = IF todo'[i] = {} THEN 1 ELSE 0]
    /\ UNCHANGED <<rows, loads, pending, emptied, page, changes>>

\* InvalidateByIDs deletes one entry after the other; an error leaves the entry
\* and the loop goes on.  RefreshAll follows in any case.
InvalidateByIDs(i, m) ==
    /\ m \in todo[i]
    /\ \/ cache' = [cache EXCEPT ![m] = NoCopy] /\ UNCHANGED faults
       \/ cache' = [cache EXCEPT ![m] = Abandoned(@)] /\ Fault("redis")
    /\ todo' = [todo EXCEPT ![i] = @ \ {m}]
    /\ refresh' = [refresh EXCEPT ![i] = IF todo[i] = {m} THEN 1 ELSE 0]
    /\ UNCHANGED <<rows, loads, pending, emptied, page, changes>>

\* RefreshAll reads the page of the next role; an empty store makes it delete
\* the pages of all roles instead (invalidateMarketsCache).
RefreshRead(i) ==
    /\ refresh[i] # 0 /\ ~emptied[i] /\ ~InUse(page[i])
    /\ \/ /\ ~StoreIsEmpty
          /\ page' = [page EXCEPT ![i] = ReadNow(cacheRoleKeys[refresh[i]])]
          /\ UNCHANGED <<refresh, emptied>>
       \/ /\ StoreIsEmpty
          /\ refresh' = [refresh EXCEPT ![i] = 1]
          /\ emptied' = [emptied EXCEPT ![i] = TRUE]
          /\ UNCHANGED page
    /\ UNCHANGED <<rows, cache, loads, pending, todo, changes, faults>>

\* The page is written, or the deletion done, and the next role follows.
RefreshWrite(i) ==
    /\ emptied[i] \/ InUse(page[i])
    /\ cache' = [cache EXCEPT ![cacheRoleKeys[refresh[i]]] =
                    IF emptied[i] THEN NoCopy ELSE Entry(page[i])]
    /\ refresh' = [refresh EXCEPT ![i] = IF @ = 3 THEN 0 ELSE @ + 1]
    /\ emptied' = [emptied EXCEPT ![i] = @ /\ refresh[i] # 3]
    /\ page' = [page EXCEPT ![i] = NoCopy]
    /\ UNCHANGED <<rows, loads, pending, todo, changes, faults>>

\* Entries that the end of this refresh leaves to their time to live.
GivenUp(S) == cache' = [k \in Keys |-> IF k \in S THEN Abandoned(cache[k]) ELSE cache[k]]

\* Seeded variant for checking: the page that was read is kept.
StopKeepingPage(i) ==
    /\ todo' = [todo EXCEPT ![i] = {}]
    /\ refresh' = [refresh EXCEPT ![i] = 0]
    /\ emptied' = [emptied EXCEPT ![i] = FALSE]
    /\ UNCHANGED page

StopRefresh(i) ==
    /\ todo' = [todo EXCEPT ![i] = {}]
    /\ refresh' = [refresh EXCEPT ![i] = 0]
    /\ emptied' = [emptied EXCEPT ![i] = FALSE]
    /\ page' = [page EXCEPT ![i] = NoCopy]

\* The first error ends RefreshAll; it is logged and not repeated.
RefreshFails(i) ==
    /\ refresh[i] # 0
    /\ \/ ~emptied[i] /\ Fault("db")
       \/ (emptied[i] \/ InUse(page[i])) /\ Fault("redis")
    /\ GivenUp(RolesLeft(i))
    /\ StopRefresh(i)
    /\ UNCHANGED <<rows, loads, pending, changes>>

\* A process dies.  Its successor starts from the saved cursor, behind which is
\* what no instance has announced, and perhaps more.
Crash(i) ==
    /\ Fault("crash")
    /\ \E S \in SUBSET pending[i] :
          /\ \A m \in pending[i] \ S : \E j \in Instances : m \notin pending[j]
          /\ pending' = [pending EXCEPT ![i] = S]
          /\ GivenUp(todo[i] \cup RolesLeft(i) \cup (pending[i] \ S)
                     \cup IF S = {} THEN Roles ELSE {})
    /\ loads' = [loads EXCEPT ![i] = [k \in Keys |-> NoCopy]]
    /\ StopRefresh(i)
    /\ UNCHANGED <<rows, changes>>

Next ==
    \/ \E m \in Markets, status \in Status : Change(m, status)
    \/ Tick
    \/ \E k \in Keys : Corrupt(k) \/ DropCorrupted(k)
    \/ \E i \in Instances :
          \/ \E m \in Markets : loadMarket(i, m) \/ SetMarketByID(i, m) \/ InvalidateByIDs(i, m)
          \/ \E role \in Roles : tryLoadHeadPage(i, role) \/ warmHeadCache(i, role)
          \/ refreshCache(i) \/ RefreshRead(i) \/ RefreshWrite(i) \/ RefreshFails(i) \/ Crash(i)

Spec == Init /\ [][Next]_vars

-----------------------------------------------------------------------------
(* Properties.                                                             *)

\* Types of all variables; a page is read only while RefreshAll runs, and
\* RefreshAll starts when all by-id entries are done.
TypeOK ==
    /\ rows \in [Markets -> Status]
    /\ cache = [k \in Keys |-> cache[k]]
    /\ loads = [i \in Instances |-> [k \in Keys |-> loads[i][k]]]
    /\ page = [i \in Instances |-> page[i]]
    /\ pending \in [Instances -> SUBSET Markets]
    /\ todo \in [Instances -> SUBSET Markets]
    /\ refresh \in [Instances -> 0 .. 3]
    /\ emptied \in [Instances -> BOOLEAN]
    /\ changes \in 0 .. MaxChanges /\ faults \in 0 .. MaxFaults
    /\ \A i \in Instances : /\ refresh[i] # 0 => todo[i] = {}
                            /\ emptied[i] \/ InUse(page[i]) => refresh[i] # 0
                            /\ ~(emptied[i] /\ InUse(page[i]))

\* What the copy says of k is what the database held at most age ticks ago.
HeldWithin(copy, k, age) ==
    InUse(copy) => /\ copy.lag <= age
                   /\ copy.fresh => copy.value = Content(k)

\* No request is answered with data older than spot_cache_ttl and the service
\* timeout together, whatever fails, dies or overtakes what: an entry is read
\* within service_timeout before it is written, and is never written back.
StalenessBounded ==
    \A k \in Keys :
       /\ HeldWithin(cache[k], k, CacheTTL + ServiceTimeout - 1)
       /\ \A i \in Instances : HeldWithin(loads[i][k], k, ServiceTimeout)

\* A refreshCache that is under way, or is still to come, will delete or write k.
WillBeRefreshed(k) ==
    \E i \in Instances : \/ k \in pending[i] \cup todo[i] \cup RolesLeft(i)
                         \/ k \in Roles /\ pending[i] # {}

\* An outdated entry that no poller is going to remove is there for a known
\* reason only: it was written by a load that a change had overtaken, an
\* invalidation or a refresh failed or died, or no poller could read of the
\* change, because the row was removed by hand or the change committed behind
\* every cursor (SkippedOnlyIfLate of MarketPoller).  Nothing else slips
\* through InvalidateByIDs and RefreshAll.
StaleEntryHasReason ==
    \A k \in Keys :
       InUse(cache[k]) /\ ~cache[k].fresh /\ ~cache[k].orphan => WillBeRefreshed(k)

\* The markets a client collects page by page.
Walk(role, asked, head) ==
    LET from[offset \in 0 .. Cardinality(Markets) + MaxLimit] ==
          LET answer == ViewMarkets(role, asked, offset, head)
          IN  answer.markets \o IF answer.hasMore THEN from[answer.nextOffset] ELSE << >>
    IN  [j \in 1 .. Len(from[0]) |-> from[0][j][1]]

\* While nothing changes, a client that follows next_offset gets every market
\* that GetMarketByID would give it, each once and in order, whatever limit it
\* asks for and although its first page comes from the cache.
WalkFindsAll ==
    \A roles \in SUBSET Roles \ {{}}, asked \in 0 .. MaxLimit + 1 :
       LET role == effectiveUserRole(roles)
           head == cache[role]
           walk == Walk(role, asked, head.value)
       IN  InUse(head) /\ head.fresh /\ ~head.garbled =>
             /\ Range(walk) = {m \in Markets : rows[m] # "absent" /\ MayAccess(role, rows[m])}
             /\ \A i, j \in DOMAIN walk : i < j => walk[i] < walk[j]

-----------------------------------------------------------------------------
(* Inductive strengthening.                                                *)

IsCopy(copy) ==
    /\ copy = [value |-> copy.value, garbled |-> copy.garbled, left |-> copy.left,
               fresh |-> copy.fresh, lag |-> copy.lag, orphan |-> copy.orphan]
    /\ copy.left \in Nat /\ copy.lag \in Nat
    /\ copy.garbled \in BOOLEAN /\ copy.fresh \in BOOLEAN /\ copy.orphan \in BOOLEAN

\* A copy of k is outdated for no longer than the part of its life that is over.
CopyOK(copy, k, life) ==
    /\ IsCopy(copy)
    /\ InUse(copy) => /\ copy.lag + copy.left <= life
                      /\ copy.fresh => copy.value = Content(k)

AgeInv ==
    /\ \A k \in Keys : CopyOK(cache[k], k, CacheTTL + ServiceTimeout)
    /\ \A i \in Instances, k \in Keys : CopyOK(loads[i][k], k, ServiceTimeout + 1)
    /\ \A i \in Instances : CopyOK(page[i], cacheRoleKeys[refresh[i]], ServiceTimeout + 1)
=============================================================================
