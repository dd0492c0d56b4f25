------------------------------ MODULE RemoteSync ------------------------------
(***************************************************************************)
(* The local store adapter and the remote sync client, composed:           *)
(*   - put_hybrid_cache and get_cached_url of src/src/cache.rs, over the   *)
(*     local store CACACHE_MANAGER;                                        *)
(*   - the worker's push of a dump job (dump_job, dump_to_remote_cache of  *)
(*     src/src/cache/remote.rs) under its timeout;                         *)
(*   - get_cache_site with seed_payload_into_local_cache for each entry;   *)
(*   - the remote server and the network, which are not code of this      *)
(*     repository and follow spec section 6.                               *)
(* The worker's queue is taken at the level of BestEffortQueue, which      *)
(* DumpWorker is shown to implement: jobs are pushed one at a time, in     *)
(* the order they were accepted.  A page body is its version number.       *)
(***************************************************************************)
EXTENDS Integers, Sequences, FiniteSets, SequencesExt, Functions

CONSTANTS
    Urls,              \* page urls (http_response.url)
    Hosts,             \* url hosts (url.host_str(), the website_key)
    HostOf,            \* HostOf[u]: the host of u
    Keys,              \* cache keys
    KeyOf,             \* KeyOf[u]: create_cache_key_raw(u, None, None)
    BadUri,            \* urls whose string http::Uri / Url::parse rejects
    ReqHeaderSets,     \* request header maps a caller passes
    ResHeaderSets,     \* response header maps a fetch returns
    MaxVer,            \* fetches of one url
    MaxAge,            \* the freshness a max-age response header grants
    ReadTimeout,       \* get_cached_url's 60 ms, in clock ticks
    PushTimeout,       \* the worker's push timeout, in clock ticks
    MaxPull,           \* the longest site list a server returns
    GroupByWebsiteKey, \* the server answers /cache/site/{k} with the entries
                       \* whose website_key is k
    NoEntry            \* an absent store or server entry

ASSUME RemoteSyncAssumption ==
    /\ HostOf \in [Urls -> Hosts]
    /\ KeyOf \in [Urls -> Keys]
    \* a run touches finitely many cache keys
    /\ IsFiniteSet(Keys)
    /\ \A u, v \in Urls : KeyOf[u] = KeyOf[v] => u = v
    \* a key "GET:<url>" is never a bare host name
    /\ Keys \cap Hosts = {}
    /\ BadUri \subseteq Urls
    /\ MaxVer \in Nat /\ MaxAge \in Nat /\ MaxPull \in Nat
    /\ ReadTimeout \in Nat /\ PushTimeout \in Nat
    /\ GroupByWebsiteKey \in BOOLEAN

(* A fetched response: the page, its version (the body), the request      *)
(* headers the caller sent and the response headers.                      *)
Recs == [url : Urls, ver : 1..MaxVer, reqH : ReqHeaderSets, resH : ResHeaderSets]

(* A header map (HashMap<String, String>) of either side. *)
HeaderMaps == ReqHeaderSets \cup ResHeaderSets

(* HybridCachePayload; b64 says whether body_base64 decodes. *)
Payloads == [key : Keys, site : Hosts, url : Urls, ver : 1..MaxVer,
             reqH : HeaderMaps, resH : HeaderMaps, b64 : BOOLEAN]

(* Ages are counted up to AgeCap(life): beyond it no read can tell two  *)
(* ages of an entry of that lifetime apart.                              *)
AgeCap(life) == life + ReadTimeout

(* A store entry: the stored response, its age (the clock minus the time  *)
(* of the put) and the lifetime of its policy.                            *)
Entries == [url : Urls, ver : 1..MaxVer, resH : HeaderMaps,
            age : 0..(MaxAge + ReadTimeout), life : {0, MaxAge}]

ReadResults == {"none", "timeout", "error", "absent", "stale", "hit"}

VARIABLES
    ver,        \* ver[u]: how many times u has been fetched
    fetched,    \* the responses fetched so far (history)
    dumped,     \* the responses handed to the worker
    store,      \* CACACHE_MANAGER: store[k] is an entry or NoEntry
    jobs,       \* the worker's accepted jobs, oldest first
    wpc,        \* the worker: "idle" or "posting" (awaiting dump_job)
    wcur,       \* the payload of the POST the worker awaits
    wwait,      \* ticks since that POST was sent (up to PushTimeout)
    net,        \* POST requests on their way to the server
    server,     \* server[k]: the payload the server holds for resource key k
    ppc,        \* get_cache_site: "idle", "get" (awaiting the GET), "seed"
    ptarget,    \* the target url of the pull
    presp,      \* the parsed payload list
    ptodo,      \* the entries the seeding loop has still to visit
    seeded,     \* entries of this pull written to the store
    putFailed,  \* entries of this pull whose store put failed
    rpc,        \* get_cached_url: "idle", "wait" (the store not yet read)
                \* or "read" (the entry read, the await not yet returned)
    rkey,       \* the key being read, or NoEntry when no call is under way
    rsnap,      \* the entry the store read returned while the call is
                \* under way, or NoEntry
    rwait,      \* ticks since the read started (up to ReadTimeout + 1)
    rres        \* the outcome of the last read

vars == <<ver, fetched, dumped, store, jobs, wpc, wcur, wwait, net,
          server, ppc, ptarget, presp, ptodo, seeded, putFailed, rpc, rkey,
          rsnap, rwait, rres>>

pullVars == <<ppc, ptarget, presp, ptodo, seeded, putFailed>>
readVars == <<rpc, rkey, rsnap, rwait, rres>>
workerVars == <<jobs, wpc, wcur, wwait>>

-----------------------------------------------------------------------------
(* CachePolicy::new(&req, &res), reduced to one directive each way: a     *)
(* max-age in the response makes the entry fresh for MaxAge, unless the   *)
(* request says no-store; anything else is stale at once.                 *)
PolicyLife(reqH, resH) ==
    IF "maxage" \in resH /\ "nostore" \notin reqH THEN MaxAge ELSE 0

(* cache_policy.is_stale(SystemTime::now()): the entry's age has reached *)
(* the lifetime of its policy.                                            *)
IsStale(e) == e.age >= e.life

(* The entry CACACHE_MANAGER.put stores for a response and its policy. *)
EntryOf(u, v, resH, life) ==
    [url |-> u, ver |-> v, resH |-> resH, age |-> 0, life |-> life]

(* Mutant: the payload carries the request headers as response headers. *)
PayloadOfSwapped(r) ==
    [key |-> KeyOf[r.url], site |-> HostOf[r.url], url |-> r.url,
     ver |-> r.ver, reqH |-> r.resH, resH |-> r.reqH, b64 |-> TRUE]

(* The payload dump_to_remote_cache builds for a job: the cache key as    *)
(* resource key, the url's host as website key, both header maps.         *)
PayloadOf(r) ==
    [key |-> KeyOf[r.url], site |-> HostOf[r.url], url |-> r.url,
     ver |-> r.ver, reqH |-> r.reqH, resH |-> r.resH, b64 |-> TRUE]

(* The payloads the server holds. *)
Stored == {server[k] : k \in {k2 \in Keys : server[k2] # NoEntry}}

(* An entry as it may come back over the wire: intact or with a body that *)
(* does not decode (the server is not this code and may serve anything).  *)
Wire(S) == S \cup {[p EXCEPT !.b64 = FALSE] : p \in S}

(* The lists GET /cache/site/{k} may return: the entries whose website    *)
(* key is k, each once, or, for a server of unknown grouping, any list of *)
(* stored entries.                                                        *)
SiteLists(k) ==
    IF GroupByWebsiteKey
    THEN SetToSeqs({p \in Stored : p.site = k})
    ELSE SeqOf(Wire(Stored), MaxPull)

Init ==
    /\ ver = [u \in Urls |-> 0]
    /\ fetched = {}
    /\ dumped = {}
    /\ store = [k \in Keys |-> NoEntry]
    /\ jobs = <<>>
    /\ wpc = "idle"
    /\ wcur = NoEntry
    /\ wwait = 0
    /\ net = {}
    /\ server = [k \in Keys |-> NoEntry]
    /\ ppc = "idle"
    /\ ptarget = NoEntry
    /\ presp = <<>>
    /\ ptodo = <<>>
    /\ seeded = {}
    /\ putFailed = {}
    /\ rpc = "idle"
    /\ rkey = NoEntry
    /\ rsnap = NoEntry
    /\ rwait = 0
    /\ rres = "none"

-----------------------------------------------------------------------------
(* A fetch of u returns a new version; put_hybrid_cache then parses the   *)
(* url as a Uri (nothing is stored if that fails), builds the request     *)
(* side from the RESPONSE headers and the response side from the REQUEST *)
(* headers (lines 307, 313), and puts the entry, ignoring an error.       *)
PutHybridCache(u, reqH, resH) ==
    /\ ver[u] < MaxVer
    /\ LET r == [url |-> u, ver |-> ver[u] + 1, reqH |-> reqH, resH |-> resH]
       IN  /\ ver' = [ver EXCEPT ![u] = r.ver]
           /\ fetched' = fetched \cup {r}
           /\ \/ /\ u \notin BadUri
                 /\ store' = [store EXCEPT ![KeyOf[u]] =
                                 EntryOf(u, r.ver, resH, PolicyLife(resH, reqH))]
              \/ UNCHANGED store
    /\ UNCHANGED <<dumped, workerVars, net, server, pullVars, readVars>>

(* The caller hands the fetched response to the worker and it is accepted *)
(* (a dropped job is a response never handed over).                       *)
EnqueueDump(r) ==
    /\ r \in fetched \ dumped
    /\ jobs' = Append(jobs, r)
    /\ dumped' = dumped \cup {r}
    /\ UNCHANGED <<ver, fetched, store, wpc, wcur, wwait, net, server,
                   pullVars, readVars>>

(* The worker takes the oldest job and dump_job calls dump_to_remote_cache:*)
(* it builds the payload, resolves the endpoint and sends one POST.       *)
DumpToRemoteCache ==
    /\ wpc = "idle"
    /\ jobs # <<>>
    /\ wcur' = PayloadOf(Head(jobs))
    /\ net' = net \cup {wcur'}
    /\ jobs' = Tail(jobs)
    /\ wpc' = "posting"
    /\ wwait' = 0
    /\ UNCHANGED <<ver, fetched, dumped, store, server, pullVars, readVars>>

(* The POST completes: the server answered, or the request failed; either *)
(* way the result is only logged.                                         *)
PostReturns ==
    /\ wpc = "posting"
    /\ wcur \notin net
    /\ wpc' = "idle"
    /\ UNCHANGED <<ver, fetched, dumped, store, jobs, wcur, wwait, net,
                   server, pullVars, readVars>>

(* The worker's timeout cancels the await; the request already sent stays *)
(* on its way.                                                            *)
PostTimeout ==
    /\ wpc = "posting"
    /\ wwait >= PushTimeout
    /\ wpc' = "idle"
    /\ UNCHANGED <<ver, fetched, dumped, store, jobs, wcur, wwait, net,
                   server, pullVars, readVars>>

(* The server receives a POST /cache/index and upserts it by resource key. *)
ServerIndex(p) ==
    /\ p \in net
    /\ server' = [server EXCEPT ![p.key] = p]
    /\ net' = net \ {p}
    /\ UNCHANGED <<ver, fetched, dumped, store, workerVars, pullVars, readVars>>

(* A POST is lost in transport. *)
LosePost(p) ==
    /\ p \in net
    /\ net' = net \ {p}
    /\ UNCHANGED <<ver, fetched, dumped, store, workerVars, server,
                   pullVars, readVars>>

(* get_cache_site(u): the key is create_cache_key_raw(u, None, auth) and *)
(* the GET goes to {base}/cache/site/{key}.                              *)
GetCacheSite(u) ==
    /\ ppc = "idle"
    /\ ppc' = "get"
    /\ ptarget' = u
    /\ UNCHANGED <<presp, ptodo, seeded, putFailed>>
    /\ UNCHANGED <<ver, fetched, dumped, store, workerVars, net, server,
                   readVars>>

(* A transport error, a non-success status or a body that is not a JSON  *)
(* list: logged, and the pull returns without effect.                    *)
SiteFails ==
    /\ ppc = "get"
    /\ ppc' = "idle"
    /\ UNCHANGED <<ptarget, presp, ptodo, seeded, putFailed>>
    /\ UNCHANGED <<ver, fetched, dumped, store, workerVars, net, server,
                   readVars>>

(* The server answers with a list of payloads, which the loop will seed. *)
SiteResponds ==
    /\ ppc = "get"
    /\ \E l \in SiteLists(KeyOf[ptarget]) :
          /\ presp' = l
          /\ ptodo' = l
    /\ ppc' = "seed"
    /\ seeded' = {}
    /\ putFailed' = {}
    /\ UNCHANGED <<ptarget, ver, fetched, dumped, store, workerVars, net,
                   server, readVars>>

(* Mutant: the entry is put under the payload's website key instead of *)
(* its resource key.                                                     *)
SeedPayloadSiteKey ==
    /\ ppc = "seed"
    /\ ptodo # <<>>
    /\ LET p == Head(ptodo) IN
       IF ~p.b64 \/ p.url \in BadUri
       THEN UNCHANGED <<store, seeded, putFailed>>
       ELSE \/ /\ store' = (p.site :> EntryOf(p.url, p.ver, p.resH,
                                              PolicyLife(p.reqH, p.resH))) @@ store
               /\ seeded' = seeded \cup {p}
               /\ UNCHANGED putFailed
            \/ /\ putFailed' = putFailed \cup {p}
               /\ UNCHANGED <<store, seeded>>
    /\ ptodo' = Tail(ptodo)
    /\ UNCHANGED <<ppc, ptarget, presp, ver, fetched, dumped, workerVars,
                   net, server, readVars>>

(* Mutant: the first failed entry ends the loop. *)
SeedPayloadAbort ==
    /\ ppc = "seed"
    /\ ptodo # <<>>
    /\ LET p == Head(ptodo) IN
       IF ~p.b64 \/ p.url \in BadUri
       THEN /\ ptodo' = <<>>
            /\ UNCHANGED <<store, seeded, putFailed>>
       ELSE \/ /\ store' = [store EXCEPT ![p.key] =
                               EntryOf(p.url, p.ver, p.resH, PolicyLife(p.reqH, p.resH))]
               /\ seeded' = seeded \cup {p}
               /\ ptodo' = Tail(ptodo)
               /\ UNCHANGED putFailed
            \/ /\ putFailed' = putFailed \cup {p}
               /\ ptodo' = <<>>
               /\ UNCHANGED <<store, seeded>>
    /\ UNCHANGED <<ppc, ptarget, presp, ver, fetched, dumped, workerVars,
                   net, server, readVars>>

(* One turn of the loop: seed_payload_into_local_cache decodes the body, *)
(* parses the url twice, computes the policy from the request headers    *)
(* and the response headers in their places, and puts the entry under    *)
(* its resource key; an error is logged and the loop goes on.            *)
SeedPayload ==
    /\ ppc = "seed"
    /\ ptodo # <<>>
    /\ LET p == Head(ptodo) IN
       IF ~p.b64 \/ p.url \in BadUri
       THEN UNCHANGED <<store, seeded, putFailed>>
       ELSE \/ /\ store' = [store EXCEPT ![p.key] =
                               EntryOf(p.url, p.ver, p.resH, PolicyLife(p.reqH, p.resH))]
               /\ seeded' = seeded \cup {p}
               /\ UNCHANGED putFailed
            \/ /\ putFailed' = putFailed \cup {p}
               /\ UNCHANGED <<store, seeded>>
    /\ ptodo' = Tail(ptodo)
    /\ UNCHANGED <<ppc, ptarget, presp, ver, fetched, dumped, workerVars,
                   net, server, readVars>>

(* The loop has visited every entry. *)
PullDone ==
    /\ ppc = "seed"
    /\ ptodo = <<>>
    /\ ppc' = "idle"
    /\ UNCHANGED <<ptarget, presp, ptodo, seeded, putFailed>>
    /\ UNCHANGED <<ver, fetched, dumped, store, workerVars, net, server,
                   readVars>>

(* get_cached_url(u): the read of the store under the 60 ms timeout starts. *)
GetCachedUrl(u) ==
    /\ rpc = "idle"
    /\ rpc' = "wait"
    /\ rkey' = KeyOf[u]
    /\ rsnap' = NoEntry
    /\ rwait' = 0
    /\ rres' = "none"
    /\ UNCHANGED <<ver, fetched, dumped, store, workerVars, net, server,
                   pullVars>>

(* The outcome of a get that returned e, its staleness judged now. *)
ReadOutcome(e) ==
    IF e = NoEntry THEN "absent"
    ELSE IF IsStale(e) THEN "stale" ELSE "hit"

(* Inside the await, CACACHE_MANAGER.get reads the entry under the key   *)
(* (line 57); a put may overwrite it before the await returns.           *)
StoreRead ==
    /\ rpc = "wait"
    /\ rwait <= ReadTimeout
    /\ rpc' = "read"
    /\ rsnap' = store[rkey]
    /\ UNCHANGED <<rkey, rwait, rres>>
    /\ UNCHANGED <<ver, fetched, dumped, store, workerVars, net, server, pullVars>>

(* The get completes before the timeout: a store error or a missing entry *)
(* is a miss, a stale policy of the entry read (checked at               *)
(* SystemTime::now(), line 63) is a miss, otherwise its body is returned. *)
StoreGetReturns ==
    /\ rpc = "read"
    /\ rwait <= ReadTimeout
    /\ rpc' = "idle"
    /\ \/ rres' = ReadOutcome(rsnap)
       \/ rres' = "error"
    /\ rkey' = NoEntry
    /\ rsnap' = NoEntry
    /\ rwait' = 0
    /\ UNCHANGED <<ver, fetched, dumped, store, workerVars, net, server, pullVars>>

(* tokio::time::timeout elapses first, whether or not the store was read: *)
(* a miss.                                                                *)
ReadTimesOut ==
    /\ rpc \in {"wait", "read"}
    /\ rwait >= ReadTimeout
    /\ rpc' = "idle"
    /\ rres' = "timeout"
    /\ rkey' = NoEntry
    /\ rsnap' = NoEntry
    /\ rwait' = 0
    /\ UNCHANGED <<ver, fetched, dumped, store, workerVars, net, server, pullVars>>

(* An entry one tick older, its age counted up to AgeCap. *)
Aged(e) ==
    IF e = NoEntry THEN NoEntry
    ELSE [e EXCEPT !.age = IF @ < AgeCap(e.life) THEN @ + 1 ELSE @]

(* The clock advances one tick: every entry ages, the entry a read holds *)
(* included, and so do the waits of the worker's POST and of the read (a  *)
(* read past its deadline is only told apart from one at it).             *)
Tick ==
    /\ store' = [k \in Keys |-> Aged(store[k])]
    /\ rsnap' = Aged(rsnap)
    /\ wwait' = IF wpc = "posting" /\ wwait < PushTimeout THEN wwait + 1 ELSE wwait
    /\ rwait' = IF rpc # "idle" /\ rwait <= ReadTimeout THEN rwait + 1 ELSE rwait
    /\ UNCHANGED <<ver, fetched, dumped, jobs, wpc, wcur, net, server,
                   pullVars, rpc, rkey, rres>>

Next ==
    \/ \E u \in Urls, q \in ReqHeaderSets, h \in ResHeaderSets : PutHybridCache(u, q, h)
    \/ \E r \in fetched : EnqueueDump(r)
    \/ DumpToRemoteCache \/ PostReturns \/ PostTimeout
    \/ \E p \in net : ServerIndex(p) \/ LosePost(p)
    \/ \E u \in Urls : GetCacheSite(u) \/ GetCachedUrl(u)
    \/ SiteFails \/ SiteResponds \/ SeedPayload \/ PullDone
    \/ StoreRead \/ StoreGetReturns \/ ReadTimesOut
    \/ Tick

Spec == Init /\ [][Next]_vars

-----------------------------------------------------------------------------
(* The fetched response a store entry holds a version of. *)
RecOf(e) == CHOOSE r \in fetched : r.url = e.url /\ r.ver = e.ver

(* Every variable has the type of the code's value. *)
TypeOK ==
    /\ ver \in [Urls -> 0..MaxVer]
    /\ fetched \subseteq Recs /\ dumped \subseteq fetched
    /\ store \in [Keys -> Entries \cup {NoEntry}]
    /\ jobs \in Seq(Recs)
    /\ wpc \in {"idle", "posting"}
    /\ wcur \in Payloads \cup {NoEntry}
    /\ wwait \in 0..PushTimeout
    /\ net \subseteq Payloads
    /\ server \in [Keys -> Payloads \cup {NoEntry}]
    /\ ppc \in {"idle", "get", "seed"}
    /\ ptarget \in Urls \cup {NoEntry}
    /\ presp \in Seq(Payloads) /\ ptodo \in Seq(Payloads)
    /\ seeded \subseteq Payloads /\ putFailed \subseteq Payloads
    /\ rpc \in {"idle", "wait", "read"}
    /\ rkey \in IF rpc = "idle" THEN {NoEntry} ELSE Keys
    /\ rsnap \in Entries \cup {NoEntry}
    /\ rwait \in 0..(ReadTimeout + 1)
    /\ rres \in ReadResults

(* The round trip of spec 8, through every path an entry can take into   *)
(* the store (put_hybrid_cache, or push, server, pull and seed): an entry *)
(* under key k is a fetched version of the page k names, with the         *)
(* response headers of that fetch.                                        *)
StoreHoldsFetchedVersions ==
    \A k \in Keys : store[k] # NoEntry =>
        /\ KeyOf[store[k].url] = k
        /\ \E r \in fetched : /\ r.url = store[k].url
                              /\ r.ver = store[k].ver
                              /\ r.resH = store[k].resH

(* Spec 4.5: per-entry failures are isolated.  When the seeding loop of   *)
(* get_cache_site ends, every entry of the list whose body decodes and    *)
(* whose url parses was written to the store or had its own put fail.     *)
SeedIsolation ==
    [][ppc = "seed" /\ ppc' = "idle" =>
         \A i \in DOMAIN presp :
            presp[i].b64 /\ presp[i].url \notin BadUri =>
               presp[i] \in seeded \cup putFailed]_vars

(* The step at which get_cached_url's timed store read returns. *)
ReadReturns(res) == rpc = "read" /\ rpc' = "idle" /\ rres' = res

(* Spec 4.1/8: a stale policy causes a miss, and the policy is built from *)
(* the request's headers and the response's headers.  So a miss for       *)
(* staleness means the freshness granted to the entry read has run out.   *)
StaleMeansExpired ==
    [][ReadReturns("stale") =>
         rsnap.age >= PolicyLife(RecOf(rsnap).reqH, RecOf(rsnap).resH)]_vars

(* The doc comment of get_cache_site: it fetches the cache of a website   *)
(* and seeds all its entries.  A pull that the server answers returns     *)
(* every entry the server holds for the target url's website.             *)
PulledSiteHasPushedPages ==
    [][ppc = "get" /\ ppc' = "seed" =>
         \A p \in Stored : p.site = HostOf[ptarget] =>
            \E i \in DOMAIN presp' : presp'[i] = p]_vars
=============================================================================
