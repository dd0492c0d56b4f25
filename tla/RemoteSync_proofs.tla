-------------------------- MODULE RemoteSync_proofs --------------------------
(* Proofs about the composed store, push and pull paths (RemoteSync) for   *)
(* every value of the constants.                                           *)
EXTENDS RemoteSync, FiniteSetTheorems, SequenceTheorems, TLAPS

(* The payload p carries a fetched version of its page under that page's *)
(* own cache key, given the set F of fetched responses.                  *)
FromFetch(p, F) ==
    /\ KeyOf[p.url] = p.key
    /\ \E r \in F : r.url = p.url /\ r.ver = p.ver /\ r.resH = p.resH

(* The inductive invariant behind StoreHoldsFetchedVersions: what the     *)
(* store holds came from a fetch, and so does every payload that may yet  *)
(* reach it, whether it waits in the worker's queue, travels to the       *)
(* server, sits on the server or is still to be seeded by a pull.         *)
SyncInv ==
    /\ StoreHoldsFetchedVersions
    /\ \A i \in 1..Len(jobs) : jobs[i] \in fetched
    /\ \A p \in net : FromFetch(p, fetched)
    /\ \A k \in Keys : server[k] # NoEntry =>
          server[k].key = k /\ FromFetch(server[k], fetched)
    /\ \A i \in 1..Len(ptodo) : FromFetch(ptodo[i], fetched)

-----------------------------------------------------------------------------
(* The entries the server holds form a finite set of payloads. *)
LEMMA StoredFinite ==
    ASSUME server \in [Keys -> Payloads \cup {NoEntry}]
    PROVE  Stored \subseteq Payloads /\ IsFiniteSet(Stored)
<1> DEFINE All == {server[k] : k \in Keys}
<1>1. PICK ks \in Seq(Keys) : \A k \in Keys : \E n \in 1..Len(ks) : ks[n] = k
  BY RemoteSyncAssumption DEF IsFiniteSet
<1>2. [n \in 1..Len(ks) |-> server[ks[n]]] \in Seq(All)
  OBVIOUS
<1>3. IsFiniteSet(All)
  <2> DEFINE f == [n \in 1..Len(ks) |-> server[ks[n]]]
  <2>1. \A x \in All : \E n \in 1..Len(f) : f[n] = x
    <3> SUFFICES ASSUME NEW k \in Keys PROVE \E n \in 1..Len(f) : f[n] = server[k]
      OBVIOUS
    <3>1. PICK n \in 1..Len(ks) : ks[n] = k
      BY <1>1
    <3>2. n \in 1..Len(f) /\ f[n] = server[k]
      BY <3>1
    <3>3. QED
      BY <3>2
  <2>2. QED
    BY <1>2, <2>1 DEF IsFiniteSet
<1>4. Stored \subseteq All /\ Stored \subseteq Payloads
  BY DEF Stored
<1>5. QED
  BY <1>3, <1>4, FS_Subset

(* Every list a site GET may return is a sequence of payloads. *)
LEMMA SiteListsType ==
    ASSUME server \in [Keys -> Payloads \cup {NoEntry}], NEW k
    PROVE  SiteLists(k) \subseteq Seq(Payloads)
<1>1. Stored \subseteq Payloads /\ IsFiniteSet(Stored)
  BY StoredFinite
<1>2. Wire(Stored) \subseteq Payloads
  BY <1>1 DEF Wire, Payloads
<1>3. SeqOf(Wire(Stored), MaxPull) \subseteq Seq(Payloads)
  BY <1>2, RemoteSyncAssumption DEF SeqOf
<1>4. SetToSeqs({p \in Stored : p.site = k}) \subseteq Seq(Payloads)
  <2> DEFINE T == {p \in Stored : p.site = k}
  <2>1. IsFiniteSet(T)
    BY <1>1, FS_Subset
  <2>2. Cardinality(T) \in Nat
    BY <2>1, FS_CardinalityType
  <2>3. ASSUME NEW f \in SetToSeqs(T) PROVE f \in Seq(Payloads)
    <3>1. f \in [1..Cardinality(T) -> Payloads]
      BY <1>1 DEF SetToSeqs
    <3>2. QED
      BY <2>2, <3>1, SeqDef
  <2>4. QED
    BY <2>3
<1>5. QED
  BY <1>3, <1>4 DEF SiteLists

(* The lifetime a policy grants is one of the two the model knows. *)
LEMMA PolicyLifeType ==
    ASSUME NEW q, NEW h
    PROVE  PolicyLife(q, h) \in {0, MaxAge}
BY DEF PolicyLife

(* The entry a put or a seed stores is a store entry. *)
LEMMA EntryOfType ==
    ASSUME NEW u \in Urls, NEW v \in 1..MaxVer, NEW h \in HeaderMaps,
           NEW l \in {0, MaxAge}
    PROVE  EntryOf(u, v, h, l) \in Entries
BY RemoteSyncAssumption DEF EntryOf, Entries

(* A clock tick keeps an entry, or its absence, within the entry type. *)
LEMMA AgedType ==
    ASSUME NEW e \in Entries \cup {NoEntry}
    PROVE  Aged(e) \in Entries \cup {NoEntry}
<1>1. CASE e = NoEntry
  BY <1>1 DEF Aged
<1>2. CASE e # NoEntry
  <2> DEFINE a == IF e.age < AgeCap(e.life) THEN e.age + 1 ELSE e.age
  <2>1. e \in Entries
    BY <1>2
  <2>2. AgeCap(e.life) <= MaxAge + ReadTimeout /\ e.age \in 0..(MaxAge + ReadTimeout)
    BY <2>1, RemoteSyncAssumption DEF Entries, AgeCap
  <2>3. a \in 0..(MaxAge + ReadTimeout)
    BY <2>1, <2>2, RemoteSyncAssumption DEF Entries, AgeCap
  <2>4. Aged(e) = [e EXCEPT !.age = a]
    BY <1>2 DEF Aged
  <2>5. QED
    BY <2>1, <2>3, <2>4 DEF Entries
<1>3. QED
  BY <1>1, <1>2

-----------------------------------------------------------------------------
(* Each action keeps the types. *)
LEMMA TypeStep == TypeOK /\ [Next]_vars => TypeOK'
<1> SUFFICES ASSUME TypeOK, [Next]_vars PROVE TypeOK'
  OBVIOUS
<1> USE RemoteSyncAssumption DEF pullVars, readVars, workerVars
<1>1. ASSUME NEW u \in Urls, NEW q \in ReqHeaderSets, NEW h \in ResHeaderSets,
             PutHybridCache(u, q, h)
      PROVE  TypeOK'
  <2> DEFINE v == ver[u] + 1
              r == [url |-> u, ver |-> v, reqH |-> q, resH |-> h]
  <2>1. v \in 1..MaxVer
    BY <1>1 DEF PutHybridCache, TypeOK
  <2>2. EntryOf(u, v, h, PolicyLife(h, q)) \in Entries
    <3>1. h \in HeaderMaps /\ PolicyLife(h, q) \in {0, MaxAge}
      BY PolicyLifeType DEF HeaderMaps
    <3>2. QED
      BY <2>1, <3>1, EntryOfType
  <2>3. /\ ver' = [ver EXCEPT ![u] = v]
        /\ fetched' = fetched \cup {r}
        /\ \/ store' = [store EXCEPT ![KeyOf[u]] = EntryOf(u, v, h, PolicyLife(h, q))]
           \/ store' = store
        /\ UNCHANGED <<dumped, jobs, wpc, wcur, wwait, net, server, ppc, ptarget,
                       presp, ptodo, seeded, putFailed, rpc, rkey, rsnap, rwait, rres>>
    BY <1>1 DEF PutHybridCache
  <2>4. r \in Recs
    BY <2>1 DEF Recs
  <2>5. ver' \in [Urls -> 0..MaxVer] /\ fetched' \subseteq Recs /\ dumped' \subseteq fetched'
    BY <2>1, <2>3, <2>4 DEF TypeOK
  <2>6. store' \in [Keys -> Entries \cup {NoEntry}]
    <3>1. KeyOf[u] \in Keys
      OBVIOUS
    <3>2. [store EXCEPT ![KeyOf[u]] = EntryOf(u, v, h, PolicyLife(h, q))]
             \in [Keys -> Entries \cup {NoEntry}]
      BY <2>2, <3>1 DEF TypeOK
    <3>3. QED
      BY <2>3, <3>2 DEF TypeOK
  <2>7. QED
    BY <2>3, <2>5, <2>6 DEF TypeOK
<1>2. ASSUME NEW r \in fetched, EnqueueDump(r) PROVE TypeOK'
  BY <1>2 DEF EnqueueDump, TypeOK
<1>3. CASE DumpToRemoteCache
  <2>1. PayloadOf(Head(jobs)) \in Payloads
    <3>1. Head(jobs) \in Recs
      BY <1>3 DEF DumpToRemoteCache, TypeOK
    <3>2. QED
      BY <3>1 DEF PayloadOf, Payloads, Recs, HeaderMaps
  <2>2. QED
    BY <1>3, <2>1 DEF DumpToRemoteCache, TypeOK
<1>4. CASE PostReturns
  BY <1>4 DEF PostReturns, TypeOK
<1>5. CASE PostTimeout
  BY <1>5 DEF PostTimeout, TypeOK
<1>6. ASSUME NEW p \in net, ServerIndex(p) PROVE TypeOK'
  BY <1>6 DEF ServerIndex, TypeOK
<1>7. ASSUME NEW p \in net, LosePost(p) PROVE TypeOK'
  BY <1>7 DEF LosePost, TypeOK
<1>8. ASSUME NEW u \in Urls, GetCacheSite(u) PROVE TypeOK'
  BY <1>8 DEF GetCacheSite, TypeOK
<1>9. ASSUME NEW u \in Urls, GetCachedUrl(u) PROVE TypeOK'
  BY <1>9 DEF GetCachedUrl, TypeOK, ReadResults
<1>10. CASE SiteFails
  BY <1>10 DEF SiteFails, TypeOK
<1>11. CASE SiteResponds
  <2>1. SiteLists(KeyOf[ptarget]) \subseteq Seq(Payloads)
    BY SiteListsType DEF TypeOK
  <2>2. QED
    BY <1>11, <2>1 DEF SiteResponds, TypeOK
<1>12. CASE SeedPayload
  <2> DEFINE p == Head(ptodo)
  <2>1. p \in Payloads /\ Tail(ptodo) \in Seq(Payloads)
    BY <1>12 DEF SeedPayload, TypeOK
  <2>2. EntryOf(p.url, p.ver, p.resH, PolicyLife(p.reqH, p.resH)) \in Entries
    BY <2>1, PolicyLifeType, EntryOfType DEF Payloads
  <2>3. ptodo' = Tail(ptodo)
        /\ UNCHANGED <<ppc, ptarget, presp, ver, fetched, dumped, jobs, wpc, wcur,
                       wwait, net, server, rpc, rkey, rsnap, rwait, rres>>
    BY <1>12 DEF SeedPayload
  <2>4. CASE ~p.b64 \/ p.url \in BadUri
    BY <1>12, <2>1, <2>3, <2>4 DEF SeedPayload, TypeOK
  <2>5. CASE ~(~p.b64 \/ p.url \in BadUri)
    <3>1. \/ /\ store' = [store EXCEPT ![p.key] =
                          EntryOf(p.url, p.ver, p.resH, PolicyLife(p.reqH, p.resH))]
             /\ seeded' = seeded \cup {p} /\ putFailed' = putFailed
          \/ /\ putFailed' = putFailed \cup {p}
             /\ store' = store /\ seeded' = seeded
      BY <1>12, <2>5 DEF SeedPayload
    <3>2. p.key \in Keys
      BY <2>1 DEF Payloads
    <3>3. [store EXCEPT ![p.key] =
             EntryOf(p.url, p.ver, p.resH, PolicyLife(p.reqH, p.resH))]
             \in [Keys -> Entries \cup {NoEntry}]
      BY <2>2, <3>2 DEF TypeOK
    <3>4. store' \in [Keys -> Entries \cup {NoEntry}]
          /\ seeded' \subseteq Payloads /\ putFailed' \subseteq Payloads
      BY <2>1, <3>1, <3>3 DEF TypeOK
    <3>5. QED
      BY <2>1, <2>3, <3>4 DEF TypeOK
  <2>6. QED
    BY <2>4, <2>5
<1>13. CASE PullDone
  BY <1>13 DEF PullDone, TypeOK
<1>14. CASE StoreGetReturns
  BY <1>14 DEF StoreGetReturns, ReadOutcome, ReadResults, TypeOK
<1>19. CASE StoreRead
  BY <1>19 DEF StoreRead, TypeOK
<1>15. CASE ReadTimesOut
  BY <1>15 DEF ReadTimesOut, ReadResults, TypeOK
<1>16. CASE Tick
  <2>1. store' \in [Keys -> Entries \cup {NoEntry}] /\ rsnap' \in Entries \cup {NoEntry}
    BY <1>16, AgedType DEF Tick, TypeOK
  <2>2. wwait' \in 0..PushTimeout /\ rwait' \in 0..(ReadTimeout + 1)
    BY <1>16 DEF Tick, TypeOK
  <2>3. UNCHANGED <<ver, fetched, dumped, jobs, wpc, wcur, net, server,
                   ppc, ptarget, presp, ptodo, seeded, putFailed, rpc, rkey, rres>>
    BY <1>16 DEF Tick
  <2>4. QED
    BY <2>1, <2>2, <2>3 DEF TypeOK
<1>17. CASE UNCHANGED vars
  BY <1>17 DEF vars, TypeOK
<1>18. QED
  BY <1>1, <1>2, <1>3, <1>4, <1>5, <1>6, <1>7, <1>8, <1>9, <1>10, <1>11,
     <1>12, <1>13, <1>14, <1>15, <1>16, <1>17, <1>19 DEF Next

(* Every variable keeps the type of the code's value, for every set of   *)
(* pages, keys and header maps and every bound.                           *)
THEOREM TypeCorrect == Spec => []TypeOK
<1>1. Init => TypeOK
  BY RemoteSyncAssumption DEF Init, TypeOK, ReadResults
<1>2. QED
  BY <1>1, TypeStep, PTL DEF Spec

-----------------------------------------------------------------------------
(* A payload that came from a fetch still does once more is fetched. *)
LEMMA FromFetchMono ==
    ASSUME NEW p, NEW F, NEW G, F \subseteq G, FromFetch(p, F)
    PROVE  FromFetch(p, G)
BY DEF FromFetch

(* A payload as it comes back over the wire, with its body intact or not, *)
(* came from the same fetch.                                               *)
LEMMA WireFromFetch ==
    ASSUME NEW S \in SUBSET Payloads, NEW F, \A p \in S : FromFetch(p, F)
    PROVE  \A p \in Wire(S) : FromFetch(p, F)
BY DEF Wire, FromFetch, Payloads

(* Every list a site GET may return holds payloads the server has, with   *)
(* or without a decodable body.                                           *)
LEMMA SiteListsFromServer ==
    ASSUME server \in [Keys -> Payloads \cup {NoEntry}], NEW k,
           NEW l \in SiteLists(k)
    PROVE  \A i \in 1..Len(l) : l[i] \in Wire(Stored)
<1>1. Stored \subseteq Payloads /\ IsFiniteSet(Stored)
  BY StoredFinite
<1>2. Stored \subseteq Wire(Stored)
  BY DEF Wire
<1>3. CASE GroupByWebsiteKey
  <2> DEFINE T == {p \in Stored : p.site = k}
  <2>1. Cardinality(T) \in Nat
    BY <1>1, FS_Subset, FS_CardinalityType
  <2>2. l \in [1..Cardinality(T) -> T]
    BY <1>3 DEF SiteLists, SetToSeqs
  <2>3. Len(l) = Cardinality(T)
    BY <2>1, <2>2, SeqDef
  <2>4. QED
    BY <1>2, <2>2, <2>3
<1>4. CASE ~GroupByWebsiteKey
  <2>1. PICK m \in 0..MaxPull : l \in [1..m -> Wire(Stored)]
    BY <1>4 DEF SiteLists, SeqOf
  <2>2. Len(l) = m
    BY <2>1, RemoteSyncAssumption, SeqDef
  <2>3. QED
    BY <2>1, <2>2
<1>5. QED
  BY <1>3, <1>4, RemoteSyncAssumption

USE DEF pullVars, readVars, workerVars

(* The entries on the server came from fetches. *)
LEMMA StoredFromFetch ==
    ASSUME SyncInv
    PROVE  \A p \in Stored : FromFetch(p, fetched)
BY DEF SyncInv, Stored

(* A fetch and its local put keep the invariant: the new entry is that  *)
(* fetch, and nothing else loses its fetch.                              *)
LEMMA PutSync ==
    ASSUME TypeOK, SyncInv, NEW u \in Urls, NEW q \in ReqHeaderSets,
           NEW h \in ResHeaderSets, PutHybridCache(u, q, h)
    PROVE  SyncInv'
<1> DEFINE v == ver[u] + 1
           r == [url |-> u, ver |-> v, reqH |-> q, resH |-> h]
<1>1. /\ fetched' = fetched \cup {r}
      /\ \/ store' = [store EXCEPT ![KeyOf[u]] = EntryOf(u, v, h, PolicyLife(h, q))]
         \/ store' = store
      /\ UNCHANGED <<jobs, net, server, ptodo>>
  BY DEF PutHybridCache
<1>2. StoreHoldsFetchedVersions'
  <2> SUFFICES ASSUME NEW k \in Keys, store'[k] # NoEntry
               PROVE  /\ KeyOf[store'[k].url] = k
                      /\ \E r2 \in fetched' : /\ r2.url = store'[k].url
                                              /\ r2.ver = store'[k].ver
                                              /\ r2.resH = store'[k].resH
    BY DEF StoreHoldsFetchedVersions
  <2>1. CASE store' = store
    BY <1>1, <2>1 DEF SyncInv, StoreHoldsFetchedVersions
  <2>2. CASE store' = [store EXCEPT ![KeyOf[u]] = EntryOf(u, v, h, PolicyLife(h, q))]
    <3>1. CASE k = KeyOf[u]
      <4>1. store'[k] = EntryOf(u, v, h, PolicyLife(h, q))
        BY <2>2, <3>1 DEF TypeOK
      <4>2. r \in fetched' /\ r.url = u /\ r.ver = v /\ r.resH = h
        BY <1>1
      <4>3. QED
        BY <4>1, <4>2, <3>1 DEF EntryOf
    <3>2. CASE k # KeyOf[u]
      BY <1>1, <2>2, <3>2 DEF SyncInv, StoreHoldsFetchedVersions
    <3>3. QED
      BY <3>1, <3>2
  <2>3. QED
    BY <1>1, <2>1, <2>2
<1>3. fetched \subseteq fetched'
  BY <1>1
<1>4. QED
  BY <1>1, <1>2, <1>3, FromFetchMono DEF SyncInv

(* Handing a fetched response to the worker keeps the invariant. *)
LEMMA EnqueueSync ==
    ASSUME TypeOK, SyncInv, NEW r \in fetched, EnqueueDump(r)
    PROVE  SyncInv'
<1>1. jobs' = Append(jobs, r) /\ UNCHANGED <<fetched, store, net, server, ptodo>>
  BY DEF EnqueueDump
<1>2. \A i \in 1..Len(jobs') : jobs'[i] \in fetched'
  <2>1. jobs \in Seq(Recs) /\ \A i \in 1..Len(jobs) : jobs[i] \in fetched
    BY DEF TypeOK, SyncInv
  <2>2. QED
    BY <1>1, <2>1
<1>3. QED
  BY <1>1, <1>2 DEF SyncInv, StoreHoldsFetchedVersions

(* Sending the POST for the oldest job keeps the invariant: the payload  *)
(* is that job's fetch under its own key.                                *)
LEMMA DumpSync ==
    ASSUME TypeOK, SyncInv, DumpToRemoteCache
    PROVE  SyncInv'
<1>0. jobs \in Seq(Recs) /\ Len(jobs) > 0 /\ Head(jobs) = jobs[1]
  BY DEF DumpToRemoteCache, TypeOK
<1>1. Head(jobs) \in fetched
  BY <1>0 DEF SyncInv
<1>2. FromFetch(PayloadOf(Head(jobs)), fetched)
  BY <1>1 DEF PayloadOf, FromFetch
<1>3. \A i \in 1..Len(Tail(jobs)) : Tail(jobs)[i] \in fetched
  <2> SUFFICES ASSUME NEW i \in 1..Len(Tail(jobs)) PROVE Tail(jobs)[i] \in fetched
    OBVIOUS
  <2>1. Tail(jobs)[i] = jobs[i + 1] /\ i + 1 \in 1..Len(jobs)
    BY <1>0
  <2>2. QED
    BY <2>1 DEF SyncInv
<1>4. QED
  BY <1>2, <1>3 DEF DumpToRemoteCache, SyncInv, StoreHoldsFetchedVersions

(* The server's upsert of a POST that came from a fetch keeps the         *)
(* invariant.                                                             *)
LEMMA ServerSync ==
    ASSUME TypeOK, SyncInv, NEW p \in net, ServerIndex(p)
    PROVE  SyncInv'
<1>1. FromFetch(p, fetched) /\ p.key \in Keys
  BY DEF SyncInv, TypeOK, Payloads
<1>2. \A k \in Keys : server'[k] # NoEntry =>
         server'[k].key = k /\ FromFetch(server'[k], fetched')
  BY <1>1 DEF ServerIndex, SyncInv, TypeOK
<1>3. QED
  BY <1>2 DEF ServerIndex, SyncInv, StoreHoldsFetchedVersions

(* The server's answer to a site GET keeps the invariant: the list holds *)
(* what the server has.                                                  *)
LEMMA RespondSync ==
    ASSUME TypeOK, SyncInv, SiteResponds
    PROVE  SyncInv'
<1>1. PICK l \in SiteLists(KeyOf[ptarget]) : ptodo' = l
  BY DEF SiteResponds
<1>2. \A i \in 1..Len(l) : l[i] \in Wire(Stored)
  BY SiteListsFromServer DEF TypeOK
<1>3. \A x \in Wire(Stored) : FromFetch(x, fetched)
  BY StoredFromFetch, StoredFinite, WireFromFetch DEF TypeOK
<1>4. QED
  BY <1>1, <1>2, <1>3 DEF SiteResponds, SyncInv, StoreHoldsFetchedVersions

(* One turn of the seeding loop keeps the invariant: the entry it stores *)
(* came from a fetch and goes under that page's key.                     *)
LEMMA SeedSync ==
    ASSUME TypeOK, SyncInv, SeedPayload
    PROVE  SyncInv'
<1> DEFINE p == Head(ptodo)
<1>0. ptodo \in Seq(Payloads) /\ Len(ptodo) > 0 /\ p = ptodo[1]
  BY DEF SeedPayload, TypeOK
<1>1. p \in Payloads /\ FromFetch(p, fetched)
  BY <1>0 DEF SyncInv
<1>2. \A i \in 1..Len(Tail(ptodo)) : FromFetch(Tail(ptodo)[i], fetched)
  <2> SUFFICES ASSUME NEW i \in 1..Len(Tail(ptodo))
               PROVE  FromFetch(Tail(ptodo)[i], fetched)
    OBVIOUS
  <2>1. Tail(ptodo)[i] = ptodo[i + 1] /\ i + 1 \in 1..Len(ptodo)
    BY <1>0
  <2>2. QED
    BY <2>1 DEF SyncInv
<1>3. /\ \/ store' = store
         \/ store' = [store EXCEPT ![p.key] =
                        EntryOf(p.url, p.ver, p.resH, PolicyLife(p.reqH, p.resH))]
      /\ ptodo' = Tail(ptodo)
      /\ UNCHANGED <<fetched, jobs, net, server>>
  BY DEF SeedPayload
<1>4. StoreHoldsFetchedVersions'
  <2> SUFFICES ASSUME NEW k \in Keys, store'[k] # NoEntry
               PROVE  /\ KeyOf[store'[k].url] = k
                      /\ \E r2 \in fetched' : /\ r2.url = store'[k].url
                                              /\ r2.ver = store'[k].ver
                                              /\ r2.resH = store'[k].resH
    BY DEF StoreHoldsFetchedVersions
  <2>1. CASE store' = store
    BY <1>3, <2>1 DEF SyncInv, StoreHoldsFetchedVersions
  <2>2. CASE store' = [store EXCEPT ![p.key] =
                        EntryOf(p.url, p.ver, p.resH, PolicyLife(p.reqH, p.resH))]
    <3>1. CASE k = p.key
      BY <1>1, <1>3, <2>2, <3>1 DEF TypeOK, EntryOf, FromFetch
    <3>2. CASE k # p.key
      BY <1>3, <2>2, <3>2 DEF SyncInv, StoreHoldsFetchedVersions
    <3>3. QED
      BY <3>1, <3>2
  <2>3. QED
    BY <1>3, <2>1, <2>2
<1>5. QED
  BY <1>2, <1>3, <1>4 DEF SyncInv

(* A clock tick ages entries and changes nothing else the invariant is  *)
(* about.                                                                *)
LEMMA TickSync ==
    ASSUME TypeOK, SyncInv, Tick
    PROVE  SyncInv'
<1>1. \A k \in Keys : store'[k] # NoEntry =>
         /\ store[k] # NoEntry
         /\ store'[k].url = store[k].url /\ store'[k].ver = store[k].ver
         /\ store'[k].resH = store[k].resH
  BY DEF Tick, Aged, TypeOK, Entries
<1>2. QED
  BY <1>1 DEF Tick, SyncInv, StoreHoldsFetchedVersions

(* How many entries of the site list the seeding loop has visited. *)
Visited == Len(presp) - Len(ptodo)

(* The inductive invariant of the seeding loop: what is left to visit is *)
(* the rest of the list the server returned, and every entry already     *)
(* visited whose body decodes and whose url parses was stored or had its *)
(* own put fail.                                                         *)
SeedInv ==
    /\ Len(ptodo) <= Len(presp)
    /\ \A i \in 1..Len(ptodo) : ptodo[i] = presp[Visited + i]
    /\ \A i \in 1..Visited :
          presp[i].b64 /\ presp[i].url \notin BadUri =>
             presp[i] \in seeded \cup putFailed

(* Every step keeps the invariant. *)
LEMMA SyncStep == TypeOK /\ SyncInv /\ [Next]_vars => SyncInv'
<1> SUFFICES ASSUME TypeOK, SyncInv, [Next]_vars PROVE SyncInv'
  OBVIOUS
<1>1. CASE \E u \in Urls, q \in ReqHeaderSets, h \in ResHeaderSets : PutHybridCache(u, q, h)
  BY <1>1, PutSync
<1>2. CASE \E r \in fetched : EnqueueDump(r)
  BY <1>2, EnqueueSync
<1>3. CASE DumpToRemoteCache
  BY <1>3, DumpSync
<1>4. CASE \E p \in net : ServerIndex(p)
  BY <1>4, ServerSync
<1>5. CASE \E p \in net : LosePost(p)
  BY <1>5 DEF LosePost, SyncInv, StoreHoldsFetchedVersions
<1>6. CASE SiteResponds
  BY <1>6, RespondSync
<1>7. CASE SeedPayload
  BY <1>7, SeedSync
<1>8. CASE Tick
  BY <1>8, TickSync
<1>9. CASE \/ PostReturns \/ PostTimeout \/ SiteFails \/ PullDone
           \/ \E u \in Urls : GetCacheSite(u) \/ GetCachedUrl(u)
           \/ StoreRead \/ StoreGetReturns \/ ReadTimesOut
  <2>1. UNCHANGED <<store, jobs, net, server, ptodo, fetched>>
    BY <1>9 DEF PostReturns, PostTimeout, SiteFails, PullDone, GetCacheSite,
                GetCachedUrl, StoreRead, StoreGetReturns, ReadTimesOut
  <2>2. QED
    BY <2>1 DEF SyncInv, StoreHoldsFetchedVersions
<1>10. CASE UNCHANGED vars
  BY <1>10 DEF vars, SyncInv, StoreHoldsFetchedVersions
<1>11. QED
  BY <1>1, <1>2, <1>3, <1>4, <1>5, <1>6, <1>7, <1>8, <1>9, <1>10 DEF Next

(* What put_hybrid_cache and seed_payload_into_local_cache write is what *)
(* a fetch returned: for every set of pages, keys, versions and headers, *)
(* through the push, the server's upsert, the site GET and the seeding    *)
(* loop, an entry under key k is a fetched version of the page k names,   *)
(* with that fetch's response headers.                                    *)
THEOREM FetchedVersionsHeld == Spec => []StoreHoldsFetchedVersions
<1>1. Init => SyncInv
  <2> SUFFICES ASSUME Init PROVE SyncInv
    OBVIOUS
  <2>1. store = [k \in Keys |-> NoEntry] /\ server = [k \in Keys |-> NoEntry]
        /\ jobs = <<>> /\ ptodo = <<>> /\ net = {}
    BY DEF Init
  <2>2. StoreHoldsFetchedVersions
    BY <2>1 DEF StoreHoldsFetchedVersions
  <2>3. \A i \in 1..Len(jobs) : jobs[i] \in fetched
    BY <2>1
  <2>4. \A p \in net : FromFetch(p, fetched)
    BY <2>1
  <2>5. \A k \in Keys : server[k] # NoEntry =>
           server[k].key = k /\ FromFetch(server[k], fetched)
    BY <2>1
  <2>6. \A i \in 1..Len(ptodo) : FromFetch(ptodo[i], fetched)
    BY <2>1
  <2>7. QED
    BY <2>2, <2>3, <2>4, <2>5, <2>6 DEF SyncInv
<1>2. SyncInv => StoreHoldsFetchedVersions
  BY DEF SyncInv
<1>3. TypeOK /\ SyncInv /\ [Next]_vars => (TypeOK /\ SyncInv)'
  BY TypeStep, SyncStep
<1>4. Init => TypeOK /\ SyncInv
  BY <1>1, RemoteSyncAssumption DEF Init, TypeOK, ReadResults
<1>5. QED
  BY <1>2, <1>3, <1>4, PTL DEF Spec

-----------------------------------------------------------------------------
(* One turn of the seeding loop keeps the loop invariant: the entry it   *)
(* visits is the next one of the list, and it leaves it stored or failed. *)
LEMMA SeedLoopTurn ==
    ASSUME TypeOK, SeedInv, SeedPayload
    PROVE  SeedInv'
<1> DEFINE p == Head(ptodo)
<1>1. Len(ptodo) > 0 /\ p = ptodo[1]
  <2>1. ptodo # <<>> /\ ptodo \in Seq(Payloads)
    BY DEF SeedPayload, TypeOK
  <2>2. QED
    BY <2>1
<1>2. /\ presp' = presp /\ ptodo' = Tail(ptodo)
      /\ seeded \subseteq seeded' /\ putFailed \subseteq putFailed'
  BY DEF SeedPayload
<1>3. p.b64 /\ p.url \notin BadUri => p \in seeded' \cup putFailed'
  BY DEF SeedPayload
<1>4. Len(ptodo') = Len(ptodo) - 1 /\ Visited' = Visited + 1
  <2>1. ptodo \in Seq(Payloads) /\ presp \in Seq(Payloads)
    BY DEF TypeOK
  <2>2. Len(Tail(ptodo)) = Len(ptodo) - 1
    BY <1>1, <2>1
  <2>3. Len(ptodo') = Len(ptodo) - 1 /\ Len(presp') = Len(presp)
    BY <1>2, <2>2
  <2>4. QED
    BY <2>1, <2>3 DEF Visited
<1>5. \A i \in 1..Len(ptodo') : ptodo'[i] = presp'[Visited' + i]
  <2> SUFFICES ASSUME NEW i \in 1..Len(ptodo') PROVE ptodo'[i] = presp'[Visited' + i]
    OBVIOUS
  <2>1. ptodo'[i] = ptodo[i + 1] /\ i + 1 \in 1..Len(ptodo)
    BY <1>1, <1>2, <1>4 DEF TypeOK
  <2>2. ptodo[i + 1] = presp[Visited + (i + 1)]
    BY <2>1 DEF SeedInv
  <2>3. Visited \in Int
    BY DEF Visited, TypeOK
  <2>4. QED
    BY <2>1, <2>2, <2>3, <1>2, <1>4
<1>6. \A i \in 1..Visited' :
         presp'[i].b64 /\ presp'[i].url \notin BadUri =>
            presp'[i] \in seeded' \cup putFailed'
  <2> SUFFICES ASSUME NEW i \in 1..Visited'
               PROVE  presp[i].b64 /\ presp[i].url \notin BadUri =>
                         presp[i] \in seeded' \cup putFailed'
    BY <1>2
  <2>1. CASE i <= Visited
    <3>1. i \in 1..Visited
      BY <2>1, <1>4 DEF Visited, TypeOK
    <3>2. QED
      BY <3>1, <1>2 DEF SeedInv
  <2>2. CASE i = Visited + 1
    <3>0. 1 \in 1..Len(ptodo)
      BY <1>1 DEF TypeOK
    <3>1. ptodo[1] = presp[Visited + 1]
      BY <3>0 DEF SeedInv
    <3>2. presp[i] = p
      BY <1>1, <2>2, <3>1
    <3>3. QED
      BY <3>2, <1>3
  <2>3. i <= Visited \/ i = Visited + 1
    <3>1. Visited \in Int /\ i \in 1..(Visited + 1)
      BY <1>4 DEF Visited, TypeOK
    <3>2. QED
      BY <3>1
  <2>4. QED
    BY <2>1, <2>2, <2>3, Zenon
<1>7. Len(ptodo') <= Len(presp')
  BY <1>4, <1>2 DEF SeedInv, TypeOK
<1>8. QED
  BY <1>5, <1>6, <1>7 DEF SeedInv

(* Every step keeps the loop invariant: only the site answer and the loop *)
(* touch the list, the cursor and the outcome sets.                      *)
LEMMA SeedInvStep == TypeOK /\ TypeOK' /\ SeedInv /\ [Next]_vars => SeedInv'
<1> SUFFICES ASSUME TypeOK, TypeOK', SeedInv, [Next]_vars PROVE SeedInv'
  OBVIOUS
<1>1. CASE SiteResponds
  <2>1. presp' = ptodo' /\ seeded' = {} /\ putFailed' = {}
    BY <1>1 DEF SiteResponds
  <2>2. Visited' = 0
    BY <2>1 DEF Visited, TypeOK
  <2>3. QED
    BY <2>1, <2>2 DEF SeedInv, TypeOK
<1>2. CASE SeedPayload
  BY <1>2, SeedLoopTurn
<1>3. CASE UNCHANGED <<presp, ptodo, seeded, putFailed>>
  BY <1>3 DEF SeedInv, Visited
<1>4. QED
  BY <1>1, <1>2, <1>3
     DEF Next, vars, PutHybridCache, EnqueueDump, DumpToRemoteCache, PostReturns,
         PostTimeout, ServerIndex, LosePost, GetCacheSite, GetCachedUrl,
         SiteFails, PullDone, StoreRead, StoreGetReturns, ReadTimesOut, Tick

(* The loop invariant holds in every state. *)
LEMMA SeedInvHolds == Spec => [](TypeOK /\ SeedInv)
<1>1. Init => TypeOK /\ SeedInv
  BY RemoteSyncAssumption DEF Init, TypeOK, ReadResults, SeedInv, Visited
<1>2. TypeOK /\ SeedInv /\ [Next]_vars => (TypeOK /\ SeedInv)'
  BY TypeStep, SeedInvStep
<1>3. QED
  BY <1>1, <1>2, PTL DEF Spec

(* get_cache_site isolates per-entry failures: for every site list the  *)
(* server may return, when its seeding loop ends every entry whose body *)
(* decodes and whose url parses was written to the store or had its own *)
(* put fail; no failure ends the loop early.                            *)
THEOREM SeedIsolationHolds == Spec => SeedIsolation
<1>1. ASSUME TypeOK, SeedInv, [Next]_vars, ppc = "seed", ppc' = "idle"
      PROVE  \A i \in DOMAIN presp :
                presp[i].b64 /\ presp[i].url \notin BadUri =>
                   presp[i] \in seeded \cup putFailed
  <2>1. PullDone
    BY <1>1 DEF Next, vars, PutHybridCache, EnqueueDump, DumpToRemoteCache,
                PostReturns, PostTimeout, ServerIndex, LosePost, GetCacheSite,
                GetCachedUrl, SiteFails, SiteResponds, SeedPayload,
                StoreRead, StoreGetReturns, ReadTimesOut, Tick
  <2>2. ptodo = <<>> /\ Visited = Len(presp) /\ DOMAIN presp = 1..Len(presp)
    BY <2>1, <1>1 DEF PullDone, Visited, TypeOK
  <2>3. QED
    BY <2>2, <1>1 DEF SeedInv
<1>2. TypeOK /\ SeedInv /\ [Next]_vars =>
         [ppc = "seed" /\ ppc' = "idle" =>
            \A i \in DOMAIN presp :
               presp[i].b64 /\ presp[i].url \notin BadUri =>
                  presp[i] \in seeded \cup putFailed]_vars
  BY <1>1
<1>3. QED
  BY <1>2, SeedInvHolds, PTL DEF Spec, SeedIsolation
=============================================================================
