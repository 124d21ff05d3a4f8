------------------------- MODULE NetworkDispatcher -------------------------
(***************************************************************************)
(* The dispatchers of network events, one per target                       *)
(* (core/sdk/NetworkManager.ts).  A load has an id and goes through legs,  *)
(* one more with every redirect, each with a request of its own.  What the *)
(* network stack saw of a leg comes in events of their own, before or      *)
(* after those of the leg ("extra info"); a builder per id pairs both.     *)
(* The request of a navigation is adopted by the dispatcher of another     *)
(* target when the page is committed there.                                *)
(***************************************************************************)
EXTENDS Integers, Sequences

CONSTANTS Dispatchers, NoDispatcher,
          first,     \* the dispatcher that is told of new requests
          Ids,       \* of loads
          Main,      \* the navigations, with a loaderId equal to the requestId
          MaxLegs    \* bound: on the legs of a load
Legs == Ids \X (1..MaxLegs)

DispatchersAssumption ==
  /\ first \in Dispatchers /\ NoDispatcher \notin Dispatchers
  /\ Main \subseteq Ids /\ MaxLegs \in Nat \ {0}

VARIABLES
  requests,    \* requests[l]: the NetworkRequest of a leg
  requestsById,   \* [d][id]: the leg known under id, or 0
  builders,    \* requestIdToExtraInfoBuilder [d][id], or NoBuilder
  inflight,    \* inflightMainResourceRequests[id]: a leg, or 0
  removed,     \* the dispatchers whose target is gone
  home,        \* home[id]: the dispatcher the back end tells of a load
  sent,        \* sent[id]: the number of legs
  requestInfos, responseInfos,   \* [id]: the legs the network stack told of
  done         \* the loads that finished or failed

vars == <<requests, requestsById, builders, inflight, removed, home, sent, requestInfos,
          responseInfos, done>>
backEnd == <<home, sent, requestInfos, responseInfos, done>>

NoRequest == [manager |-> NoDispatcher]
NoBuilder == [finished |-> FALSE, requests |-> <<>>, requestInfo |-> <<>>, responseInfo |-> <<>>,
              bundle |-> FALSE]
Taken == 0      \* the place of an info that was added to its request

Init ==
  /\ requests = [l \in Legs |-> NoRequest]
  /\ requestsById = [d \in Dispatchers |-> [id \in Ids |-> 0]]
  /\ builders = [d \in Dispatchers |-> [id \in Ids |-> NoBuilder]]
  /\ inflight = [id \in Ids |-> 0]
  /\ removed = {}
  /\ home = [id \in Ids |-> first]
  /\ sent = [id \in Ids |-> 0]
  /\ requestInfos = [id \in Ids |-> <<>>] /\ responseInfos = [id \in Ids |-> <<>>]
  /\ done = {}

Exists(l) == requests[l].manager # NoDispatcher
listens(id) == home[id] \notin removed

----------------------------------------------------------------------------
(* ExtraInfoBuilder: what waits in a place of the sequence s, if any.      *)
At(s, k) == IF k \in 1..Len(s) THEN s[k] ELSE Taken
take(s, k) == IF k \in 1..Len(s) THEN [s EXCEPT ![k] = Taken] ELSE s

(* A request with the infos that wait for it in place k; the mutant takes  *)
(* the latest.                                                             *)
WithInfosLast(r, b, k) ==
  LET q == At(b.requestInfo, Len(b.requestInfo)) p == At(b.responseInfo, Len(b.responseInfo)) IN
  [r EXCEPT !.requestInfo = IF q = Taken THEN @ ELSE q,
            !.requestHeaders = IF q = Taken THEN @ ELSE "raw",
            !.responseInfo = IF p = Taken THEN @ ELSE p,
            !.responseHeaders = IF p = Taken THEN @ ELSE "raw"]
WithInfos(r, b, k) ==
  LET q == At(b.requestInfo, k) p == At(b.responseInfo, k) IN
  [r EXCEPT !.requestInfo = IF q = Taken THEN @ ELSE q,
            !.requestHeaders = IF q = Taken THEN @ ELSE "raw",
            !.responseInfo = IF p = Taken THEN @ ELSE p,
            !.responseHeaders = IF p = Taken THEN @ ELSE "raw"]

(* Is there a request in place k.                                          *)
There(b, k) == k \in 1..Len(b.requests)

(* sync(k), for a builder b of the load id in dispatcher d.                *)
sync(d, id, b, k, rs) ==
  LET there == There(b, k) IN
  /\ builders' = [builders EXCEPT ![d][id] =
       IF there THEN [b EXCEPT !.requestInfo = take(@, k), !.responseInfo = take(@, k)] ELSE b]
  /\ requests' = IF there THEN [rs EXCEPT ![<<id, b.requests[k]>>] = WithInfos(@, b, k)] ELSE rs

(* Is there a final request.                                               *)
hasFinal(b) == b.finished /\ b.requests # <<>>

(* setWebBundleInfo, which gives the bundle to the final request.          *)
updateFinal(d, id, b, rs) ==
  /\ builders' = [builders EXCEPT ![d][id] = b]
  /\ requests' = IF hasFinal(b)
       THEN [rs EXCEPT ![<<id, b.requests[Len(b.requests)]>>].bundle = b.bundle] ELSE rs

----------------------------------------------------------------------------
(* A response is applied to request r: raw headers stay, unless somebody   *)
(* answered in the place of the back end.                                  *)
Responded(r) ==
  [r EXCEPT !.responseHeaders = IF r.responseInfo # 0 /\ ~r.intercepted THEN @ ELSE "plain"]

(* The number of redirects that led to leg l: the length of the chain of   *)
(* redirectSources to a leg that has none.                                 *)
redirectSource(l, k) == requests[<<l[1], k>>].source
redirectCount(l) ==
  CHOOSE n \in 0..MaxLegs - 1 : \E chain \in [0..n -> 1..MaxLegs] :
    /\ chain[0] = l[2]
    /\ \A i \in 0..n - 1 : chain[i + 1] = redirectSource(l, chain[i])
    /\ redirectSource(l, chain[n]) = 0

(* What the request of a leg is called after a redirect: the n of          *)
(* "id:redirected.n", or -1 for the id itself.                             *)
markedAs(l) == redirectCount(l)

newRequest(d, source) ==
  [manager |-> d, source |-> source, suffix |-> -1, finished |-> FALSE, bundle |-> FALSE,
   intercepted |-> FALSE, requestInfo |-> 0, responseInfo |-> 0, requestHeaders |-> "plain",
   responseHeaders |-> "none"]

(* requestWillBeSent for the next leg; the redirect, if it is one, with    *)
(* its response, and startNetworkRequest.                                  *)
requestWillBeSent(id) ==
  LET d == home[id]
      k == sent[id] + 1
      old == requestsById[d][id]
      b == builders[d][id]
      redirected == IF old = 0 THEN requests
        ELSE [requests EXCEPT ![<<id, old>>] =
                [Responded(@) EXCEPT !.suffix = markedAs(<<id, old>>), !.finished = TRUE]]
  IN
  /\ id \notin done /\ k <= MaxLegs /\ d = first /\ listens(id)
  /\ sent' = [sent EXCEPT ![id] = k]
  /\ requestsById' = [requestsById EXCEPT ![d][id] = k]
  /\ inflight' = IF id \in Main THEN [inflight EXCEPT ![id] = k] ELSE inflight
  /\ sync(d, id, [b EXCEPT !.requests = Append(@, k)], Len(b.requests) + 1,
          [redirected EXCEPT ![<<id, k>>] = newRequest(d, old)])
  /\ UNCHANGED <<removed, home, requestInfos, responseInfos, done>>

(* The network stack tells of leg k, after those in told: in the order of  *)
(* the legs, not of each, at most one leg ahead, and before a finished     *)
(* load is forgotten.                                                      *)
infoComes(id, told, k) ==
  /\ \A i \in 1..Len(told) : told[i] < k
  /\ k <= sent[id] + 1
  /\ id \in done => k <= sent[id] /\ builders[home[id]][id] # NoBuilder
  /\ listens(id)

requestWillBeSentExtraInfo(id, k) ==
  LET d == home[id] b == builders[d][id] IN
  /\ infoComes(id, requestInfos[id], k)
  /\ requestInfos' = [requestInfos EXCEPT ![id] = Append(@, k)]
  /\ sync(d, id, [b EXCEPT !.requestInfo = Append(@, k)], Len(b.requestInfo) + 1, requests)
  /\ UNCHANGED <<requestsById, inflight, removed, home, sent, responseInfos, done>>

responseReceivedExtraInfo(id, k) ==
  LET d == home[id] b == builders[d][id] IN
  /\ infoComes(id, responseInfos[id], k)
  /\ responseInfos' = [responseInfos EXCEPT ![id] = Append(@, k)]
  /\ sync(d, id, [b EXCEPT !.responseInfo = Append(@, k)], Len(b.responseInfo) + 1, requests)
  /\ UNCHANGED <<requestsById, inflight, removed, home, sent, requestInfos, done>>

(* An interceptor has answered the load id: the requests that are known by *)
(* the id are marked, in every dispatcher.                                 *)
markAsIntercepted(id) ==
  LET K == {requestsById[d][id] : d \in Dispatchers} \ {0} IN
  /\ \E k \in K : ~requests[<<id, k>>].intercepted
  /\ requests' = [l \in Legs |-> IF l[1] = id /\ l[2] \in K
                    THEN [requests[l] EXCEPT !.intercepted = TRUE] ELSE requests[l]]
  /\ UNCHANGED <<requestsById, builders, inflight, removed, backEnd>>

(* responseReceived of the last leg; without a request it is dropped.      *)
responseReceived(id) ==
  LET k == requestsById[home[id]][id] IN
  /\ id \notin done /\ k # 0 /\ listens(id)
  /\ requests' = [requests EXCEPT ![<<id, k>>] = Responded(@)]
  /\ UNCHANGED <<requestsById, builders, inflight, removed, backEnd>>

(* maybeAdoptMainResourceRequest for dispatcher d: the maps, and requests. *)
adopts(d, id) == requestsById[d][id] = 0 /\ inflight[id] # 0
(* The mutant leaves the request with the old dispatcher, too.             *)
ByIdAfterKept(d, id) ==
  IF adopts(d, id) THEN [requestsById EXCEPT ![d][id] = inflight[id]] ELSE requestsById
ByIdAfter(d, id) ==
  IF adopts(d, id)
    THEN [requestsById EXCEPT ![requests[<<id, inflight[id]>>].manager][id] = 0,
                              ![d][id] = inflight[id]]
    ELSE requestsById
BuildersAfter(d, id) ==
  LET old == requests[<<id, inflight[id]>>].manager IN
  IF adopts(d, id) /\ builders[old][id] # NoBuilder
    THEN [builders EXCEPT ![d][id] = builders[old][id], ![old][id] = NoBuilder]
    ELSE builders
RequestsAfter(d, id) ==
  IF adopts(d, id) THEN [requests EXCEPT ![<<id, inflight[id]>>].manager = d] ELSE requests

dataReceived(id) ==
  /\ id \notin done /\ sent[id] > 0 /\ listens(id)
  /\ adopts(home[id], id)
  /\ requestsById' = ByIdAfter(home[id], id)
  /\ builders' = BuildersAfter(home[id], id)
  /\ requests' = RequestsAfter(home[id], id)
  /\ UNCHANGED <<inflight, removed, backEnd>>

(* What remains in flight when the load id is over.                        *)
InflightAfter(id) == [inflight EXCEPT ![id] = 0]

(* loadingFinished, which adopts, and loadingFailed, which does not.       *)
loadingOver(id, mayAdopt) ==
  LET d == home[id]
      byId == IF mayAdopt THEN ByIdAfter(d, id) ELSE requestsById
      bs == IF mayAdopt THEN BuildersAfter(d, id) ELSE builders
      rs == IF mayAdopt THEN RequestsAfter(d, id) ELSE requests
      k == byId[d][id]
      b == [bs[d][id] EXCEPT !.finished = TRUE]
  IN
  /\ id \notin done /\ sent[id] > 0 /\ listens(id)
  /\ \A told \in {requestInfos[id], responseInfos[id]} : \A i \in 1..Len(told) : told[i] <= sent[id]
  /\ done' = done \cup {id}
  /\ requestsById' = byId
  /\ IF k = 0
       THEN /\ builders' = bs /\ requests' = rs
            /\ UNCHANGED inflight
       ELSE /\ builders' = [bs EXCEPT ![d][id] = b]
            /\ requests' = [rs EXCEPT ![<<id, k>>].finished = TRUE,
                 ![<<id, b.requests[Len(b.requests)]>>].bundle = b.bundle]
            /\ inflight' = InflightAfter(id)
  /\ UNCHANGED <<removed, home, sent, requestInfos, responseInfos>>

(* subresourceWebBundleMetadataReceived and its siblings.                  *)
webBundle(id) ==
  LET d == home[id] b == builders[d][id] IN
  /\ b # NoBuilder /\ ~b.bundle /\ sent[id] > 0 /\ listens(id)
  /\ updateFinal(d, id, [b EXCEPT !.bundle = TRUE], requests)
  /\ UNCHANGED <<requestsById, inflight, removed, backEnd>>

(* Which requests clearRequests forgets.                                   *)
Cleared(l) == requests[l].finished
clearRequests(d) ==
  /\ d \notin removed
  /\ requestsById' = [requestsById EXCEPT ![d] = [id \in Ids |->
       IF @[id] # 0 /\ Cleared(<<id, @[id]>>) THEN 0 ELSE @[id]]]
  /\ builders' = [builders EXCEPT ![d] = [id \in Ids |->
       IF @[id].finished THEN NoBuilder ELSE @[id]]]
  /\ UNCHANGED <<requests, inflight, removed, backEnd>>

(* The target of d goes away.                                              *)
modelRemoved(d) ==
  /\ d \notin removed
  /\ removed' = removed \cup {d}
  /\ inflight' = [id \in Ids |->
       IF inflight[id] # 0 /\ requests[<<id, inflight[id]>>].manager = d THEN 0 ELSE inflight[id]]
  /\ UNCHANGED <<requests, requestsById, builders, backEnd>>

(* A navigation is committed in another target, which is told from now on. *)
commit(id, d) ==
  /\ id \in Main \ done /\ home[id] = first /\ d # first /\ sent[id] > 0
  /\ home' = [home EXCEPT ![id] = d]
  /\ UNCHANGED <<requests, requestsById, builders, inflight, removed, sent, requestInfos,
                 responseInfos, done>>

Next ==
  \/ \E id \in Ids :
       \/ requestWillBeSent(id)
       \/ \E k \in 1..MaxLegs : requestWillBeSentExtraInfo(id, k) \/ responseReceivedExtraInfo(id, k)
       \/ responseReceived(id) \/ markAsIntercepted(id) \/ dataReceived(id) \/ webBundle(id)
       \/ \E mayAdopt \in BOOLEAN : loadingOver(id, mayAdopt)
       \/ \E d \in Dispatchers : commit(id, d)
  \/ \E d \in Dispatchers : clearRequests(d) \/ modelRemoved(d)

Spec == Init /\ [][Next]_vars

----------------------------------------------------------------------------
TypeOK ==
  /\ \A l \in Legs : Exists(l) => /\ requests[l].manager \in Dispatchers
                                  /\ requests[l].source \in 0..MaxLegs
                                  /\ requests[l].suffix \in -1..MaxLegs - 2
  /\ requestsById \in [Dispatchers -> [Ids -> 0..MaxLegs]]
  /\ inflight \in [Ids -> 0..MaxLegs]
  /\ removed \subseteq Dispatchers /\ done \subseteq Ids
  /\ home \in [Ids -> Dispatchers]
  /\ sent \in [Ids -> 0..MaxLegs]
  /\ {requestInfos, responseInfos} \subseteq [Ids -> Seq(1..MaxLegs)]

ToldOne(l) == home[l[1]] = first
ToldOf(told) == {told[i] : i \in 1..Len(told)}

(* What the network stack told of a leg is shown at that leg, although the *)
(* events of a load carry its id only and come in any order: if it told of *)
(* every leg so far, and all was told to one target.  In no case a leg     *)
(* shows what was told of an earlier one.                                  *)
InfosAtTheirLegs ==
  \A l \in Legs : Exists(l) /\ ToldOne(l) =>
    /\ 1..l[2] \subseteq ToldOf(requestInfos[l[1]]) => requests[l].requestInfo = l[2]
    /\ 1..l[2] \subseteq ToldOf(responseInfos[l[1]]) => requests[l].responseInfo = l[2]
    /\ requests[l].requestInfo # 0 => requests[l].requestInfo >= l[2]
    /\ requests[l].responseInfo # 0 => requests[l].responseInfo >= l[2]

(* No info is lost while one target is told of everything: whichever comes *)
(* first, a leg or its info, the info is shown once both came, by its leg  *)
(* or one before it.                                                       *)
NoInfoLost ==
  \A l \in Legs : Exists(l) /\ ToldOne(l) =>
    /\ l[2] \in ToldOf(requestInfos[l[1]]) =>
         \E k \in 1..l[2] : requests[<<l[1], k>>].requestInfo = l[2]
    /\ l[2] \in ToldOf(responseInfos[l[1]]) =>
         \E k \in 1..l[2] : requests[<<l[1], k>>].responseInfo = l[2]

(* Raw headers are never replaced by those of the request or response      *)
(* event, in whatever order the three come; except that an interceptor's   *)
(* response has other headers than the network stack saw.                  *)
RawHeadersStay ==
  \A l \in Legs : Exists(l) =>
    /\ requests[l].requestInfo # 0 => requests[l].requestHeaders = "raw"
    /\ requests[l].responseInfo # 0 /\ ~requests[l].intercepted =>
         requests[l].responseHeaders = "raw"

(* The legs of a load are called differently: only the last has its id.    *)
LegsCalledApart ==
  \A id \in Ids : \A j, k \in 1..MaxLegs :
    Exists(<<id, j>>) /\ Exists(<<id, k>>) /\ j < k =>
      /\ requests[<<id, j>>].suffix # requests[<<id, k>>].suffix
      /\ requests[<<id, j>>].finished

(* Only the last leg shows the web bundle, and only when the load is over. *)
BundleAtFinalLeg ==
  \A l \in Legs : Exists(l) /\ requests[l].bundle => l[2] = sent[l[1]] /\ l[1] \in done

(* A request is known to one dispatcher, which is its manager, through     *)
(* redirects, adoption, clearing and targets that go.                      *)
OneDispatcherKnows ==
  \A id \in Ids, d \in Dispatchers :
    requestsById[d][id] # 0 => requests[<<id, requestsById[d][id]>>].manager = d

(* A main request in flight can be adopted: it is unfinished and known to  *)
(* the manager it would be taken from; and no load is left in flight that  *)
(* is over in a target that knew it.                                       *)
InflightCanBeAdopted ==
  \A id \in Ids : inflight[id] # 0 =>
    LET r == requests[<<id, inflight[id]>>] IN
      ~r.finished /\ requestsById[r.manager][id] = inflight[id]
============================================================================
