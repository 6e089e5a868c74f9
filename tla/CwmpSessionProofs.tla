-------------------------- MODULE CwmpSessionProofs --------------------------
(***************************************************************************)
(* Proofs about CwmpSession, for every set of devices, addresses and words.*)
(***************************************************************************)
EXTENDS CwmpSession, SequenceTheorems, TLAPS

-----------------------------------------------------------------------------
(* The inductive invariant.  The properties speak of requests; they follow from
   what is known of a session before a request is resolved: whose cookie the
   device sends, and whose cache entry its address has.  A device of either kind
   never waits for the query of the live rows, which knows nothing of owners. *)

Shape ==
    /\ cookie \in [Devices -> Devices \cup {None}]
    /\ session \in [Devices -> {"closed", "open", "query", "serving"}]
    /\ cache \in [Addresses -> Devices \cup {None}]
    /\ address \in [Devices -> Addresses]
    /\ fresh \in [Devices -> BOOLEAN]
    /\ handled = [d \in Devices |-> handled[d]]

CookieIsOwn == \A d \in Devices : cookie[d] \in {None, d}

KeeperHasCookie ==
    \A d \in CookieKeepers : session[d] # "closed" => session[d] # "query" /\ cookie[d] = d

FreshIsCached ==
    \A d \in Devices : fresh[d] =>
        session[d] \in {"open", "serving"} /\ cache[address[d]] = d

SessionInv == Shape /\ CookieIsOwn /\ KeeperHasCookie /\ FreshIsCached

LEMMA SessionInit == Init => SessionInv
<1>. SUFFICES ASSUME Init PROVE SessionInv
  OBVIOUS
<1>2. cache \in [Addresses -> Devices \cup {None}]
  BY DEF Init
<1>3. handled = [d \in Devices |-> NoRequest]
  BY DEF Init
<1>4. handled = [d \in Devices |-> handled[d]]
  BY <1>3, Zenon
<1>5. /\ cookie \in [Devices -> Devices \cup {None}]
      /\ session \in [Devices -> {"closed", "open", "query", "serving"}]
      /\ address \in [Devices -> Addresses]
      /\ fresh \in [Devices -> BOOLEAN]
  BY DEF Init
<1>6. Shape
  BY <1>2, <1>4, <1>5 DEF Shape
<1>7. CookieIsOwn /\ KeeperHasCookie /\ FreshIsCached
  BY SessionAssumption DEF Init, CookieIsOwn, KeeperHasCookie, FreshIsCached
<1>. QED
  BY <1>6, <1>7 DEF SessionInv

\* What a request of a device known by its cookie or its address is resolved to.
LEMMA LookupIsOwn ==
  ASSUME SessionInv, NEW d \in Devices, fresh[d] \/ (d \in CookieKeepers /\ session[d] # "closed")
  PROVE  Lookup(d) = d
<1>. USE SessionAssumption DEF SessionInv, Shape
<1>1. CASE fresh[d]
  <2>1. cache[address[d]] = d
    BY <1>1, Zenon DEF FreshIsCached
  <2>2. cookie[d] \in {None, d}
    BY DEF CookieIsOwn
  <2>. QED
    BY <2>1, <2>2, Zenon DEF Lookup
<1>2. CASE d \in CookieKeepers /\ session[d] # "closed"
  BY <1>2 DEF KeeperHasCookie, Lookup
<1>. QED
  BY <1>1, <1>2

LEMMA InformKeeps ==
  ASSUME SessionInv, NEW d \in Devices, NEW delivered \in BOOLEAN, Inform(d, delivered)
  PROVE  SessionInv'
<1>. USE SessionAssumption DEF SessionInv, Inform, CacheInsert
<1>1. Shape'
  BY DEF Shape
<1>2. CookieIsOwn'
  BY DEF Shape, CookieIsOwn
<1>3. KeeperHasCookie'
  BY DEF Shape, KeeperHasCookie
<1>4. FreshIsCached'
  BY DEF Shape, FreshIsCached
<1>. QED
  BY <1>1, <1>2, <1>3, <1>4

LEMMA PostKeeps ==
  ASSUME SessionInv, NEW d \in Devices, NEW b \in Bodies, Post(d, b)
  PROVE  SessionInv'
<1>. USE SessionAssumption DEF SessionInv, Post
<1>1. Shape'
  BY DEF Shape
<1>2. CookieIsOwn'
  BY DEF CookieIsOwn
<1>3. (fresh[d] \/ d \in CookieKeepers) => session'[d] = "serving"
  BY LookupIsOwn DEF Shape
<1>4. KeeperHasCookie'
  BY <1>3 DEF Shape, KeeperHasCookie
<1>5. FreshIsCached'
  BY <1>3 DEF Shape, FreshIsCached
<1>. QED
  BY <1>1, <1>2, <1>4, <1>5

\* A session that is not closed goes on to a stage that is no query.
LEMMA StageKeeps ==
  ASSUME SessionInv, NEW d \in Devices, NEW s \in {"open", "serving"},
         session[d] # "closed", session' = [session EXCEPT ![d] = s],
         UNCHANGED <<address, cookie, cache, fresh>>,
         handled' = [e \in Devices |-> handled'[e]]
  PROVE  SessionInv'
<1>. USE DEF SessionInv
<1>1. Shape'
  BY DEF Shape
<1>2. \A e \in Devices : session[e] \in {"open", "serving"} => session'[e] \in {"open", "serving"}
  BY DEF Shape
<1>3. \A e \in Devices : session'[e] # "closed" => session[e] # "closed"
  BY DEF Shape
<1>4. \A e \in Devices : session'[e] = "query" => session[e] = "query"
  BY DEF Shape
<1>5. CookieIsOwn' /\ KeeperHasCookie'
  BY <1>3, <1>4, SessionAssumption DEF CookieIsOwn, KeeperHasCookie
<1>6. FreshIsCached'
  BY <1>2 DEF FreshIsCached
<1>. QED
  BY <1>1, <1>5, <1>6

LEMMA QueryKeeps ==
  ASSUME SessionInv, NEW d \in Devices, NEW answered \in BOOLEAN, Query(d, answered)
  PROVE  SessionInv'
<1>. USE DEF SessionInv, Query
<1>1. session' = [session EXCEPT ![d] = "serving"]
  OBVIOUS
<1>2. UNCHANGED <<address, cookie, cache, fresh>>
  OBVIOUS
<1>3. handled' = [e \in Devices |-> handled'[e]]
  BY DEF Shape
<1>4. session[d] = "query"
  OBVIOUS
<1>. HIDE DEF Query
<1>. QED
  BY <1>1, <1>2, <1>3, <1>4, StageKeeps

\* The reply ends the request and leaves the session open.
LEMMA ReplyKeeps ==
  ASSUME SessionInv, NEW d \in Devices, Reply(d)
  PROVE  SessionInv'
<1>1. session' = [session EXCEPT ![d] = "open"] /\ session[d] = "serving"
  BY DEF Reply
<1>2. UNCHANGED <<address, cookie, cache, fresh>>
  BY DEF Reply
<1>3. handled' = [e \in Devices |-> handled'[e]]
  BY DEF SessionInv, Shape, Reply
<1>. QED
  BY <1>1, <1>2, <1>3, StageKeeps

LEMMA CloseKeeps ==
  ASSUME SessionInv, NEW d \in Devices, NEW restarts \in BOOLEAN, Close(d, restarts)
  PROVE  SessionInv'
<1>. USE SessionAssumption DEF SessionInv, Close
<1>1. Shape'
  BY DEF Shape
<1>2. CookieIsOwn'
  BY DEF Shape, CookieIsOwn
<1>3. KeeperHasCookie'
  BY DEF Shape, KeeperHasCookie
<1>4. FreshIsCached'
  BY DEF Shape, FreshIsCached
<1>. QED
  BY <1>1, <1>2, <1>3, <1>4

LEMMA MoveKeeps ==
  ASSUME SessionInv, NEW d \in Devices, NEW a \in Addresses, Move(d, a)
  PROVE  SessionInv'
BY DEF SessionInv, Move, Shape, CookieIsOwn, KeeperHasCookie, FreshIsCached

LEMMA ExpireKeeps ==
  ASSUME SessionInv, NEW a \in Addresses, Expire(a)
  PROVE  SessionInv'
BY DEF SessionInv, Expire, Shape, CookieIsOwn, KeeperHasCookie, FreshIsCached

LEMMA RestartKeeps == ASSUME SessionInv, Restart PROVE SessionInv'
<1>. USE SessionAssumption DEF SessionInv, Restart
<1>1. Shape'
  BY DEF Shape, NoRequest
<1>. QED
  BY <1>1 DEF Shape, CookieIsOwn, KeeperHasCookie, FreshIsCached

\* The remaining steps write the live rows only.
LEMMA RowsKeep ==
  ASSUME SessionInv, UNCHANGED <<address, cookie, cache, session, handled, fresh>>
  PROVE  SessionInv'
BY DEF SessionInv, Shape, CookieIsOwn, KeeperHasCookie, FreshIsCached

LEMMA SessionNext == SessionInv /\ [Next]_vars => SessionInv'
<1>. SUFFICES ASSUME SessionInv, [Next]_vars PROVE SessionInv'
  OBVIOUS
<1>1. CASE \E d \in Devices, delivered \in BOOLEAN : Inform(d, delivered)
  BY <1>1, InformKeeps
<1>2. CASE \E d \in Devices, b \in Bodies : Post(d, b)
  BY <1>2, PostKeeps
<1>3. CASE \E d \in Devices, answered \in BOOLEAN : Query(d, answered)
  BY <1>3, QueryKeeps
<1>4. CASE \E d \in Devices, restarts \in BOOLEAN : Close(d, restarts)
  BY <1>4, CloseKeeps
<1>5. CASE \E d \in Devices, a \in Addresses : Move(d, a)
  BY <1>5, MoveKeeps
<1>6. CASE \E d \in Devices, a \in Addresses : MqttReport(d, a)
  BY <1>6, RowsKeep DEF MqttReport
<1>7. CASE \E d \in Devices : DeleteCpe(d)
  BY <1>7, RowsKeep DEF DeleteCpe
<1>8. CASE \E a \in Addresses : Expire(a)
  BY <1>8, ExpireKeeps
<1>9. CASE Restart
  BY <1>9, RestartKeeps
<1>10. CASE UNCHANGED vars
  BY <1>10, RowsKeep DEF vars
<1>11. CASE \E d \in Devices : Reply(d)
  BY <1>11, ReplyKeeps
<1>. QED
  BY <1>1, <1>2, <1>3, <1>4, <1>5, <1>6, <1>7, <1>8, <1>9, <1>10, <1>11 DEF Next

-----------------------------------------------------------------------------
(* The theorems *)

\* A request changes the entry of the device that sent it and no other, and a
\* device known by its cookie or its address is taken for itself.
LEMMA StepHandlesOwn ==
  ASSUME SessionInv, [Next]_vars, NEW d \in Devices, fresh[d] \/ d \in CookieKeepers
  PROVE  handled'[d].cpe \in {handled[d].cpe, None, d}
<1>1. CASE \E e \in Devices, b \in Bodies : Post(e, b)
  <2>1. PICK e \in Devices, b \in Bodies : Post(e, b)
    BY <1>1
  <2>2. CASE e # d
    BY <2>1, <2>2 DEF Post, SessionInv, Shape
  <2>3. CASE e = d
    <3>1. Lookup(d) = d
      BY <2>1, <2>3, LookupIsOwn DEF Post
    <3>. QED
      BY <2>1, <2>3, <3>1 DEF Post, SessionInv, Shape
  <2>. QED
    BY <2>2, <2>3
<1>2. CASE \E e \in Devices, answered \in BOOLEAN : Query(e, answered)
  <2>1. PICK e \in Devices, answered \in BOOLEAN : Query(e, answered)
    BY <1>2
  <2>2. e # d
    BY <2>1 DEF Query, SessionInv, KeeperHasCookie, FreshIsCached
  <2>. QED
    BY <2>1, <2>2 DEF Query, SessionInv, Shape
<1>3. CASE \E e \in Devices, restarts \in BOOLEAN : Close(e, restarts)
  BY <1>3 DEF Close, SessionInv, Shape, NoRequest
<1>6. CASE \E e \in Devices : Reply(e)
  BY <1>6 DEF Reply, SessionInv, Shape, NoRequest
<1>4. CASE Restart
  BY <1>4 DEF Restart, NoRequest
<1>5. CASE handled' = handled
  BY <1>5
<1>. QED
  BY <1>1, <1>2, <1>3, <1>4, <1>5, <1>6
     DEF Next, vars, Inform, Move, MqttReport, DeleteCpe, Expire

\* The invariant holds in every reachable state.
LEMMA SessionInvariant == Spec => []SessionInv
BY SessionInit, SessionNext, PTL DEF Spec

\* A device that keeps cookies is never taken for another one by resolve_cpe_id:
\* shared, inherited or wrongly reported addresses do not reach its requests.
THEOREM CookieSessions == Spec => []CookieSessionIsOwn
<1>1. Init => CookieSessionIsOwn
  BY SessionAssumption DEF Init, CookieSessionIsOwn, NoRequest
<1>2. SessionInv /\ CookieSessionIsOwn /\ [Next]_vars => CookieSessionIsOwn'
  BY StepHandlesOwn, SessionAssumption DEF CookieSessionIsOwn
<1>. QED
  BY <1>1, <1>2, SessionInvariant, PTL DEF Spec

\* While its Inform is the last one from its address and its cache entry is young,
\* a request of a device without cookies is taken for that device or for nobody.
THEOREM FreshSessions == Spec => FreshSessionIsOwn
<1>1. SessionInv /\ [Next]_vars =>
         [\A d \in Devices : fresh[d] => handled'[d].cpe \in {handled[d].cpe, None, d}]_vars
  BY StepHandlesOwn
<1>. QED
  BY <1>1, SessionInvariant, PTL DEF Spec, FreshSessionIsOwn

-----------------------------------------------------------------------------
(* Types.  The live rows are the devices with an address in them, each of them
   once, in the order of their last_seen. *)

LiveRows(s, address_of) ==
    /\ s \in Seq(Devices) /\ IsInjective(s)
    /\ ToSet(s) = {d \in Devices : address_of[d] # None}

LEMMA WithoutRow ==
  ASSUME seen \in Seq(Devices), IsInjective(seen), NEW d
  PROVE  /\ Without(d) \in Seq(Devices) /\ IsInjective(Without(d))
         /\ ToSet(Without(d)) = ToSet(seen) \ {d}
<1>. DEFINE at == {k \in DOMAIN seen : seen[k] = d}
            n == Len(seen)
<1>1. n \in Nat /\ DOMAIN seen = 1 .. n /\ \A i \in 1 .. n : seen[i] \in Devices
  BY LenProperties
<1>2. CASE at = {}
  BY <1>2 DEF Without, ToSet
<1>3. CASE at # {}
  <2>. DEFINE k == CHOOSE i \in at : TRUE
              w == Without(d)
  <2>1. k \in 1 .. n /\ seen[k] = d
    BY <1>1, <1>3
  <2>2. w = SubSeq(seen, 1, k - 1) \o SubSeq(seen, k + 1, n)
    BY <1>3 DEF Without, RemoveAt
  <2>. HIDE DEF k, w
  <2>3. /\ w \in Seq(Devices) /\ Len(w) = n - 1
        /\ \A i \in 1 .. n - 1 : w[i] = IF i < k THEN seen[i] ELSE seen[i + 1]
    <3>. DEFINE a == SubSeq(seen, 1, k - 1)
                z == SubSeq(seen, k + 1, n)
    <3>1. w = a \o z /\ k \in Int /\ n \in Int
      BY <1>1, <2>1, <2>2
    <3>2. /\ a \in Seq(Devices) /\ Len(a) = k - 1
          /\ \A i \in 1 .. k - 1 : a[i] = seen[i]
      <4>1. \A i \in 1 .. k - 1 : seen[i] \in Devices
        BY <1>1, <2>1
      <4>. QED
        BY <1>1, <2>1, <3>1, <4>1, SubSeqProperties
    <3>3. /\ z \in Seq(Devices) /\ Len(z) = n - k
          /\ \A i \in 1 .. n - k : z[i] = seen[k + i]
      <4>1. \A i \in k + 1 .. n : seen[i] \in Devices
        BY <1>1, <2>1
      <4>2. /\ z \in Seq(Devices) /\ Len(z) = IF k + 1 <= n THEN n - (k + 1) + 1 ELSE 0
            /\ \A i \in 1 .. n - (k + 1) + 1 : z[i] = seen[(k + 1) + i - 1]
        BY <3>1, <4>1, SubSeqProperties
      <4>. HIDE DEF z
      <4>3. Len(z) = n - k
        <5>1. n \in Int /\ k \in Int /\ k <= n
          BY <1>1, <2>1
        <5>2. Len(z) = IF k + 1 <= n THEN n - (k + 1) + 1 ELSE 0
          BY <4>2
        <5>. HIDE DEF n
        <5>3. CASE k + 1 <= n
          BY <5>1, <5>2, <5>3
        <5>4. CASE ~ (k + 1 <= n)
          BY <5>1, <5>2, <5>4
        <5>. QED
          BY <5>3, <5>4
      <4>4. ASSUME NEW i \in 1 .. n - k PROVE z[i] = seen[k + i]
        <5>1. i \in 1 .. n - (k + 1) + 1 /\ (k + 1) + i - 1 = k + i
          BY <1>1, <2>1
        <5>. QED
          BY <4>2, <5>1
      <4>. QED
        BY <4>2, <4>3, <4>4
    <3>. HIDE DEF a, z
    <3>4. /\ w \in Seq(Devices) /\ Len(w) = Len(a) + Len(z)
          /\ \A i \in 1 .. Len(a) + Len(z) : w[i] = IF i <= Len(a) THEN a[i] ELSE z[i - Len(a)]
      BY <3>1, <3>2, <3>3, ConcatProperties
    <3>5. ASSUME NEW i \in 1 .. n - 1 PROVE w[i] = IF i < k THEN seen[i] ELSE seen[i + 1]
      <4>1. w[i] = IF i <= k - 1 THEN a[i] ELSE z[i - (k - 1)]
        BY <1>1, <3>1, <3>2, <3>3, <3>4
      <4>2. CASE i < k
        BY <1>1, <2>1, <3>2, <4>1, <4>2
      <4>3. CASE ~ (i < k)
        <5>1. i - (k - 1) \in 1 .. n - k /\ k + (i - (k - 1)) = i + 1 /\ ~ (i <= k - 1)
          BY <1>1, <2>1, <4>3
        <5>. QED
          BY <3>3, <4>1, <4>3, <5>1
      <4>. QED
        BY <4>2, <4>3
    <3>. QED
      BY <1>1, <2>1, <3>2, <3>3, <3>4, <3>5
  <2>4. DOMAIN w = 1 .. n - 1
    BY <2>3, LenProperties
  <2>5. \A i, j \in 1 .. n : seen[i] = seen[j] => i = j
    BY <1>1 DEF IsInjective
  <2>6. IsInjective(w)
    BY <1>1, <2>1, <2>3, <2>4, <2>5 DEF IsInjective
  <2>7. \A i \in 1 .. n - 1 : w[i] \in ToSet(seen) \ {d}
    BY <1>1, <2>1, <2>3, <2>5 DEF ToSet
  <2>8. ASSUME NEW i \in 1 .. n, seen[i] # d PROVE \E j \in 1 .. n - 1 : w[j] = seen[i]
    <3>1. CASE i < k
      BY <1>1, <2>1, <2>3, <3>1
    <3>2. CASE i > k
      <4>1. i - 1 \in 1 .. n - 1 /\ ~ (i - 1 < k) /\ (i - 1) + 1 = i
        BY <1>1, <2>1, <3>2
      <4>. QED
        BY <2>3, <4>1
    <3>. QED
      BY <1>1, <2>1, <2>8, <3>1, <3>2
  <2>9. ToSet(w) = ToSet(seen) \ {d}
    <3>1. ToSet(w) = {w[i] : i \in 1 .. n - 1} /\ ToSet(seen) = {seen[i] : i \in 1 .. n}
      BY <1>1, <2>4 DEF ToSet
    <3>2. ASSUME NEW e \in ToSet(seen) \ {d} PROVE e \in ToSet(w)
      BY <2>8, <3>1, <3>2
    <3>. QED
      BY <2>7, <3>1, <3>2
  <2>. QED
    BY <2>3, <2>6, <2>9 DEF w
<1>. QED
  BY <1>2, <1>3

LEMMA StoredRow ==
  ASSUME LiveRows(seen, ip), ip \in [Devices -> Addresses \cup {None}],
         NEW d \in Devices, NEW a \in Addresses, Stored(d, a)
  PROVE  LiveRows(seen, ip)' /\ ip' \in [Devices -> Addresses \cup {None}]
<1>. DEFINE w == Without(d)
<1>1. w \in Seq(Devices) /\ IsInjective(w) /\ ToSet(w) = ToSet(seen) \ {d}
  BY WithoutRow DEF LiveRows
<1>2. seen' = Append(w, d) /\ ip' = [ip EXCEPT ![d] = a] /\ a # None
  BY SessionAssumption DEF Stored
<1>. HIDE DEF w
<1>3. /\ seen' \in Seq(Devices) /\ Len(w) \in Nat /\ DOMAIN w = 1 .. Len(w)
      /\ DOMAIN seen' = 1 .. Len(w) + 1
      /\ \A i \in 1 .. Len(w) : seen'[i] = w[i]
      /\ seen'[Len(w) + 1] = d
  BY <1>1, <1>2, AppendProperties, LenProperties
<1>4. \A i \in 1 .. Len(w) : w[i] # d
  BY <1>1, <1>3 DEF ToSet
<1>5. IsInjective(seen')
  BY <1>1, <1>3, <1>4 DEF IsInjective
<1>6. ToSet(seen') = ToSet(w) \cup {d}
  <2>1. \A x \in ToSet(seen') : x \in ToSet(w) \cup {d}
    BY <1>3 DEF ToSet
  <2>2. \A x \in ToSet(w) : x \in ToSet(seen')
    BY <1>3 DEF ToSet
  <2>3. d \in ToSet(seen')
    <3>1. Len(w) + 1 \in DOMAIN seen'
      BY <1>3
    <3>. QED
      BY <1>3, <3>1 DEF ToSet
  <2>. QED
    BY <2>1, <2>2, <2>3
<1>7. ToSet(seen') = {e \in Devices : ip'[e] # None}
  BY <1>1, <1>2, <1>6 DEF LiveRows
<1>. QED
  BY <1>2, <1>3, <1>5, <1>7 DEF LiveRows

LEMMA DeletedRow ==
  ASSUME LiveRows(seen, ip), ip \in [Devices -> Addresses \cup {None}],
         NEW d \in Devices, DeleteCpe(d)
  PROVE  LiveRows(seen, ip)' /\ ip' \in [Devices -> Addresses \cup {None}]
<1>1. /\ seen' \in Seq(Devices) /\ IsInjective(seen')
      /\ ToSet(seen') = ToSet(seen) \ {d}
  BY WithoutRow DEF LiveRows, DeleteCpe
<1>2. ip' = [ip EXCEPT ![d] = None]
  BY DEF DeleteCpe
<1>. QED
  BY <1>1, <1>2 DEF LiveRows

\* What a handler knows of a request.
Requests == [kind : Kinds, cpe : Devices \cup {None}, effect : Effects]

LEMMA TypeByRows ==
  TypeOK <=> /\ LiveRows(seen, ip)
             /\ ip \in [Devices -> Addresses \cup {None}]
             /\ address \in [Devices -> Addresses]
             /\ cookie \in [Devices -> Devices \cup {None}]
             /\ cache \in [Addresses -> Devices \cup {None}]
             /\ session \in [Devices -> {"closed", "open", "query", "serving"}]
             /\ handled \in [Devices -> Requests]
             /\ fresh \in [Devices -> BOOLEAN]
BY DEF TypeOK, LiveRows, Requests

LEMMA NoRequestType == NoRequest \in Requests
BY DEF NoRequest, Requests, Kinds, Effects

LEMMA SessionTypeStep ==
  ASSUME TypeOK, [Next]_vars
  PROVE  TypeOK'
<1>. /\ LiveRows(seen, ip)
     /\ ip \in [Devices -> Addresses \cup {None}]
     /\ address \in [Devices -> Addresses]
     /\ cookie \in [Devices -> Devices \cup {None}]
     /\ cache \in [Addresses -> Devices \cup {None}]
     /\ session \in [Devices -> {"closed", "open", "query", "serving"}]
     /\ handled \in [Devices -> Requests]
     /\ fresh \in [Devices -> BOOLEAN]
  BY TypeByRows
<1>. USE SessionAssumption
<1>. DEFINE Rest == /\ address' \in [Devices -> Addresses]
                    /\ cookie' \in [Devices -> Devices \cup {None}]
                    /\ cache' \in [Addresses -> Devices \cup {None}]
                    /\ session' \in [Devices -> {"closed", "open", "query", "serving"}]
                    /\ handled' \in [Devices -> Requests]
                    /\ fresh' \in [Devices -> BOOLEAN]
            Rows == LiveRows(seen, ip)' /\ ip' \in [Devices -> Addresses \cup {None}]
<1>0. UNCHANGED rowVars => Rows
  BY DEF rowVars, LiveRows
<1>1. ASSUME NEW d \in Devices, NEW delivered \in BOOLEAN, Inform(d, delivered) PROVE Rows /\ Rest
  <2>1. Rest
    BY <1>1 DEF Inform, CacheInsert
  <2>2. Rows
    BY <1>0, <1>1, StoredRow DEF Inform
  <2>. QED
    BY <2>1, <2>2
<1>2. ASSUME NEW d \in Devices, NEW b \in Bodies, Post(d, b) PROVE Rows /\ Rest
  <2>1. b.kind \in Kinds
    BY DEF Bodies, Kinds
  <2>2. Effect(b) \in Effects
    BY DEF Effect, Effects
  <2>3. Lookup(d) \in Devices \cup {None}
    BY DEF Lookup
  <2>4. \A c \in {Lookup(d), None} :
           [kind |-> b.kind, effect |-> Effect(b), cpe |-> c] \in Requests
    BY <2>1, <2>2, <2>3 DEF Requests
  <2>5. handled' \in [Devices -> Requests]
    BY <1>2, <2>4 DEF Post
  <2>. QED
    BY <1>0, <1>2, <2>5 DEF Post
<1>3. ASSUME NEW d \in Devices, NEW answered \in BOOLEAN, Query(d, answered) PROVE Rows /\ Rest
  <2>1. \A k \in DOMAIN seen : seen[k] \in Devices
    BY DEF LiveRows
  <2>2. PICK c \in Devices \cup {None}, e \in {handled[d].effect, "ignored"} :
           handled' = [handled EXCEPT ![d].cpe = c, ![d].effect = e]
    <3>1. CASE \E k \in DOMAIN seen : handled' = [handled EXCEPT ![d].cpe = seen[k]]
      <4>1. PICK k \in DOMAIN seen : handled' = [handled EXCEPT ![d].cpe = seen[k]]
        BY <3>1
      <4>2. handled' = [handled EXCEPT ![d].cpe = seen[k], ![d].effect = handled[d].effect]
        BY <4>1 DEF Requests
      <4>. QED
        BY <2>1, <4>2
    <3>2. CASE handled' = [handled EXCEPT ![d].cpe = None, ![d].effect = "ignored"]
      BY <3>2
    <3>. QED
      BY <1>3, <3>1, <3>2 DEF Query
  <2>3. e \in Effects
    BY <2>2 DEF Requests, Effects
  <2>4. handled' = [handled EXCEPT ![d] = [@ EXCEPT !.cpe = c, !.effect = e]]
    BY <2>2
  <2>5. [handled[d] EXCEPT !.cpe = c, !.effect = e] \in Requests
    <3>1. handled[d] \in Requests
      OBVIOUS
    <3>. QED
      BY <2>2, <2>3, <3>1 DEF Requests
  <2>6. handled' \in [Devices -> Requests]
    BY <2>4, <2>5
  <2>. QED
    BY <1>0, <1>3, <2>6 DEF Query
<1>4. ASSUME NEW d \in Devices, Reply(d) PROVE Rows /\ Rest
  BY <1>0, <1>4, NoRequestType DEF Reply
<1>5. ASSUME NEW d \in Devices, NEW restarts \in BOOLEAN, Close(d, restarts) PROVE Rows /\ Rest
  BY <1>0, <1>5, NoRequestType DEF Close, rowVars
<1>6. ASSUME NEW d \in Devices, NEW a \in Addresses, Move(d, a) PROVE Rows /\ Rest
  BY <1>0, <1>6 DEF Move
<1>7. ASSUME NEW d \in Devices, NEW a \in Addresses, MqttReport(d, a) PROVE Rows /\ Rest
  BY <1>7, StoredRow DEF MqttReport
<1>8. ASSUME NEW d \in Devices, DeleteCpe(d) PROVE Rows /\ Rest
  BY <1>8, DeletedRow DEF DeleteCpe
<1>9. ASSUME NEW a \in Addresses, Expire(a) PROVE Rows /\ Rest
  BY <1>0, <1>9 DEF Expire
<1>10. ASSUME Restart PROVE Rows /\ Rest
  BY <1>0, <1>10, NoRequestType DEF Restart
<1>11. ASSUME UNCHANGED vars PROVE Rows /\ Rest
  BY <1>0, <1>11 DEF vars
<1>. HIDE DEF Rows, Rest
<1>12. Rows /\ Rest
  BY <1>1, <1>2, <1>3, <1>4, <1>5, <1>6, <1>7, <1>8, <1>9, <1>10, <1>11 DEF Next
<1>13. TypeOK' <=> /\ LiveRows(seen, ip)' /\ (ip \in [Devices -> Addresses \cup {None}])'
                   /\ Rest
  BY DEF Rest, TypeOK, LiveRows, Requests
<1>. QED
  BY <1>12, <1>13 DEF Rows

\* A device has one live row at most and has it exactly while an address is stored for it;
\* a handler knows at most one device of its request.
THEOREM SessionTypes == Spec => []TypeOK
<1>1. Init => TypeOK
  <2>. SUFFICES ASSUME Init PROVE TypeOK
    OBVIOUS
  <2>1. LiveRows(seen, ip)
    BY EmptySeq DEF Init, LiveRows, IsInjective, ToSet
  <2>2. handled \in [Devices -> Requests]
    BY NoRequestType DEF Init
  <2>. QED
    BY <2>1, <2>2, TypeByRows DEF Init
<1>. QED
  BY <1>1, SessionTypeStep, PTL DEF Spec

=============================================================================
