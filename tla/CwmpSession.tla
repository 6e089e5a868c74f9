----------------------------- MODULE CwmpSession -----------------------------
(***************************************************************************)
(* How the CWMP server knows whose request it is, and what it takes the    *)
(* request for.  A device opens a session with an Inform and goes on with  *)
(* empty POSTs and RPC responses, which do not name it: resolve_cpe_id     *)
(* looks at the session cookie, at the last Inform from the same IP        *)
(* address (for 120 s), and at the live rows with that address.  Addresses *)
(* are shared (NAT) and handed on (DHCP); not every device keeps cookies.  *)
(* A body is classified by the words it contains.                          *)
(***************************************************************************)
EXTENDS Integers, Sequences, SequencesExt

CONSTANTS
    Devices,
    Addresses,
    CookieKeepers,  \* the devices that send cookies back
    Words,          \* the words that names and values in a body may contain
    None

ASSUME SessionAssumption ==
    /\ CookieKeepers \subseteq Devices
    /\ None \notin Devices \cup Addresses
    /\ Words \subseteq {"Inform", "Fault", "Response"}

VARIABLES
    address,   \* address[d]: where the requests of d come from
    cookie,    \* cookie[d]: the session cookie d sends
    cache,     \* session_cache[a]: the device of the last Inform from a, if it is
               \* less than 120 s old (an older entry is there, and never used)
    ip,        \* ip[d]: ip_address in the live row of d
    seen,      \* the devices with a live row, in last_seen order
    session,   \* session[d]: closed, open, or what d's request is waiting for
    handled,   \* handled[d]: what the request of d in service is, whose, and its effect
    fresh      \* history: d's Inform is the last one from its address, and its
               \* cache entry has not expired

rowVars == <<ip, seen>>
vars == <<address, cookie, cache, rowVars, session, handled, fresh>>

Kinds == {"empty", "response", "fault", "other"}
Effects == {"none", "dequeue", "rejected", "failed", "completed", "ignored"}

\* The request bodies of a session after the Inform.
Bodies == [kind : {"empty"}, words : {{}}] \cup [kind : Kinds \ {"empty"}, words : SUBSET Words]

NoRequest == [kind |-> "empty", cpe |-> None, effect |-> "none"]

Init ==
    /\ address \in [Devices -> Addresses]
    /\ cookie = [d \in Devices |-> None]
    /\ cache = [a \in Addresses |-> None]
    /\ ip = [d \in Devices |-> None]
    /\ seen = <<>>
    /\ session = [d \in Devices |-> "closed"]
    /\ handled = [d \in Devices |-> NoRequest]
    /\ fresh = [d \in Devices |-> FALSE]

-----------------------------------------------------------------------------
\* The other rows, in order.
Without(d) ==
    LET at == {k \in DOMAIN seen : seen[k] = d} IN
    IF at = {} THEN seen ELSE RemoveAt(seen, CHOOSE k \in at : TRUE)

\* Defect: the upsert inserts a second row.
StoredTwice(d, a) ==
    /\ ip' = [ip EXCEPT ![d] = a]
    /\ seen' = Append(seen, d)

\* The upsert of an update: the row of d has address a and the latest last_seen.
Stored(d, a) ==
    /\ ip' = [ip EXCEPT ![d] = a]
    /\ seen' = Append(Without(d), d)

\* Defect: an address that is known keeps its device.
CacheInsertIfAbsent(d) ==
    cache' = [cache EXCEPT ![address[d]] = IF @ = None THEN d ELSE @]

CacheInsert(d) == cache' = [cache EXCEPT ![address[d]] = d]

\* An Inform names the device.  The cache is updated; the telemetry is stored
\* with the client's address, or lost on its way to the database; the reply, if
\* it is delivered, sets the cookie.
Inform(d, delivered) ==
    /\ session[d] = "closed"
    /\ CacheInsert(d)
    /\ Stored(d, address[d]) \/ UNCHANGED rowVars
    /\ session' = [session EXCEPT ![d] = IF delivered THEN "open" ELSE "closed"]
    /\ cookie' = [cookie EXCEPT ![d] = IF delivered /\ d \in CookieKeepers THEN d ELSE @]
    /\ fresh' = [e \in Devices |-> IF e = d THEN delivered
                                   ELSE fresh[e] /\ address[e] # address[d]]
    /\ UNCHANGED <<address, handled>>

-----------------------------------------------------------------------------
\* What a body is taken for: contains("Inform") comes first, then "Fault" and
\* "Response".  What is taken for an Inform and has no Inform element is rejected.
Mentions(b, word) ==
    \/ word \in b.words
    \/ word = "Fault" /\ b.kind = "fault"
    \/ word = "Response" /\ b.kind = "response"

Effect(b) ==
    CASE b.kind = "empty"          -> "dequeue"
      [] Mentions(b, "Inform")     -> "rejected"
      [] Mentions(b, "Fault")      -> "failed"
      [] Mentions(b, "Response")   -> "completed"
      [] OTHER                     -> "ignored"

\* Defect: the address is looked at before the cookie.
LookupAddressFirst(d) ==
    IF cache[address[d]] # None THEN cache[address[d]] ELSE cookie[d]

\* The cookie, else the cache entry if it is young enough, else nothing yet.
Lookup(d) == IF cookie[d] # None THEN cookie[d] ELSE cache[address[d]]

\* A request after the Inform.  Only one that dequeues or settles is resolved; it
\* waits for the database when neither the cookie nor the cache helps.
Post(d, b) ==
    LET effect == Effect(b)
        resolves == effect \in {"dequeue", "failed", "completed"}
    IN
    /\ session[d] = "open"
    /\ handled' = [handled EXCEPT ![d] =
                     [kind |-> b.kind, effect |-> effect,
                      cpe |-> IF resolves THEN Lookup(d) ELSE None]]
    /\ session' = [session EXCEPT ![d] =
                     IF resolves /\ Lookup(d) = None THEN "query" ELSE "serving"]
    /\ UNCHANGED <<address, cookie, cache, rowVars, fresh>>

\* SELECT ... WHERE ip_address ORDER BY last_seen DESC LIMIT 1; an error of the
\* database counts as no row, and a request nobody is found for has no effect.
Query(d, answered) ==
    LET rows == {k \in DOMAIN seen : ip[seen[k]] = address[d]} IN
    /\ session[d] = "query"
    /\ session' = [session EXCEPT ![d] = "serving"]
    /\ \/ \E k \in rows :
             /\ answered
             /\ \A j \in rows : j <= k
             /\ handled' = [handled EXCEPT ![d].cpe = seen[k]]
       \/ /\ answered => rows = {}
          /\ handled' = [handled EXCEPT ![d].cpe = None, ![d].effect = "ignored"]
    /\ UNCHANGED <<address, cookie, cache, rowVars, fresh>>

\* The reply to the request reaches the device.
Reply(d) ==
    /\ session[d] = "serving"
    /\ session' = [session EXCEPT ![d] = "open"]
    /\ handled' = [handled EXCEPT ![d] = NoRequest]
    /\ UNCHANGED <<address, cookie, cache, rowVars, fresh>>

-----------------------------------------------------------------------------
\* The TCP connection ends, and with it the session.  A device that restarts
\* loses its cookie.
Close(d, restarts) ==
    /\ session[d] # "closed"
    /\ session' = [session EXCEPT ![d] = "closed"]
    /\ handled' = [handled EXCEPT ![d] = NoRequest]
    /\ fresh' = [fresh EXCEPT ![d] = FALSE]
    /\ cookie' = [cookie EXCEPT ![d] = IF restarts THEN None ELSE @]
    /\ UNCHANGED <<address, cache, rowVars>>

\* Between sessions a device gets another address.
Move(d, a) ==
    /\ session[d] = "closed"
    /\ address[d] # a
    /\ address' = [address EXCEPT ![d] = a]
    /\ UNCHANGED <<cookie, cache, rowVars, session, handled, fresh>>

\* 120 s have passed since the Inform.
Expire(a) ==
    /\ cache[a] # None
    /\ cache' = [cache EXCEPT ![a] = None]
    /\ fresh' = [d \in Devices |-> fresh[d] /\ address[d] # a]
    /\ UNCHANGED <<address, cookie, rowVars, session, handled>>

\* A report over MQTT, which carries whatever address the device believes in.
MqttReport(d, a) ==
    /\ Stored(d, a)
    /\ UNCHANGED <<address, cookie, cache, session, handled, fresh>>

\* DELETE /cpes/{id}: the live row, if there is one, goes with the inventory row.
DeleteCpe(d) ==
    /\ ip' = [ip EXCEPT ![d] = None]
    /\ seen' = Without(d)
    /\ UNCHANGED <<address, cookie, cache, session, handled, fresh>>

\* The worker is started again: the cache is empty.
Restart ==
    /\ cache' = [a \in Addresses |-> None]
    /\ session' = [d \in Devices |-> "closed"]
    /\ handled' = [d \in Devices |-> NoRequest]
    /\ fresh' = [d \in Devices |-> FALSE]
    /\ UNCHANGED <<address, cookie, rowVars>>

Next ==
    \/ \E d \in Devices :
          \/ \E delivered \in BOOLEAN : Inform(d, delivered)
          \/ \E b \in Bodies : Post(d, b)
          \/ \E answered \in BOOLEAN : Query(d, answered)
          \/ Reply(d)
          \/ \E restarts \in BOOLEAN : Close(d, restarts)
          \/ \E a \in Addresses : Move(d, a) \/ MqttReport(d, a)
          \/ DeleteCpe(d)
    \/ \E a \in Addresses : Expire(a)
    \/ Restart

Spec == Init /\ [][Next]_vars

-----------------------------------------------------------------------------
(* Properties *)

(***************************************************************************)
(* Type invariant of the cache, the rows and the sessions; a device has one*)
(* row, and a row with an address is one that has been seen.               *)
(***************************************************************************)
TypeOK ==
    /\ address \in [Devices -> Addresses]
    /\ cookie \in [Devices -> Devices \cup {None}]
    /\ cache \in [Addresses -> Devices \cup {None}]
    /\ ip \in [Devices -> Addresses \cup {None}]
    /\ seen \in Seq(Devices) /\ IsInjective(seen)
    /\ ToSet(seen) = {d \in Devices : ip[d] # None}
    /\ session \in [Devices -> {"closed", "open", "query", "serving"}]
    /\ handled \in [Devices -> [kind : Kinds, cpe : Devices \cup {None}, effect : Effects]]
    /\ fresh \in [Devices -> BOOLEAN]

(***************************************************************************)
(* A device that keeps cookies is never taken for another one, whoever     *)
(* shares its address, took it over or reports it over MQTT, before and    *)
(* after a restart of the worker: the cookie of its Inform outranks the    *)
(* cache and the live rows.                                                *)
(***************************************************************************)
CookieSessionIsOwn ==
    \A d \in CookieKeepers : handled[d].cpe \in {None, d}

(***************************************************************************)
(* Without cookies a device is not taken for another one either as long as *)
(* its Inform is the last one from its address and less than 120 s old:    *)
(* former holders of the address and stale live rows do not matter, so a   *)
(* response settles a row of the queue its command was taken from.         *)
(***************************************************************************)
FreshSessionIsOwn ==
    [][\A d \in Devices :
          fresh[d] => handled'[d].cpe \in {handled[d].cpe, None, d}]_vars

-----------------------------------------------------------------------------
(* A claim of the repository that the code does not keep *)

(***************************************************************************)
(* "Upon receiving cwmp:RebootResponse or cwmp:GetParameterValuesResponse, *)
(* the command status transitions to 'completed'" (.agents/worker_m2_5/    *)
(* handoff.md): a response of a device the server knows by its cookie or   *)
(* address completes a command, whatever names and values it carries.      *)
(***************************************************************************)
ResponseCompletes ==
    \A d \in Devices :
        /\ handled[d].kind = "response"
        /\ session[d] = "serving"
        /\ Lookup(d) # None
        => handled[d].effect = "completed"

=============================================================================
