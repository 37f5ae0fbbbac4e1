------------------------------ MODULE CatalogCache ------------------------------
(***************************************************************************)
(* The catalog of post-conditions as SiegeWebClient.list_catalog keeps it: *)
(* one payload with the time it was stored, a path without the lock for a  *)
(* fresh one, and one fetch at a time behind an asyncio.Lock.  A fetch is  *)
(* an HTTP call that siege-web may answer with 429, up to MaxAttempts      *)
(* times (_call_with_retry).  The commands ask for one stronghold level,   *)
(* None, so the cache has one entry.                                       *)
(***************************************************************************)
EXTENDS PostConditions

CONSTANTS
    Editor,        \* the commands that call list_catalog, each once
    NoEntry, Nobody,
    Garbage,       \* the body of an error, taken for a catalog
    TTL,           \* _CATALOG_CACHE_TTL
    Latency,       \* bound: how long an answer is on its way
    MaxAttempts,   \* attempts of _call_with_retry
    MaxTime        \* bound: the last modelled time

ASSUME CacheAssumption ==
    /\ TTL \in Nat \ {0} /\ Latency \in Nat /\ MaxAttempts \in Nat \ {0}
    /\ MaxTime \in Nat \ {0} /\ MaxFaults \in Nat
    /\ Nobody \notin Editor

\* Time starts at 1: 0 is "never".
Time == 1 .. MaxTime

Catalog == SUBSET Condition

Payload == Catalog \cup {Garbage}

Entry == [payload : Payload, ts : Time]

Call == [pc : {"idle", "waiting", "fetching", "answered", "returned", "failed"},
         payload : Payload, at : Time, attempt : 1 .. MaxAttempts]

VARIABLES
    clock,
    catalog,     \* siege-web's catalog
    retired,     \* history: when each former catalog was last current
    cache,       \* _catalog_cache[None]
    lock,        \* the holder of _catalog_cache_lock
    call         \* each caller's list_catalog

cacheVars == <<clock, catalog, retired, cache, lock, call>>

CacheTypeOK ==
    /\ clock \in Time
    /\ catalog \in Catalog
    /\ retired \in [Catalog -> 0 .. MaxTime]
    /\ cache \in Entry \cup {NoEntry}
    /\ lock \in Editor \cup {Nobody}
    /\ call \in [Editor -> Call]
    /\ faults \in 0 .. MaxFaults

CacheInit ==
    /\ clock = 1
    /\ catalog = Condition
    /\ retired = [c \in Catalog |-> 0]
    /\ cache = NoEntry
    /\ lock = Nobody
    /\ call = [e \in Editor |-> [pc |-> "idle", payload |-> {}, at |-> 1, attempt |-> 1]]
    /\ faults = 0

SpendFault == faults < MaxFaults /\ faults' = faults + 1

\* An answer arrives within Latency of being made.  Bound: time passes only
\* while somebody has yet to get the catalog.
AdvanceClock ==
    /\ clock < MaxTime
    /\ \E e \in Editor : call[e].pc \notin {"returned", "failed"}
    /\ \A e \in Editor : call[e].pc = "answered" => clock < call[e].at + Latency
    /\ clock' = clock + 1
    /\ UNCHANGED <<catalog, retired, cache, lock, call, faults>>

\* An administrator of siege-web adds or removes a condition.  Bound: once.
EditCatalog ==
    /\ \A c \in Catalog : retired[c] = 0
    /\ \E c \in Condition :
          catalog' = IF c \in catalog THEN catalog \ {c} ELSE catalog \cup {c}
    /\ retired' = [retired EXCEPT ![catalog] = clock]
    /\ UNCHANGED <<clock, cache, lock, call, faults>>

--------------------------------------------------------------------------------
(* list_catalog.                                                           *)

\* Mutant of Fresh: an entry never expires.
FreshForever == cache # NoEntry

Fresh == cache # NoEntry /\ clock < cache.ts + TTL

Result(pc, payload) == [pc |-> pc, payload |-> payload, at |-> 1, attempt |-> 1]

Return(e, payload) == call' = [call EXCEPT ![e] = Result("returned", payload)]

\* The path without the lock.
Hit(e) ==
    /\ call[e].pc = "idle" /\ Fresh
    /\ Return(e, cache.payload)
    /\ UNCHANGED <<clock, catalog, retired, cache, lock, faults>>

Queue(e) ==
    /\ call[e].pc = "idle" /\ ~Fresh
    /\ lock # Nobody
    /\ call' = [call EXCEPT ![e].pc = "waiting"]
    /\ UNCHANGED <<clock, catalog, retired, cache, lock, faults>>

Grant(e) ==
    /\ \/ call[e].pc = "idle" /\ ~Fresh
       \/ call[e].pc = "waiting"
    /\ lock = Nobody

StartFetch(e) ==
    /\ call' = [call EXCEPT ![e].pc = "fetching"]
    /\ lock' = e

\* Mutant of Locked: the entry is not looked at again behind the lock.
LockedWithoutRecheck(e) ==
    /\ Grant(e)
    /\ StartFetch(e)
    /\ UNCHANGED <<clock, catalog, retired, cache, faults>>

\* Behind the lock: another caller may have stored the entry meanwhile.
Locked(e) ==
    /\ Grant(e)
    /\ \/ Fresh /\ Return(e, cache.payload) /\ UNCHANGED lock
       \/ ~Fresh /\ StartFetch(e)
    /\ UNCHANGED <<clock, catalog, retired, cache, faults>>

FetchAnswered(e) ==
    /\ call[e].pc = "fetching"
    /\ \/ call' = [call EXCEPT ![e].pc = "answered", ![e].payload = catalog, ![e].at = clock]
          /\ UNCHANGED faults
       \* A status the client does not know, with a JSON body.
       \/ call' = [call EXCEPT ![e].pc = "answered", ![e].payload = Garbage, ![e].at = clock]
          /\ SpendFault
    /\ UNCHANGED <<clock, catalog, retired, cache, lock>>

FetchStored(e) ==
    /\ call[e].pc = "answered"
    /\ cache' = [payload |-> call[e].payload, ts |-> clock]
    /\ Return(e, call[e].payload)
    /\ lock' = Nobody
    /\ UNCHANGED <<clock, catalog, retired, faults>>

\* The exception leaves list_catalog, and the lock with it.
Raise(e) ==
    /\ call' = [call EXCEPT ![e] = Result("failed", {})]
    /\ lock' = Nobody

\* 429: sleep and send again, or give up.
FetchLimited(e) ==
    /\ call[e].pc = "fetching"
    /\ \/ /\ call[e].attempt < MaxAttempts
          /\ call' = [call EXCEPT ![e].attempt = @ + 1]
          /\ UNCHANGED lock
       \/ call[e].attempt = MaxAttempts /\ Raise(e)
    /\ UNCHANGED <<clock, catalog, retired, cache, faults>>

\* 401, 404, 422, a body that is no JSON, or the connection breaks.
FetchFails(e) ==
    /\ call[e].pc = "fetching" /\ SpendFault
    /\ Raise(e)
    /\ UNCHANGED <<clock, catalog, retired, cache>>

ListCatalog(e) ==
    \/ Hit(e) \/ Queue(e) \/ Locked(e)
    \/ FetchAnswered(e) \/ FetchStored(e) \/ FetchLimited(e) \/ FetchFails(e)

--------------------------------------------------------------------------------
LastCurrent(payload) == IF payload = catalog THEN clock ELSE retired[payload]

\* A catalog that list_catalog returns was siege-web's less than the TTL and
\* the time of one answer ago, whoever fetched it and however often it was
\* returned since (the docstring's ten minutes).
CatalogRecent ==
    [][\A e \in Editor :
        call[e].pc # "returned" /\ call'[e].pc = "returned" /\ call'[e].payload # Garbage =>
            clock < LastCurrent(call'[e].payload) + TTL + Latency]_cacheVars

\* Callers who find the entry expired together fetch it once: no fetch starts
\* while another is under way or a fresh entry is there.
NoHerd ==
    [][\A e \in Editor :
        call[e].pc # "fetching" /\ call'[e].pc = "fetching" =>
            /\ \A f \in Editor : call[f].pc \notin {"fetching", "answered"}
            /\ cache = NoEntry \/ cache.ts + TTL <= clock]_cacheVars

\* The lock is held for a fetch under way and for nothing else: every way out
\* of list_catalog, the last 429 and the broken connection included, gives it
\* to the next caller.
LockIsForAFetch ==
    lock = Nobody \/ call[lock].pc \in {"fetching", "answered"}
================================================================================
