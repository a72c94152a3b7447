-------------------------------- MODULE Access --------------------------------
(***************************************************************************)
(* API keys and the limit on their requests: what the database holds of a  *)
(* key, what the authentication of a request reads of it and decides, and  *)
(* what the endpoints under /admin/keys do to it.                          *)
(*                                                                         *)
(* A key is its id; hashes and secrets are left out.  No code of the       *)
(* program sets expires_at, so no key expires.                             *)
(***************************************************************************)
EXTENDS Integers, FiniteSets

CONSTANTS
    Keys,        \* key ids
    Bootstrap,   \* the one generated when the database holds no key
    Rpm,         \* rate_limit_rpm of a generated key
    Minute       \* the window of the rate limiter

ASSUME AccessAssumption == Bootstrap \in Keys /\ Rpm \in Nat /\ Minute \in Nat \ {0}

VARIABLES
    keys,        \* the keys in the database
    windows,     \* RateLimiter._windows: per key, <<request, time>> of those admitted lately
    now          \* the clock

accessVars == <<keys, windows, now>>

\* An empty list of scopes is no list of scopes.
GeneratedKey(tenant, scopes, limit) ==
    [tenant |-> tenant, scopes |-> IF scopes = {} THEN {"chat", "admin"} ELSE scopes,
     limit |-> limit, active |-> TRUE]

Bootstrapped(stored) ==
    IF DOMAIN stored # {} THEN stored
    ELSE [id \in {Bootstrap} |-> GeneratedKey("bootstrap", {"admin", "chat"}, Rpm)]

\* Mutant: the admission of exactly a minute ago still counts.
RecentOrOnTheMinute(id) == {a \in windows[id] : a[2] >= now - Minute}

Recent(id) == {a \in windows[id] : a[2] > now - Minute}

WithinLimit(id) == Cardinality(Recent(id)) < keys[id].limit

\* RateLimiter.check: a refused request is not counted.
Counts(id, r) ==
    windows' = [windows EXCEPT ![id] = IF WithinLimit(id) THEN Recent(id) \cup {<<r, now>>}
                                       ELSE Recent(id)]

\* What a lookup reads of a key.
Looked(id) == IF id \notin DOMAIN keys THEN "unknown"
              ELSE IF keys[id].active THEN "active" ELSE "revoked"

\* Mutant: any key the database knows is let in.
KnownIsAdmitted(id, read, scope) ==
    CASE read = "unknown"            -> 401
      [] read # "unknown"            -> IF ~WithinLimit(id) THEN 429
                                        ELSE IF scope \notin keys[id].scopes THEN 403 ELSE 200

\* The answer of require_auth and require_scope; 200 admits the request.
Admission(id, read, scope) ==
    CASE read # "active" -> 401
      [] read = "active" -> IF ~WithinLimit(id) THEN 429
                            ELSE IF scope \notin keys[id].scopes THEN 403 ELSE 200

\* The keys that an admin of this tenant may revoke.
Revocable(tenant) == {id \in DOMAIN keys : keys[id].tenant = tenant}

Creates(id, tenant, scopes, limit) ==
    keys' = [i \in DOMAIN keys \cup {id} |->
                IF i = id THEN GeneratedKey(tenant, scopes, limit) ELSE keys[i]]

Revokes(id) == keys' = [keys EXCEPT ![id].active = FALSE]
=============================================================================
