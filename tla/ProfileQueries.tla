--------------------------- MODULE ProfileQueries ---------------------------
(***************************************************************************)
(* GetUserById / GetCurrentUserProfile: the read-through profile cache.    *)
(* Reading the cache, reading the row and filling the cache are three      *)
(* awaits, with no version or lock between them.                           *)
(***************************************************************************)
EXTENDS IdentityStore

CacheHit(u) == cache[u] # NoUser

\* set_user leaves requested_role out of the entry; get_user rebuilds the profile
\* from the entry, with requested_role = None.
CacheEntry(user) == [user EXCEPT !.requested = NoRole]

\* A failing GET is taken for a miss.
ReadCache(r) ==
  LET u == req[r].call.user
  IN  /\ req[r].pc = "admitted"
      /\ req[r].call.op = "GetUser"
      /\ \/ CacheHit(u) /\ Finish(r)
         \/ /\ ~CacheHit(u) \/ RedisFails
            /\ req' = [req EXCEPT ![r].pc = "cacheMissed"]
      /\ UNCHANGED <<db, redis, access, started>>

ReadRow(r) ==
  LET u == req[r].call.user
  IN  /\ req[r].pc = "cacheMissed"
      /\ IF Registered(u)
         THEN req' = [req EXCEPT ![r].pc = "rowRead", ![r].mem = rows[u]]
         ELSE Finish(r)
      /\ UNCHANGED <<db, redis, access, started>>

FillCache(r) ==
  /\ req[r].pc = "rowRead"
  /\ \/ cache' = [cache EXCEPT ![req[r].call.user] = CacheEntry(req[r].mem)]
     \/ RedisFails /\ UNCHANGED cache
  /\ Finish(r)
  /\ UNCHANGED <<db, stream, access, started>>

\* The TTL runs out.
ExpireCacheEntry(u) ==
  /\ CacheHit(u)
  /\ cache' = [cache EXCEPT ![u] = NoUser]
  /\ UNCHANGED <<db, stream, access, req, started>>

QueryStep(r) == ReadCache(r) \/ ReadRow(r) \/ FillCache(r)
=============================================================================
