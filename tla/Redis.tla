------------------------------- MODULE Redis -------------------------------
(***************************************************************************)
(* The two RedisService calls the inventory service builds its mutexes     *)
(* from.  A store maps every key to the value stored under it, or to       *)
(* NoValue when the key is absent.  Each call is one atomic Redis command  *)
(* (SET key value EX ttl NX, and a Lua script), so each is one operator on *)
(* the store.  When the TTL of a key runs out is the caller's business: it *)
(* is an action of the module that owns the store.                         *)
(***************************************************************************)
EXTENDS Naturals

NoValue == "none"

\* setNxEx returns true: the key was absent.
IsAbsent(store, key) == store[key] = NoValue

\* The store after a setNxEx that returned true.
SetNxEx(store, key, value) == [store EXCEPT ![key] = value]

\* The store after deleteIfValue: compare-and-delete.
DeleteIfValue(store, key, expected) ==
    IF store[key] = expected THEN [store EXCEPT ![key] = NoValue] ELSE store

\* The store after the TTL of the key ran out.
Expire(store, key) == [store EXCEPT ![key] = NoValue]
=============================================================================
