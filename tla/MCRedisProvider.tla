--------------------------- MODULE MCRedisProvider ---------------------------
(* Model values for checking RedisProvider. *)
EXTENDS RedisProvider

CONSTANTS logo, song, c1, c2, c3
=============================================================================
