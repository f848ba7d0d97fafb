----------------------------- MODULE MCServerState -----------------------------
(***************************************************************************)
(* Three goroutines hear of two servers while the configuration changes on *)
(* disk and is reloaded.                                                   *)
(***************************************************************************)
EXTENDS ServerState

Redis == [type |-> "redis", name |-> "n", fields |-> [port |-> "number"]]
Disk == [type |-> "file", name |-> "n", fields |-> [path |-> "string"]]
S3 == [type |-> "s3", name |-> "n",
       fields |-> [aws_access_key_id |-> "string", aws_secret_access_key |-> "string",
                   aws_s3_bucket |-> "string"]]
Rackspace ==
  [type |-> "rackspace", name |-> "m",
   fields |-> [rackspace_user_name |-> "string", rackspace_api_key |-> "string",
               rackspace_container |-> "string"]]
Till == [type |-> "till", name |-> "m", fields |-> [servers |-> "strings"]]
Unknown == [type |-> "memcached", name |-> "n", fields |-> <<>>]
Nameless == [type |-> "file", name |-> NotString, fields |-> <<>>]
\* As in README.md: a port that is a string, no container.
BadRedis == [Redis EXCEPT !.fields = [port |-> "string"]]
NoContainer ==
  [Rackspace EXCEPT !.fields =
     [rackspace_user_name |-> "string", rackspace_api_key |-> "string"]]

File(entries, broken) == [readable |-> TRUE, entries |-> entries, broken |-> broken]

\* One in which much fails, one in which nothing does, and two that kill.
MCFiles ==
  {File(<<NotObject, Unknown, BadRedis, Disk, S3, Redis, NoContainer, Till>>, {"n"}),
   File(<<Disk, S3, Rackspace, Till>>, {}),
   File(<<Disk, Nameless>>, {}),
   [readable |-> FALSE, entries |-> <<>>, broken |-> {}]}
=============================================================================
