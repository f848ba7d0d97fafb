-------------------------------- MODULE Config --------------------------------
(***************************************************************************)
(* What becomes of the providers a configuration file lists: each is       *)
(* parsed, instantiated and connected in the order of the file, and those  *)
(* for which that fails are left out.  Of a value only its JSON kind is    *)
(* kept; a provider is a record of its "type", its "name" and the kinds of *)
(* its other fields.                                                       *)
(***************************************************************************)
EXTENDS Naturals, Sequences

\* The kind each field must have if it is there, by type of provider.
RedisFields ==
  [host |-> "string", port |-> "number", db |-> "number", password |-> "string",
   maxitems |-> "number"]
FileFields == [path |-> "string", maxsize |-> "number", maxitems |-> "number"]
TillFields == [request_types |-> "strings", servers |-> "strings"]
S3Fields ==
  [aws_access_key_id |-> "string", aws_secret_access_key |-> "string",
   aws_s3_bucket |-> "string", aws_s3_path |-> "string", aws_s3_storage_class |-> "string"]
RackspaceFields ==
  [rackspace_user_name |-> "string", rackspace_api_key |-> "string",
   rackspace_container |-> "string", rackspace_region |-> "string",
   rackspace_prefix |-> "string"]

Fields == [redis |-> RedisFields, file |-> FileFields, till |-> TillFields,
           s3 |-> S3Fields, rackspace |-> RackspaceFields]

\* The fields that have no default.
Required ==
  {"aws_access_key_id", "aws_secret_access_key", "aws_s3_bucket",
   "rackspace_user_name", "rackspace_api_key", "rackspace_container"}

\* What stands for a type or a name that is not a string, and for an element of
\* the list that is not an object.
NotString == "?"
NotObject == [type |-> NotString, name |-> NotString, fields |-> "none"]

\* NewProviderConfig asserts that type and name are strings.
Panics(e) == e # NotObject /\ NotString \in {e.type, e.name}

\* NewProviderConfig returns a configuration: the type is known, and each of
\* its fields has the right kind or a default.
Parses(e) ==
  /\ e # NotObject
  /\ e.type \in DOMAIN Fields
  /\ \A f \in DOMAIN Fields[e.type] :
       IF f \in DOMAIN e.fields THEN e.fields[f] = Fields[e.type][f] ELSE f \notin Required

\* NewProvider and Connect can only fail where they leave the process: for
\* Rackspace's login, and for the directories of a file provider.
Connects(e, broken) == e.type \in {"rackspace", "file"} => e.name \notin broken

\* Mutant: an entry of the same name replaces an earlier one.
Setup_LastWins(loaded, e, broken) ==
  IF Connects(e, broken)
  THEN [n \in DOMAIN loaded \cup {e.name} |-> IF n = e.name THEN e ELSE loaded[n]]
  ELSE loaded

\* One round of the loop of InitStateConfig.
Setup(loaded, e, broken) ==
  IF e.name \notin DOMAIN loaded /\ Connects(e, broken)
  THEN [n \in DOMAIN loaded \cup {e.name} |-> IF n = e.name THEN e ELSE loaded[n]]
  ELSE loaded

\* toConfig and InitStateConfig: the providers by name, after the first n entries.
Providers(file) ==
  LET loaded[n \in 0..Len(file.entries)] ==
        IF n = 0 THEN <<>>
        ELSE IF Parses(file.entries[n])
             THEN Setup(loaded[n - 1], file.entries[n], file.broken)
             ELSE loaded[n - 1]
  IN  loaded[Len(file.entries)]

\* The nil configuration of an unreadable file is dereferenced, and the
\* assertions are not guarded: the process dies.
Kills(file) == ~file.readable \/ \E i \in DOMAIN file.entries : Panics(file.entries[i])
=============================================================================
