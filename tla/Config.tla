------------------------------- MODULE Config -------------------------------
(***************************************************************************)
(* config.Load: the environment of a process, and the first reason not to  *)
(* start with it.  Durations are constants of the code, and of the modules *)
(* they matter to.                                                         *)
(***************************************************************************)

\* A variable may not be there, be empty, hold text that is not base64, hold a key of
\* another length, or what it should.
Variables == {"encryptionKey", "accessTokenSecret", "httpAddr", "databaseURL", "baseURL"}
Keys      == {"encryptionKey", "accessTokenSecret"}

Environments ==
    [encryptionKey     : {"unset", "empty", "malformed", "short", "good"},
     accessTokenSecret : {"unset", "empty", "malformed", "short", "good"},
     httpAddr          : {"unset", "empty", "good"},
     databaseURL       : {"unset", "empty", "good"},
     baseURL           : {"unset", "empty", "good"}]

\* os.Getenv, and getEnv, which replaces a variable that is not there and keeps an empty one.
Getenv(env, v) == IF env[v] = "unset" THEN "empty" ELSE env[v]
GetenvOr(env, v) == IF env[v] = "unset" THEN "good" ELSE env[v]

\* The conditions on which Load gives up.  Nothing decodes to nothing, without an error.
\* (Faulty variant: the lengths are left to those who use the keys.)
FaultsButLength(env) ==
    {k \in Keys : Getenv(env, k) = "malformed"}
    \cup {v \in {"databaseURL"} : Getenv(env, v) = "empty"}
    \cup {v \in {"httpAddr", "baseURL"} : GetenvOr(env, v) = "empty"}
Faults(env) == FaultsButLength(env) \cup {k \in Keys : Getenv(env, k) # "good"}

Loads(env) == Faults(env) = {}

\* secret.NewCipher.
CipherAccepts(env) == Getenv(env, "encryptionKey") = "good"
=============================================================================
