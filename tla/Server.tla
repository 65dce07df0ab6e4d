------------------------------- MODULE Server -------------------------------
(***************************************************************************)
(* The life of a server process: main of cmd/server/main.go from           *)
(* config.Load to its deferred calls, the goroutine that listens, and the  *)
(* handlers of net/http that run beside them over the connection pool and  *)
(* the Redis client which main opens and closes.                           *)
(*                                                                         *)
(* A handler is seen as what matters to the shutdown: it takes a           *)
(* connection, runs one transaction, writes to Redis, and answers.  What a *)
(* database, a Redis or a listener does is not up to the process: it may   *)
(* fail, and a database may never answer.                                  *)
(***************************************************************************)
EXTENDS Config, FiniteSets, Naturals

CONSTANTS
    Requests,      \* requests that clients may send
    PoolSize,      \* connections of the pool
    Environment    \* the environments the process may be started with

ASSUME ServerAssumption ==
    /\ PoolSize \in Nat \ {0}
    /\ Environment \subseteq Environments

VARIABLES
    env,           \* the environment
    main,          \* what main executes next
    exit,          \* how the process has ended
    pool,          \* databasePool
    cache,         \* cache
    signalled,     \* ctx is done
    listener,      \* the goroutine of ListenAndServe and its socket
    serverError,   \* the channel serverError holds an error
    connections,   \* what clients are connected to
    handler,       \* what the handler of a request does next
    lapsed,        \* requests that cannot be answered any more: WriteTimeout is over, or
                   \* the client has left
    committed,     \* requests whose transaction is committed
    unsaved        \* requests whose Redis write met a closed client

clients == <<handler, lapsed, committed, unsaved>>
process == <<main, exit, pool, cache, signalled, listener, serverError, connections>>
vars    == <<env, process, clients>>

-----------------------------------------------------------------------------
Steps == {"load", "open", "newRedis", "newCipher", "notify", "go", "select", "shutdown",
          "forceClose", "closeCache", "closePool", "awaitPool", "exited"}

Init ==
    /\ env \in Environment
    /\ main = "load"
    /\ exit = "no"
    /\ pool = "none"
    /\ cache = "none"
    /\ signalled = FALSE
    /\ listener = "none"
    /\ serverError = FALSE
    /\ connections = "none"
    /\ handler = [r \in Requests |-> "none"]
    /\ lapsed = {}
    /\ committed = {}
    /\ unsaved = {}

Running == exit = "no"

Exit(how) == main' = "exited" /\ exit' = how

\* logger.Fatal ends the process at once: no deferred call is made.
Fatal == Exit("fatal")

Continue(step) == main' = step /\ UNCHANGED exit

-----------------------------------------------------------------------------
(* Startup.                                                                *)

LoadConfig ==
    /\ main = "load"
    /\ IF Loads(env) THEN Continue("open") ELSE Fatal
    /\ UNCHANGED <<env, pool, cache, signalled, listener, serverError, connections, clients>>

\* The database answers the ping; it may refuse it, and then the pool is closed.
OpenDatabase ==
    /\ main = "open"
    /\ \/ pool' = "open" /\ Continue("newRedis")
       \/ pool' = "none" /\ Fatal
    /\ UNCHANGED <<env, cache, signalled, listener, serverError, connections, clients>>

NewRedis ==
    /\ main = "newRedis"
    /\ \/ cache' = "open" /\ Continue("newCipher")
       \/ cache' = "none" /\ Fatal
    /\ UNCHANGED <<env, pool, signalled, listener, serverError, connections, clients>>

\* The context of the startup step expires, 5 or 3 seconds after it began.
Bounded == main \in {"open", "newRedis"}

StartupTimesOut ==
    /\ Bounded
    /\ Fatal
    /\ UNCHANGED <<env, pool, cache, signalled, listener, serverError, connections, clients>>

NewCipher ==
    /\ main = "newCipher"
    /\ IF CipherAccepts(env) THEN Continue("notify") ELSE Fatal
    /\ UNCHANGED <<env, pool, cache, signalled, listener, serverError, connections, clients>>

Notify ==
    /\ main = "notify"
    /\ Continue("go")
    /\ UNCHANGED <<env, pool, cache, signalled, listener, serverError, connections, clients>>

Go ==
    /\ main = "go"
    /\ listener' = "starting"
    /\ Continue("select")
    /\ UNCHANGED <<env, pool, cache, signalled, serverError, connections, clients>>

-----------------------------------------------------------------------------
(* The goroutine that listens.                                             *)

\* err # nil and not ErrServerClosed: the error is sent; the channel has room for it.
\* (Faulty variant: the goroutine only ends.)
NothingSent == FALSE
ErrorSent == TRUE

\* Before Shutdown the socket is opened, or cannot be; afterwards it is not opened any more.
Listen ==
    /\ Running
    /\ listener = "starting"
    /\ IF main = "select"
       THEN \/ listener' = "open" /\ connections' = "open" /\ UNCHANGED serverError
            \/ listener' = "failed" /\ serverError' = ErrorSent /\ UNCHANGED connections
       ELSE listener' = "closed" /\ UNCHANGED <<serverError, connections>>
    /\ UNCHANGED <<env, main, exit, pool, cache, signalled, clients>>

\* Accept fails for good.
ListenerFails ==
    /\ Running
    /\ listener = "open"
    /\ listener' = "failed"
    /\ serverError' = ErrorSent
    /\ UNCHANGED <<env, main, exit, pool, cache, signalled, connections, clients>>

-----------------------------------------------------------------------------
(* Handlers.                                                               *)

\* A handler has begun and not yet returned.
Busy(r) == handler[r] \in {"begin", "transaction", "store", "respond", "refuse"}

Move(r, label) == handler' = [handler EXCEPT ![r] = label]

\* server.Close cuts the connections, which cancels the contexts of the handlers.
Cancelled == connections = "cut"

\* The client can be told nothing any more.
Unreachable(r) == Cancelled \/ r \in lapsed

\* A request comes over a new connection, or over an old one until that is closed.
Accept(r) ==
    /\ Running
    /\ connections = "open"
    /\ handler[r] = "none"
    /\ Move(r, "begin")
    /\ UNCHANGED <<env, process, lapsed, committed, unsaved>>

InTransaction == {r \in Requests : handler[r] = "transaction"}

\* The deadline of the server for the answer passes, or the client closes the connection,
\* while the handler is at work.
Lapse(r) ==
    /\ Running
    /\ Busy(r)
    /\ ~Unreachable(r)
    /\ lapsed' = lapsed \cup {r}
    /\ UNCHANGED <<env, process, handler, committed, unsaved>>

\* pool.Begin waits for a connection of the pool; it fails when the context is cancelled
\* or the pool is closed.  A client that has left cancels the context; a deadline alone need
\* not.
Begin(r) ==
    /\ Running
    /\ handler[r] = "begin"
    /\ \/ /\ pool = "open"
          /\ ~Cancelled
          /\ Cardinality(InTransaction) < PoolSize
          /\ Move(r, "transaction")
       \/ /\ pool = "closed" \/ Unreachable(r)
          /\ Move(r, "refuse")
    /\ UNCHANGED <<env, process, lapsed, committed, unsaved>>

\* The transaction is committed or fails, also when the context is cancelled: the answer
\* to the commit may already be on its way.
EndTransaction(r) ==
    /\ Running
    /\ handler[r] = "transaction"
    /\ \/ committed' = committed \cup {r} /\ Move(r, "store")
       \/ Move(r, "refuse") /\ UNCHANGED committed
    /\ UNCHANGED <<env, process, lapsed, unsaved>>

\* The Redis writes; the handler only reports an error of them and goes on.
Store(r) ==
    /\ Running
    /\ handler[r] = "store"
    /\ unsaved' = IF cache = "open" THEN unsaved ELSE unsaved \cup {r}
    /\ Move(r, "respond")
    /\ UNCHANGED <<env, process, lapsed, committed>>

\* The answer reaches the client unless the connection has been cut or has lapsed; the
\* handler does not know, and a connection that could not be written to is closed.
Respond(r) ==
    /\ Running
    /\ handler[r] \in {"respond", "refuse"}
    /\ Move(r, IF Unreachable(r) THEN "lost" ELSE "answered")
    /\ UNCHANGED <<env, process, lapsed, committed, unsaved>>

Handle(r) == Accept(r) \/ Begin(r) \/ EndTransaction(r) \/ Store(r) \/ Respond(r)

-----------------------------------------------------------------------------
(* Shutdown.                                                               *)

\* Before signal.NotifyContext a signal ends the process; afterwards it is ctx that ends.
Signal ==
    /\ Running
    /\ ~signalled
    /\ IF main \in {"load", "open", "newRedis", "newCipher", "notify"}
       THEN Exit("killed") /\ UNCHANGED signalled
       ELSE signalled' = TRUE /\ UNCHANGED <<main, exit>>
    /\ UNCHANGED <<env, pool, cache, listener, serverError, connections, clients>>

SelectError ==
    /\ main = "select"
    /\ serverError
    /\ Fatal
    /\ UNCHANGED <<env, pool, cache, signalled, listener, serverError, connections, clients>>

\* Shutdown begins with closing the socket.
\* (Faulty variant: it is closed with the connections.)
StillListening == listener
ListenerClosed == IF listener = "open" THEN "closed" ELSE listener

SelectSignal ==
    /\ main = "select"
    /\ signalled
    /\ listener' = ListenerClosed
    /\ Continue("shutdown")
    /\ UNCHANGED <<env, pool, cache, signalled, serverError, connections, clients>>

\* Shutdown has found every connection idle.
\* (Faulty variant: it does not look.)
Whatever == TRUE
AllIdle == \A r \in Requests : ~Busy(r)

ShutdownCompletes ==
    /\ main = "shutdown"
    /\ AllIdle
    /\ connections' = IF connections = "open" THEN "closed" ELSE connections
    /\ Continue("closeCache")
    /\ UNCHANGED <<env, pool, cache, signalled, listener, serverError, clients>>

\* shutdownContext expires first.
ShutdownTimesOut ==
    /\ main = "shutdown"
    /\ Continue("forceClose")
    /\ UNCHANGED <<env, pool, cache, signalled, listener, serverError, connections, clients>>

\* What server.Close leaves of the connections.
\* (Faulty variant: the error of Shutdown is only logged.)
Untouched == connections
Cut == IF connections = "open" THEN "cut" ELSE connections

ForceClose ==
    /\ main = "forceClose"
    /\ connections' = Cut
    /\ Continue("closeCache")
    /\ UNCHANGED <<env, pool, cache, signalled, listener, serverError, clients>>

\* The deferred calls, the last one first.
CloseCache ==
    /\ main = "closeCache"
    /\ cache' = "closed"
    /\ Continue("closePool")
    /\ UNCHANGED <<env, pool, signalled, listener, serverError, connections, clients>>

ClosePool ==
    /\ main = "closePool"
    /\ pool' = "closed"
    /\ Continue("awaitPool")
    /\ UNCHANGED <<env, cache, signalled, listener, serverError, connections, clients>>

\* pool.Close returns when every connection has been given back.
PoolReturned == InTransaction = {}

ExitMain ==
    /\ main = "awaitPool"
    /\ PoolReturned
    /\ Exit("orderly")
    /\ UNCHANGED <<env, pool, cache, signalled, listener, serverError, connections, clients>>

-----------------------------------------------------------------------------
\* What main does by itself, and what others make it do.
Prompt ==
    \/ LoadConfig \/ StartupTimesOut \/ NewCipher \/ Notify \/ Go
    \/ SelectError \/ SelectSignal
    \/ ShutdownCompletes \/ ShutdownTimesOut \/ ForceClose
    \/ CloseCache \/ ClosePool \/ ExitMain

Next ==
    \/ Prompt
    \/ OpenDatabase \/ NewRedis
    \/ Listen \/ ListenerFails
    \/ Signal
    \/ \E r \in Requests : Handle(r) \/ Lapse(r)

Spec == Init /\ [][Next]_vars

\* main and the listening goroutine are scheduled, and timers fire.  Of a handler nothing is
\* asked but that a cancelled context ends the wait of its transaction: a database may leave
\* a startup ping or a transaction without an answer for ever.
Fairness ==
    /\ WF_vars(Prompt)
    /\ WF_vars(Listen)
    /\ \A r \in Requests : WF_vars(Cancelled /\ EndTransaction(r))

FairSpec == Spec /\ Fairness

-----------------------------------------------------------------------------
(* Properties.                                                             *)

\* Every variable keeps its type; the socket is open only while main waits for a signal, a
\* handler runs only on a connection that was made, and the pool is not overdrawn.
TypeOK ==
    /\ env \in Environment
    /\ main \in Steps
    /\ exit \in {"no", "fatal", "killed", "orderly"}
    /\ {pool, cache} \subseteq {"none", "open", "closed"}
    /\ signalled \in BOOLEAN
    /\ listener \in {"none", "starting", "open", "failed", "closed"}
    /\ serverError \in BOOLEAN
    /\ connections \in {"none", "open", "closed", "cut"}
    /\ handler \in [Requests -> {"none", "begin", "transaction", "store", "respond",
                                 "refuse", "answered", "lost"}]
    /\ lapsed \subseteq Requests
    /\ committed \subseteq Requests
    /\ unsaved \subseteq committed
    /\ listener = "open" /\ Running => main = "select"
    /\ connections = "none" => \A r \in Requests : handler[r] = "none"
    /\ Cardinality(InTransaction) <= PoolSize

\* A process that has connected to anything has a configuration its parts accept: nothing
\* that Load could have found stops it later.
ConfigurationSuffices ==
    (pool # "none" => Loads(env)) /\ (main = "newCipher" => CipherAccepts(env))

\* A shutdown that cuts no connection cuts no work short: it closes the connections when no
\* handler is at work, and when the process ends every handler that was begun has returned,
\* with its Redis writes before the client was closed.  Shutdown waits for handlers, not
\* for their clients: an answer is lost to WriteTimeout, or to a client that has left, and
\* to nothing else.
GracefulIsComplete ==
    /\ connections = "closed" => \A r \in Requests : ~Busy(r)
    /\ exit = "orderly" /\ connections # "cut" =>
          /\ \A r \in Requests : \/ handler[r] \in {"none", "answered"}
                                 \/ handler[r] = "lost" /\ r \in lapsed
          /\ unsaved = {}

\* No client is answered after its Redis writes were refused because main had already
\* closed the Redis client: such a request has lost its connection before.
AnsweredWasSaved == \A r \in unsaved : handler[r] # "answered"

\* A signal ends the process, also when a transaction hangs for ever: Shutdown gives up,
\* Close cancels the handlers, and the pool gets its connections back.
SignalEndsProcess == signalled ~> ~Running

\* A process that does not serve comes to do so or ends: a start that the database or Redis
\* holds up, a socket that cannot be opened or fails later, a shutdown.
ServesOrEnds == []<>(listener = "open" \/ ~Running)
=============================================================================
