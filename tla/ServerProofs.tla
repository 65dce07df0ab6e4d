---------------------------- MODULE ServerProofs ----------------------------
(***************************************************************************)
(* Proofs about Server, for any number of requests, any size of the pool   *)
(* and any set of environments.                                            *)
(*                                                                         *)
(* The invariant follows main: what is open at each of its steps, and what *)
(* the clients may have seen by then.                                      *)
(***************************************************************************)
EXTENDS Server, FiniteSetTheorems, TLAPS

BeforeSelect == {"load", "open", "newRedis", "newCipher", "notify", "go"}
AfterClose   == {"closeCache", "closePool", "awaitPool"}

Stages == {"none", "begin", "transaction", "store", "respond", "refuse", "answered", "lost"}

\* The types that the argument needs.
Types ==
    /\ env \in Environment
    /\ main \in Steps
    /\ exit \in {"no", "fatal", "killed", "orderly"}
    /\ connections \in {"none", "open", "closed", "cut"}
    /\ handler \in [Requests -> Stages]
    /\ lapsed \subseteq Requests
    /\ unsaved \subseteq Requests
    /\ exit # "no" <=> main = "exited"

\* What main has opened and closed.
MainOK ==
    /\ main \notin {"load", "exited"} => Loads(env)
    /\ pool # "none" => Loads(env)
    /\ main \in BeforeSelect => listener = "none" /\ connections = "none"
    /\ main = "select" => connections \in {"none", "open"}
    /\ main \in {"newCipher", "notify", "go", "select", "shutdown", "forceClose"} => cache = "open"
    /\ main \in AfterClose \/ exit = "orderly" => connections # "open"
    /\ connections = "open" => cache = "open"

\* What the state of a connection says of the handlers.
HandlersOK ==
    \A r \in Requests :
        /\ connections = "none" => handler[r] = "none"
        /\ connections = "closed" => ~Busy(r)
        /\ handler[r] = "lost" => Unreachable(r)
        /\ r \in unsaved => connections = "cut" /\ handler[r] \in {"respond", "lost"}

\* A process ends in order only when no handler holds a connection of the pool; of the
\* others, those that are still at work have lost their clients.
SInv == Types /\ MainOK /\ HandlersOK

-----------------------------------------------------------------------------
\* What Load has accepted, the cipher accepts.
LEMMA LoadedKeys ==
    ASSUME Loads(env) PROVE CipherAccepts(env)
  BY DEF Loads, Faults, CipherAccepts, Keys

LEMMA InitSInv == Init => SInv
  BY DEF Init, SInv, Types, MainOK, HandlersOK, Steps, Stages, BeforeSelect, AfterClose, Busy

\* The steps of main.
LEMMA PromptKeeps ==
    ASSUME SInv, Prompt \/ OpenDatabase \/ NewRedis
    PROVE  SInv'
<1>1. UNCHANGED <<env, handler, lapsed, unsaved>>
  BY DEF Prompt, LoadConfig, StartupTimesOut, NewCipher, Notify, Go, SelectError, SelectSignal,
     ShutdownCompletes, ShutdownTimesOut, ForceClose, CloseCache, ClosePool, ExitMain,
     OpenDatabase, NewRedis, clients
<1> USE DEF SInv, Types, MainOK, HandlersOK, Steps, BeforeSelect, AfterClose, Busy,
        Unreachable, Cancelled, Exit, Fatal, Continue, Loads, AllIdle, Cut
<1>2. CASE LoadConfig  BY <1>1, <1>2 DEF LoadConfig
<1>3. CASE OpenDatabase  BY <1>1, <1>3 DEF OpenDatabase
<1>4. CASE NewRedis  BY <1>1, <1>4 DEF NewRedis
<1>5. CASE StartupTimesOut  BY <1>1, <1>5 DEF StartupTimesOut, Bounded
<1>6. CASE NewCipher  BY <1>1, <1>6 DEF NewCipher
<1>7. CASE Notify  BY <1>1, <1>7 DEF Notify
<1>8. CASE Go  BY <1>1, <1>8 DEF Go
<1>9. CASE SelectError  BY <1>1, <1>9 DEF SelectError
<1>10. CASE SelectSignal  BY <1>1, <1>10 DEF SelectSignal
<1>11. CASE ShutdownCompletes  BY <1>1, <1>11 DEF ShutdownCompletes
<1>12. CASE ShutdownTimesOut  BY <1>1, <1>12 DEF ShutdownTimesOut
<1>13. CASE ForceClose  BY <1>1, <1>13 DEF ForceClose
<1>14. CASE CloseCache  BY <1>1, <1>14 DEF CloseCache
<1>15. CASE ClosePool  BY <1>1, <1>15 DEF ClosePool
<1>16. CASE ExitMain  BY <1>1, <1>16 DEF ExitMain
<1> QED BY <1>2, <1>3, <1>4, <1>5, <1>6, <1>7, <1>8, <1>9, <1>10, <1>11, <1>12, <1>13, <1>14,
           <1>15, <1>16 DEF Prompt

\* The listening goroutine and the signal.
LEMMA OthersKeep ==
    ASSUME SInv, Listen \/ ListenerFails \/ Signal
    PROVE  SInv'
<1>1. UNCHANGED <<env, handler, lapsed, unsaved, pool, cache>>
  BY DEF Listen, ListenerFails, Signal, clients
<1> USE DEF SInv, Types, MainOK, HandlersOK, Steps, BeforeSelect, AfterClose, Busy, Running, Exit,
        Unreachable, Cancelled
<1>2. CASE Listen  BY <1>1, <1>2 DEF Listen
<1>3. CASE ListenerFails  BY <1>1, <1>3 DEF ListenerFails
<1>4. CASE Signal  BY <1>1, <1>4 DEF Signal
<1> QED BY <1>2, <1>3, <1>4

\* The handlers: a Redis write is refused only when the client's connection has been cut.
LEMMA HandlersKeep ==
    ASSUME SInv, NEW q \in Requests, Handle(q)
    PROVE  SInv'
<1>1. UNCHANGED <<env, main, exit, pool, cache, listener, connections, lapsed>> /\ exit = "no"
  BY DEF Handle, Accept, Begin, EndTransaction, Store, Respond, process, Running
<1>2. MainOK'
  BY <1>1 DEF SInv, MainOK, Loads, Faults, Getenv, GetenvOr
<1>3. PICK label \in Stages : Move(q, label)
  BY DEF Handle, Accept, Begin, EndTransaction, Store, Respond, Stages
<1>4. /\ handler' \in [Requests -> Stages] /\ handler'[q] = label
      /\ \A r \in Requests : r # q => handler'[r] = handler[r]
  BY <1>3 DEF Move, SInv, Types
<1>5. unsaved' = unsaved \/ (Store(q) /\ cache # "open" /\ unsaved' = unsaved \cup {q})
  BY DEF Handle, Accept, Begin, EndTransaction, Store, Respond
<1>6. Types'
  BY <1>1, <1>4, <1>5 DEF SInv, Types
<1>7. ASSUME NEW r \in Requests, r # q
      PROVE  /\ connections' = "none" => handler'[r] = "none"
             /\ connections' = "closed" => ~Busy(r)'
             /\ handler'[r] = "lost" => Unreachable(r)'
             /\ r \in unsaved' => connections' = "cut" /\ handler'[r] \in {"respond", "lost"}
  BY <1>1, <1>4, <1>5, <1>7 DEF SInv, HandlersOK, Busy, Unreachable, Cancelled
<1>8. /\ connections' = "none" => handler'[q] = "none"
      /\ connections' = "closed" => ~Busy(q)'
      /\ handler'[q] = "lost" => Unreachable(q)'
      /\ q \in unsaved' => connections' = "cut" /\ handler'[q] \in {"respond", "lost"}
  <2> USE DEF SInv, Types, HandlersOK, Busy, Move, Unreachable, Cancelled
  <2>1. CASE Accept(q)  BY <1>1, <1>4, <2>1 DEF Accept
  <2>2. CASE Begin(q)  BY <1>1, <1>4, <2>2 DEF Begin
  <2>3. CASE EndTransaction(q)  BY <1>1, <1>4, <2>3 DEF EndTransaction
  <2>4. CASE Store(q)
    <3>1. handler[q] = "store" /\ handler'[q] = "respond"
      BY <2>4, <1>4 DEF Store
    <3>2. connections \in {"open", "cut"}
      BY <3>1
    <3>3. cache # "open" => connections = "cut"
      BY <3>2 DEF MainOK
    <3>4. q \notin unsaved
      BY <3>1
    <3> QED BY <1>1, <1>5, <3>1, <3>2, <3>3, <3>4
  <2>5. CASE Respond(q)  BY <1>1, <1>4, <2>5 DEF Respond
  <2> QED BY <2>1, <2>2, <2>3, <2>4, <2>5 DEF Handle
<1>9. HandlersOK'
  BY <1>7, <1>8 DEF HandlersOK
<1> QED BY <1>2, <1>6, <1>9 DEF SInv

\* A request that lapses is still handled as before.
LEMMA LapseKeeps ==
    ASSUME SInv, NEW q \in Requests, Lapse(q)
    PROVE  SInv'
<1>1. lapsed' = lapsed \cup {q} /\ UNCHANGED <<env, process, handler, unsaved>>
  BY DEF Lapse
<1>2. Types' /\ MainOK'
  BY <1>1 DEF SInv, Types, MainOK, process, Loads, Faults, Getenv, GetenvOr
<1>3. HandlersOK'
  BY <1>1 DEF SInv, HandlersOK, Busy, Unreachable, Cancelled, process
<1> QED BY <1>2, <1>3 DEF SInv

LEMMA NextSInv == SInv /\ [Next]_vars => SInv'
<1> SUFFICES ASSUME SInv, [Next]_vars PROVE SInv'
  OBVIOUS
<1>1. CASE Next
  BY <1>1, PromptKeeps, OthersKeep, HandlersKeep, LapseKeeps DEF Next
<1>2. CASE UNCHANGED vars
  BY <1>2 DEF vars, process, clients, SInv, Types, MainOK, HandlersOK, Busy, Unreachable, Cancelled,
     Loads, Faults, Getenv, GetenvOr
<1> QED BY <1>1, <1>2

-----------------------------------------------------------------------------
\* The inductive invariant holds in every reachable state.
THEOREM ServerInvariance == Spec => []SInv
  BY InitSInv, NextSInv, PTL DEF Spec

\* Nothing is connected before Load has accepted the environment, and NewCipher accepts
\* every key that Load does.
THEOREM ConfigurationChecked == Spec => []ConfigurationSuffices
<1>1. SInv => ConfigurationSuffices
  BY LoadedKeys DEF SInv, MainOK, ConfigurationSuffices
<1> QED BY <1>1, ServerInvariance, PTL

\* A shutdown that cuts no connection lets every handler that was begun return, after its
\* Redis writes: Shutdown closes the connections only when they are idle, and no new one is
\* accepted.  Only a client that has left, or one whose answer WriteTimeout has overtaken, is
\* not answered.
THEOREM GracefulShutdown == Spec => []GracefulIsComplete
<1>1. SInv => GracefulIsComplete
  <2>1. ASSUME SInv, NEW r \in Requests
        PROVE  /\ connections = "closed" => ~Busy(r)
               /\ exit = "orderly" /\ connections # "cut" =>
                     \/ handler[r] \in {"none", "answered"}
                     \/ handler[r] = "lost" /\ r \in lapsed
    <3>1. handler[r] \in Stages
      BY <2>1 DEF SInv, Types
    <3> QED BY <2>1, <3>1 DEF SInv, Types, MainOK, HandlersOK, Busy, Stages, Unreachable, Cancelled
  <2>2. SInv /\ connections # "cut" => unsaved = {}
    BY DEF SInv, Types, HandlersOK
  <2> QED BY <2>1, <2>2 DEF GracefulIsComplete
<1> QED BY <1>1, ServerInvariance, PTL

\* No client is answered whose Redis writes were refused by the client that main closed:
\* main closes it only after the connections.
THEOREM AnswersAreSaved == Spec => []AnsweredWasSaved
<1>1. SInv => AnsweredWasSaved
  BY DEF SInv, Types, HandlersOK, AnsweredWasSaved
<1> QED BY <1>1, ServerInvariance, PTL

-----------------------------------------------------------------------------
(* The types, with the pool: a transaction takes a connection that is free. *)

PoolOK == IsFiniteSet(InTransaction) /\ Cardinality(InTransaction) <= PoolSize

WholeTypes ==
    /\ TypeOK
    /\ PoolOK
    /\ \A r \in Requests : handler[r] = "store" => r \in committed

LEMMA OneMoreTransaction ==
    ASSUME handler \in [Requests -> Stages], PoolOK, NEW q \in Requests, NEW label \in Stages,
           Move(q, label), label = "transaction" => Cardinality(InTransaction) < PoolSize
    PROVE  PoolOK'
<1>1. handler'[q] = label /\ \A r \in Requests : r # q => handler'[r] = handler[r]
  BY DEF Move
<1>2. CASE label = "transaction" /\ q \notin InTransaction
  <2>1. InTransaction' = InTransaction \cup {q}
    BY <1>1, <1>2 DEF InTransaction
  <2>2. /\ IsFiniteSet(InTransaction \cup {q})
        /\ Cardinality(InTransaction \cup {q}) = Cardinality(InTransaction) + 1
    BY <1>2, FS_AddElement DEF PoolOK
  <2>3. Cardinality(InTransaction) \in Nat
    BY FS_CardinalityType DEF PoolOK
  <2> QED BY <1>2, <2>1, <2>2, <2>3, ServerAssumption DEF PoolOK
<1>3. CASE label = "transaction" /\ q \in InTransaction
  <2>1. InTransaction' = InTransaction
    BY <1>1, <1>3 DEF InTransaction
  <2> QED BY <2>1 DEF PoolOK
<1>4. CASE label # "transaction"
  <2>1. InTransaction' \subseteq InTransaction
    BY <1>1, <1>4 DEF InTransaction
  <2>2. IsFiniteSet(InTransaction') /\ Cardinality(InTransaction') <= Cardinality(InTransaction)
    BY <2>1, FS_Subset DEF PoolOK
  <2>3. Cardinality(InTransaction) \in Nat /\ Cardinality(InTransaction') \in Nat
    BY <2>2, FS_CardinalityType DEF PoolOK
  <2> QED BY <2>2, <2>3, ServerAssumption DEF PoolOK
<1> QED BY <1>2, <1>3, <1>4

LEMMA PromptTypes ==
    ASSUME SInv, WholeTypes, Prompt \/ OpenDatabase \/ NewRedis
    PROVE  WholeTypes'
<1>1. UNCHANGED <<env, handler, lapsed, committed, unsaved, InTransaction>>
  BY DEF Prompt, LoadConfig, StartupTimesOut, NewCipher, Notify, Go, SelectError, SelectSignal,
     ShutdownCompletes, ShutdownTimesOut, ForceClose, CloseCache, ClosePool, ExitMain,
     OpenDatabase, NewRedis, clients, InTransaction
<1> USE DEF SInv, Types, MainOK, WholeTypes, TypeOK, PoolOK, Steps, BeforeSelect, Running,
        Exit, Fatal, Continue, Cut, ListenerClosed
<1>2. CASE LoadConfig  BY <1>1, <1>2 DEF LoadConfig
<1>3. CASE OpenDatabase  BY <1>1, <1>3 DEF OpenDatabase
<1>4. CASE NewRedis  BY <1>1, <1>4 DEF NewRedis
<1>5. CASE StartupTimesOut  BY <1>1, <1>5 DEF StartupTimesOut, Bounded
<1>6. CASE NewCipher  BY <1>1, <1>6 DEF NewCipher
<1>7. CASE Notify  BY <1>1, <1>7 DEF Notify
<1>8. CASE Go  BY <1>1, <1>8 DEF Go
<1>9. CASE SelectError  BY <1>1, <1>9 DEF SelectError
<1>10. CASE SelectSignal  BY <1>1, <1>10 DEF SelectSignal
<1>11. CASE ShutdownCompletes  BY <1>1, <1>11 DEF ShutdownCompletes
<1>12. CASE ShutdownTimesOut  BY <1>1, <1>12 DEF ShutdownTimesOut
<1>13. CASE ForceClose  BY <1>1, <1>13 DEF ForceClose
<1>14. CASE CloseCache  BY <1>1, <1>14 DEF CloseCache
<1>15. CASE ClosePool  BY <1>1, <1>15 DEF ClosePool
<1>16. CASE ExitMain  BY <1>1, <1>16 DEF ExitMain
<1> QED BY <1>2, <1>3, <1>4, <1>5, <1>6, <1>7, <1>8, <1>9, <1>10, <1>11, <1>12, <1>13, <1>14,
           <1>15, <1>16 DEF Prompt

LEMMA OthersTypes ==
    ASSUME SInv, WholeTypes, Listen \/ ListenerFails \/ Signal
    PROVE  WholeTypes'
<1>1. UNCHANGED <<env, handler, lapsed, committed, unsaved, InTransaction, pool, cache>>
  BY DEF Listen, ListenerFails, Signal, clients, InTransaction
<1> USE DEF SInv, Types, MainOK, WholeTypes, TypeOK, PoolOK, Steps, BeforeSelect, Running, Exit,
        ErrorSent
<1>2. CASE Listen  BY <1>1, <1>2 DEF Listen
<1>3. CASE ListenerFails  BY <1>1, <1>3 DEF ListenerFails
<1>4. CASE Signal  BY <1>1, <1>4 DEF Signal
<1> QED BY <1>2, <1>3, <1>4

LEMMA HandlerTypes ==
    ASSUME SInv, WholeTypes, NEW q \in Requests, Handle(q)
    PROVE  WholeTypes'
<1>1. UNCHANGED <<env, process, lapsed>>
  BY DEF Handle, Accept, Begin, EndTransaction, Store, Respond
<1>2. PICK label \in Stages :
         /\ Move(q, label)
         /\ label = "transaction" => Cardinality(InTransaction) < PoolSize
         /\ label = "store" => q \in committed'
  BY DEF Handle, Accept, Begin, EndTransaction, Store, Respond, Stages
<1>3. handler \in [Requests -> Stages]
  BY DEF SInv, Types
<1>4. /\ handler' \in [Requests -> Stages] /\ handler'[q] = label
      /\ \A r \in Requests : r # q => handler'[r] = handler[r]
  BY <1>2, <1>3 DEF Move
<1>5. PoolOK'
  BY <1>2, <1>3, OneMoreTransaction DEF WholeTypes
<1>6. committed \subseteq committed' /\ committed' \subseteq Requests
  BY DEF Handle, Accept, Begin, EndTransaction, Store, Respond, WholeTypes, TypeOK
<1>7. unsaved' \subseteq committed'
  <2>1. CASE Store(q)
    BY <2>1 DEF Store, WholeTypes, TypeOK
  <2>2. CASE ~Store(q)
    BY <1>6, <2>2 DEF Handle, Accept, Begin, EndTransaction, Respond, WholeTypes, TypeOK
  <2> QED BY <2>1, <2>2
<1>8. \A r \in Requests : handler'[r] = "store" => r \in committed'
  BY <1>2, <1>4, <1>6 DEF WholeTypes
<1>9. connections' = "none" => \A r \in Requests : handler'[r] = "none"
  BY HandlersKeep DEF SInv, HandlersOK
<1>10. TypeOK'
  BY <1>1, <1>4, <1>5, <1>6, <1>7, <1>9 DEF WholeTypes, TypeOK, PoolOK, process, Running, Stages
<1> QED BY <1>5, <1>8, <1>10 DEF WholeTypes

LEMMA LapseTypes ==
    ASSUME WholeTypes, NEW q \in Requests, Lapse(q)
    PROVE  WholeTypes'
<1>1. lapsed' = lapsed \cup {q} /\ UNCHANGED <<env, process, handler, committed, unsaved>>
  BY DEF Lapse
<1>2. UNCHANGED InTransaction
  BY <1>1 DEF InTransaction
<1> QED BY <1>1, <1>2 DEF WholeTypes, TypeOK, PoolOK, process, Running

LEMMA InitWholeTypes == Init => WholeTypes
<1> SUFFICES ASSUME Init PROVE WholeTypes
  OBVIOUS
<1>1. InTransaction = {}
  BY DEF Init, InTransaction
<1>2. PoolOK
  BY <1>1, FS_EmptySet, ServerAssumption DEF PoolOK
<1> QED BY <1>2 DEF Init, WholeTypes, TypeOK, PoolOK, Steps

LEMMA NextWholeTypes == SInv /\ WholeTypes /\ [Next]_vars => WholeTypes'
<1> SUFFICES ASSUME SInv, WholeTypes, [Next]_vars PROVE WholeTypes'
  OBVIOUS
<1>1. CASE Next
  BY <1>1, PromptTypes, OthersTypes, HandlerTypes, LapseTypes DEF Next
<1>2. CASE UNCHANGED vars
  BY <1>2 DEF vars, process, clients, WholeTypes, TypeOK, PoolOK, InTransaction, Running
<1> QED BY <1>1, <1>2

\* Every variable keeps its type; in particular the pool is not overdrawn, however many
\* requests there are, and the socket is open only while main waits for a signal.
THEOREM ServerTypes == Spec => []TypeOK
<1>1. WholeTypes => TypeOK
  BY DEF WholeTypes
<1> QED BY <1>1, InitWholeTypes, NextWholeTypes, ServerInvariance, PTL DEF Spec
=============================================================================
