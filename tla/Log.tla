--------------------------------- MODULE Log ---------------------------------
(***************************************************************************)
(* The logger of log.hpp and the channels of mqtt_client and mqtt_helper:  *)
(* records are emitted and sinks are installed by any thread at any time.  *)
(* A sink runs outside the locks and may itself reconfigure the logger.    *)
(*                                                                         *)
(* A record below the level when its log_stream is made is never seen      *)
(* again; it is not an action here.                                        *)
(***************************************************************************)
EXTENDS Naturals

CONSTANTS
    Threads,
    Sinks,        \* sinks an application installs
    Default,      \* the built-in sink
    NoSink,       \* an empty log_handler
    Global,       \* the process wide logger
    Helper,       \* the channel of the helper
    SetupMutex,   \* log_handler_mutex_ of the helper
    Nobody,       \* the owner of a free mutex
    MaxLevel,     \* log_level::off; a record has a lower one
    MaxClients,   \* bound on the clients a helper makes, one per start()
    MaxRecords,   \* bound on records
    MaxCalls      \* bound on set_log_handler() and set_log_level() calls

Clients == 1 .. MaxClients
Stores == {Global, Helper} \cup Clients    \* what has a handler_ and a mutex_
Mutexes == Stores \cup {SetupMutex}
Levels == 0 .. MaxLevel

ASSUME LogAssumption ==
    /\ MaxLevel \in Nat /\ MaxClients \in Nat
    /\ Global # Helper /\ Global \notin Clients /\ Helper \notin Clients
    /\ SetupMutex \notin Stores /\ Nobody \notin Threads

VARIABLES
    handler,    \* handler_ of every store
    level,      \* level_
    owner,      \* owner of every mutex
    client,     \* client_ of the helper, 0 if null
    made,       \* clients made so far
    rec,        \* per thread, the record it emits
    call,       \* per thread, the call it makes
    budget      \* records and calls so far

vars == <<handler, level, owner, client, made, rec, call, budget>>

\* from is where the record was emitted, store where it looks for a handler;
\* calm says that nothing was reconfigured since it was emitted.
NoRecord ==
    [pc |-> "idle", level |-> 0, from |-> Global, store |-> Global,
     sink |-> NoSink, calm |-> TRUE]
NoCall == [pc |-> "none", op |-> "none", store |-> Global, sink |-> NoSink]

Init ==
    /\ handler = [s \in Stores |-> NoSink]
    /\ level = 0
    /\ owner = [m \in Mutexes |-> Nobody]
    /\ client = 0 /\ made = 0
    /\ rec = [t \in Threads |-> NoRecord]
    /\ call = [t \in Threads |-> NoCall]
    /\ budget = [records |-> 0, calls |-> 0]

\* Thread t goes on with its record, its call.
Rec(t, r) == rec' = [rec EXCEPT ![t] = r]
Call(t, c) == call' = [call EXCEPT ![t] = c]

\* The handler or the level that is being changed may be another than a record
\* saw that is being emitted.
Disturbed == [t \in Threads |-> [rec[t] EXCEPT !.calm = FALSE]]
-----------------------------------------------------------------------------
(* Emitting a record *)

\* A log_stream was made with its level enabled; its destructor writes it to
\* the channel, or to the process wide logger.
Emit(t) ==
    /\ rec[t].pc = "idle" /\ call[t].pc = "none"
    /\ budget.records < MaxRecords
    /\ budget' = [budget EXCEPT !.records = @ + 1]
    /\ \E l \in level .. MaxLevel - 1,
          s \in {Global, Helper} \cup 1 .. made :
          Rec(t, [NoRecord EXCEPT !.pc = IF s = Global THEN "check" ELSE "lock",
                                  !.level = l, !.from = s, !.store = s])
    /\ UNCHANGED <<handler, level, owner, client, made, call>>

\* logger::write() looks at the level again.
Check(t) ==
    /\ rec[t].pc = "check"
    /\ Rec(t, IF rec[t].level >= level
              THEN [rec[t] EXCEPT !.pc = "lock", !.store = Global]
              ELSE NoRecord)
    /\ UNCHANGED <<handler, level, owner, client, made, call, budget>>

LockHandler(t) ==
    /\ rec[t].pc = "lock"
    /\ owner[rec[t].store] = Nobody
    /\ owner' = [owner EXCEPT ![rec[t].store] = t]
    /\ Rec(t, [rec[t] EXCEPT !.pc = "held"])
    /\ UNCHANGED <<handler, level, client, made, call, budget>>

\* Mutant: a channel without a handler goes to the built-in sink at once.
FoundDefault(store) ==
    IF handler[store] # NoSink THEN handler[store] ELSE Default

\* The handler to dispatch to: that of the store, the built-in one, or none yet.
Found(store) ==
    IF handler[store] # NoSink THEN handler[store]
    ELSE IF store = Global THEN Default ELSE NoSink

\* Mutant: the lock is kept while the sink runs.
UnlockLater(t) == owner
Unlocked(t) == [owner EXCEPT ![rec[t].store] = Nobody]

\* handler() returns its copy: dispatch() if there is one, else the process
\* wide logger.
CopyHandler(t) ==
    /\ rec[t].pc = "held"
    /\ owner' = Unlocked(t)
    /\ LET h == Found(rec[t].store)
       IN  Rec(t, [rec[t] EXCEPT !.pc = IF h = NoSink THEN "check" ELSE "sink",
                                 !.sink = h])
    /\ UNCHANGED <<handler, level, client, made, call, budget>>

\* The sink returns or throws.
SinkReturns(t) ==
    /\ rec[t].pc = "sink" /\ call[t].pc = "none"
    /\ Rec(t, NoRecord)
    /\ UNCHANGED <<handler, level, owner, client, made, call, budget>>
-----------------------------------------------------------------------------
(* Configuring, between two records or in a sink *)

MayCall(t) ==
    /\ rec[t].pc \in {"idle", "sink"} /\ call[t].pc = "none"
    /\ budget.calls < MaxCalls
    /\ budget' = [budget EXCEPT !.calls = @ + 1]

\* litemqtt::set_log_level()
SetLevel(t) ==
    /\ MayCall(t)
    /\ \E l \in Levels \ {level} : level' = l
    /\ rec' = Disturbed
    /\ UNCHANGED <<handler, owner, client, made, call>>

\* litemqtt::set_log_handler()
SetHandler(t) ==
    /\ MayCall(t)
    /\ \E h \in Sinks \cup {NoSink} :
          Call(t, [pc |-> "lock", op |-> "set", store |-> Global, sink |-> h])
    /\ UNCHANGED <<handler, level, owner, client, made, rec>>

\* mqtt_helper::set_log_handler(): the helper's channel, then the client's.
SetHelperHandler(t) ==
    /\ MayCall(t)
    /\ \E h \in Sinks \cup {NoSink} :
          Call(t, [pc |-> "setup", op |-> "helper", store |-> Helper,
                   sink |-> h])
    /\ UNCHANGED <<handler, level, owner, client, made, rec>>

\* start(): init_client() makes a client and gives it the helper's handler.
Start(t) ==
    /\ rec[t].pc \in {"idle", "sink"} /\ call[t].pc = "none"
    /\ client = 0 /\ \A u \in Threads : call[u].op # "start"
    /\ made < MaxClients
    /\ made' = made + 1
    /\ Call(t, [pc |-> "setup", op |-> "start", store |-> Helper,
                sink |-> NoSink])
    /\ UNCHANGED <<handler, level, owner, client, rec, budget>>

\* stop(): release_client()
Stop(t) ==
    /\ rec[t].pc \in {"idle", "sink"} /\ call[t].pc = "none"
    /\ client # 0
    /\ client' = 0
    /\ UNCHANGED <<handler, level, owner, made, rec, call, budget>>

LockSetup(t) ==
    /\ call[t].pc = "setup"
    /\ owner[SetupMutex] = Nobody
    /\ owner' = [owner EXCEPT ![SetupMutex] = t]
    /\ Call(t, [call[t] EXCEPT !.pc = "lock"])
    /\ UNCHANGED <<handler, level, client, made, rec, budget>>

LockStore(t) ==
    /\ call[t].pc = "lock"
    /\ owner[call[t].store] = Nobody
    /\ owner' = [owner EXCEPT ![call[t].store] = t]
    /\ Call(t, [call[t] EXCEPT !.pc = "held"])
    /\ UNCHANGED <<handler, level, client, made, rec, budget>>

\* set_handler(); a helper goes on to look for its client.
WriteHandler(t) ==
    /\ call[t].pc = "held" /\ call[t].op # "start"
    /\ handler' = [handler EXCEPT ![call[t].store] = call[t].sink]
    /\ rec' = Disturbed
    /\ IF call[t].op = "helper" /\ call[t].store = Helper
       THEN /\ owner' = [owner EXCEPT ![Helper] = Nobody]
            /\ Call(t, [call[t] EXCEPT !.pc = "find"])
       ELSE /\ owner' = [m \in Mutexes |->
                            IF owner[m] = t /\ m \in {SetupMutex, call[t].store}
                            THEN Nobody ELSE owner[m]]
            /\ Call(t, NoCall)
    /\ UNCHANGED <<level, client, made, budget>>

\* lock_client()
FindClient(t) ==
    /\ call[t].pc = "find"
    /\ IF client = 0
       THEN /\ owner' = [owner EXCEPT ![SetupMutex] = Nobody]
            /\ Call(t, NoCall)
       ELSE /\ UNCHANGED owner
            /\ Call(t, [call[t] EXCEPT !.pc = "lock", !.store = client])
    /\ UNCHANGED <<handler, level, client, made, rec, budget>>

\* init_client(): has_handler() and handler(), for the client just made.
CopyToClient(t) ==
    /\ call[t].pc = "held" /\ call[t].op = "start"
    /\ handler' = [handler EXCEPT ![made] = handler[Helper]]
    /\ rec' = Disturbed
    /\ owner' = [owner EXCEPT ![Helper] = Nobody, ![SetupMutex] = Nobody]
    /\ Call(t, [call[t] EXCEPT !.pc = "publish"])
    /\ UNCHANGED <<level, client, made, budget>>

\* init_client(): client_ is assigned.
PublishClient(t) ==
    /\ call[t].pc = "publish"
    /\ client' = made
    /\ Call(t, NoCall)
    /\ UNCHANGED <<handler, level, owner, made, rec, budget>>
-----------------------------------------------------------------------------
Emission(t) ==
    Check(t) \/ LockHandler(t) \/ CopyHandler(t) \/ SinkReturns(t)
Configuration(t) ==
    \/ LockSetup(t) \/ LockStore(t) \/ WriteHandler(t) \/ FindClient(t)
    \/ CopyToClient(t) \/ PublishClient(t)
Begin(t) ==
    \/ Emit(t) \/ SetLevel(t) \/ SetHandler(t) \/ SetHelperHandler(t)
    \/ Start(t) \/ Stop(t)

Next == \E t \in Threads : Begin(t) \/ Emission(t) \/ Configuration(t)

Spec == Init /\ [][Next]_vars

\* A thread that began goes on, and a sink returns.
FairSpec ==
    Spec /\ \A t \in Threads : WF_vars(Emission(t) \/ Configuration(t))
-----------------------------------------------------------------------------
(* Properties *)

Handlers == Sinks \cup {NoSink}
Records ==
    [pc : {"idle", "check", "lock", "held", "sink"}, level : Nat,
     from : Stores, store : Stores, sink : Handlers \cup {Default},
     calm : BOOLEAN]
Calls ==
    [pc : {"none", "setup", "lock", "held", "find", "publish"},
     op : {"none", "set", "helper", "start"}, store : Stores, sink : Handlers]

\* Every variable stays in its type; a client is made before it is used.
TypeOK ==
    /\ handler \in [Stores -> Handlers]
    /\ level \in Levels
    /\ owner \in [Mutexes -> Threads \cup {Nobody}]
    /\ made \in 0 .. MaxClients /\ client \in 0 .. made
    /\ rec \in [Threads -> Records]
    /\ call \in [Threads -> Calls]

\* README.md:423 "Resolution order for every record": the handler of the object
\* that emits it, then the process wide one, then the built-in one.
Resolve(from) ==
    IF handler[from] # NoSink THEN handler[from]
    ELSE IF handler[Global] # NoSink THEN handler[Global] ELSE Default

\* A record that nobody disturbs by reconfiguring goes where that order says,
\* and only if the level lets it.
RoutedAsConfigured ==
    \A t \in Threads :
        rec[t].pc = "sink" /\ rec[t].calm =>
            /\ rec[t].sink = Resolve(rec[t].from)
            /\ rec[t].level >= level

\* README.md:397 "always called without the library holding any lock, so it may
\* reconfigure the logger": emitting and configuring never block for good, even
\* from inside a sink.
NothingBlocks ==
    \A t \in Threads :
        /\ rec[t].pc # "idle" ~> rec[t].pc = "idle"
        /\ call[t].pc # "none" ~> call[t].pc = "none"

\* README.md:397 "always called without the library holding any lock".
SinksRunUnlocked ==
    \A t \in Threads :
        rec[t].pc = "sink" /\ call[t].pc = "none"
            => \A m \in Mutexes : owner[m] # t

\* The mutex of a handler is the last one a thread takes, and
\* log_handler_mutex_ the first (mqtt_helper.hpp:195-205): no two threads can
\* wait for each other, nor one for itself.
LockOrder ==
    \A t \in Threads :
        /\ (\E m \in Stores : owner[m] = t)
              => rec[t].pc # "lock" /\ call[t].pc \notin {"setup", "lock"}
        /\ owner[SetupMutex] = t => rec[t].pc # "lock" /\ call[t].pc # "setup"
-----------------------------------------------------------------------------
(* A claim that does not hold; no run checks it *)

\* README.md:417 "applies to the helper and to the mqtt_client it owns", where
\* set_log_handler() (:430) "may be called at any time, from any thread": a call that
\* falls between the copy in init_client() and the assignment of client_ misses
\* the new client.
ClientFollowsHelper ==
    client # 0 /\ (\A t \in Threads : call[t].pc = "none")
        => handler[client] = handler[Helper]
=============================================================================
