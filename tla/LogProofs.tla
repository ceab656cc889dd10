------------------------------ MODULE LogProofs ------------------------------
(***************************************************************************)
(* The logger of log.hpp for any number of threads, sinks, clients,        *)
(* records and calls: where a record goes, and that its locks cannot       *)
(* block.                                                                  *)
(***************************************************************************)
EXTENDS Log, TLAPS

\* How far a record nobody disturbed has come in the resolution order.
Halfway(r) ==
    /\ r.level >= level
    /\ r.pc = "check" => r.from = Global \/ handler[r.from] = NoSink
    /\ r.pc \in {"lock", "held"} =>
          \/ r.store = r.from
          \/ r.store = Global /\ handler[r.from] = NoSink
    /\ r.pc = "sink" => r.sink = Resolve(r.from)

Routing == \A t \in Threads : rec[t].pc # "idle" /\ rec[t].calm => Halfway(rec[t])

\* The calls of a thread, and the locks it holds.
Calling ==
    \A t \in Threads :
        /\ call[t].pc # "none" => rec[t].pc \in {"idle", "sink"}
        /\ call[t].pc = "setup" => call[t].op \in {"helper", "start"}
        /\ call[t].pc = "find" => call[t].op = "helper"
        /\ call[t].pc = "publish" => call[t].op = "start"
        /\ call[t].pc # "none" /\ call[t].op = "start" => call[t].store = Helper

Holds(t, m) ==
    \/ rec[t].pc = "held" /\ m = rec[t].store
    \/ call[t].pc = "held" /\ m = call[t].store
    \/ /\ call[t].op \in {"helper", "start"}
       /\ call[t].pc \in {"lock", "held", "find"}
       /\ m = SetupMutex

Ownership == \A t \in Threads, m \in Mutexes : owner[m] = t <=> Holds(t, m)

IInv == TypeOK /\ Routing /\ Calling /\ Ownership
-----------------------------------------------------------------------------
(* What a step of one thread leaves of the others *)

\* The record of t changes, the handlers and the level do not.
LEMMA RecStep ==
    ASSUME IInv, NEW t \in Threads, NEW r \in Records, Rec(t, r),
           UNCHANGED <<handler, level>>,
           r.pc # "idle" /\ r.calm => Halfway(r)
    PROVE  /\ rec' \in [Threads -> Records]
           /\ rec'[t] = r
           /\ \A u \in Threads \ {t} : rec'[u] = rec[u]
           /\ Routing'
<1>1. rec \in [Threads -> Records] BY DEF IInv, TypeOK
<1>2. /\ rec' \in [Threads -> Records]
      /\ rec'[t] = r
      /\ \A u \in Threads \ {t} : rec'[u] = rec[u]
  BY <1>1 DEF Rec
<1>3. ASSUME NEW u \in Threads, rec'[u].pc # "idle", rec'[u].calm
      PROVE  Halfway(rec[u])'
  <2>1. CASE u = t BY <1>2, <1>3, <2>1 DEF Halfway, Resolve
  <2>2. CASE u # t
    <3>1. Halfway(rec[u]) BY <1>2, <1>3, <2>2 DEF IInv, Routing
    <3> QED BY <1>2, <2>2, <3>1 DEF Halfway, Resolve
  <2> QED BY <2>1, <2>2
<1> QED BY <1>2, <1>3 DEF Routing

\* Every record under way is disturbed.
LEMMA DisturbedStep ==
    ASSUME IInv, rec' = Disturbed
    PROVE  /\ rec' \in [Threads -> Records] /\ Routing'
           /\ \A u \in Threads : /\ rec'[u].pc = rec[u].pc
                                 /\ rec'[u].store = rec[u].store
<1>1. rec \in [Threads -> Records] BY DEF IInv, TypeOK
<1>2. \A u \in Threads : rec'[u] = [rec[u] EXCEPT !.calm = FALSE]
  BY DEF Disturbed
<1>3. \A u \in Threads :
          /\ [rec[u] EXCEPT !.calm = FALSE] \in Records
          /\ [rec[u] EXCEPT !.calm = FALSE].calm = FALSE
          /\ [rec[u] EXCEPT !.calm = FALSE].pc = rec[u].pc
          /\ [rec[u] EXCEPT !.calm = FALSE].store = rec[u].store
  BY <1>1 DEF Records
<1>4. rec' \in [Threads -> Records] BY <1>3 DEF Disturbed
<1> QED BY <1>2, <1>3, <1>4 DEF Routing

\* The call of t changes.
LEMMA CallStep ==
    ASSUME IInv, NEW t \in Threads, NEW c \in Calls, Call(t, c)
    PROVE  /\ call' \in [Threads -> Calls]
           /\ call'[t] = c
           /\ \A u \in Threads \ {t} : call'[u] = call[u]
BY DEF IInv, TypeOK, Call

LEMMA RoutingUnchanged ==
    ASSUME IInv, UNCHANGED <<rec, handler, level>> PROVE Routing'
BY DEF IInv, Routing, Halfway, Resolve

LEMMA NoRecordFacts == NoRecord \in Records /\ NoRecord.pc = "idle"
BY DEF NoRecord, Records, Handlers, Stores

LEMMA NoCallFacts == NoCall \in Calls /\ NoCall.pc = "none" /\ NoCall.op = "none"
BY DEF NoCall, Calls, Handlers, Stores
-----------------------------------------------------------------------------
(* Emitting a record *)

LEMMA EmitStep == \A t \in Threads : IInv /\ Emit(t) => IInv'
<1> SUFFICES ASSUME NEW t \in Threads, IInv, Emit(t) PROVE IInv'
  OBVIOUS
<1>1. PICK l \in level .. MaxLevel - 1, s \in {Global, Helper} \cup 1 .. made :
          Rec(t, [NoRecord EXCEPT !.pc = IF s = Global THEN "check" ELSE "lock",
                                  !.level = l, !.from = s, !.store = s])
  BY DEF Emit
<1> DEFINE r == [NoRecord EXCEPT !.pc = IF s = Global THEN "check" ELSE "lock",
                                 !.level = l, !.from = s, !.store = s]
<1>2. /\ rec[t].pc = "idle" /\ call[t].pc = "none"
      /\ UNCHANGED <<handler, level, owner, client, made, call>>
  BY DEF Emit
<1>3. s \in Stores BY LogAssumption DEF IInv, TypeOK, Stores, Clients
<1>4. l \in Nat /\ l >= level BY LogAssumption DEF IInv, TypeOK, Levels
<1>5. /\ r \in Records
      /\ r.pc = (IF s = Global THEN "check" ELSE "lock")
      /\ r.level = l /\ r.from = s /\ r.store = s
  BY <1>3, <1>4 DEF NoRecord, Records, Handlers
<1>6. Halfway(r) BY <1>4, <1>5 DEF Halfway
<1> HIDE DEF r
<1>7. Rec(t, r) BY <1>1 DEF r
<1>8. /\ rec' \in [Threads -> Records] /\ rec'[t] = r
      /\ \A u \in Threads \ {t} : rec'[u] = rec[u]
      /\ Routing'
  BY <1>2, <1>5, <1>6, <1>7, RecStep
<1>9. TypeOK' BY <1>2, <1>8 DEF IInv, TypeOK
<1>10. Calling' BY <1>2, <1>8 DEF IInv, Calling
<1>11. Ownership'
  <2>1. \A u \in Threads, m \in Mutexes : Holds(u, m)' <=> Holds(u, m)
    BY <1>2, <1>5, <1>8 DEF Holds
  <2> QED BY <1>2, <2>1 DEF IInv, Ownership
<1> QED BY <1>8, <1>9, <1>10, <1>11 DEF IInv

LEMMA CheckStep == \A t \in Threads : IInv /\ Check(t) => IInv'
<1> SUFFICES ASSUME NEW t \in Threads, IInv, Check(t) PROVE IInv'
  OBVIOUS
<1> DEFINE r == IF rec[t].level >= level
                THEN [rec[t] EXCEPT !.pc = "lock", !.store = Global]
                ELSE NoRecord
<1>1. /\ rec[t].pc = "check" /\ Rec(t, r)
      /\ UNCHANGED <<handler, level, owner, client, made, call>>
  BY DEF Check
<1>2. rec[t] \in Records BY DEF IInv, TypeOK
<1>3. r \in Records /\ r.pc \in {"lock", "idle"}
  BY <1>2, NoRecordFacts DEF Records, Stores
<1>4. ASSUME r.pc # "idle", r.calm PROVE Halfway(r)
  <2>1. rec[t].level >= level BY <1>4, NoRecordFacts
  <2>2. /\ r.pc = "lock" /\ r.store = Global /\ r.from = rec[t].from
        /\ r.level = rec[t].level /\ r.calm = rec[t].calm
    BY <1>2, <2>1 DEF Records
  <2> HIDE DEF r
  <2>3. Halfway(rec[t]) BY <1>1, <1>4, <2>2 DEF IInv, Routing
  <2> QED BY <1>1, <2>1, <2>2, <2>3 DEF Halfway
<1> HIDE DEF r
<1>5. /\ rec' \in [Threads -> Records] /\ rec'[t] = r
      /\ \A u \in Threads \ {t} : rec'[u] = rec[u]
      /\ Routing'
  BY <1>1, <1>3, <1>4, RecStep
<1>6. TypeOK' BY <1>1, <1>5 DEF IInv, TypeOK
<1>7. call[t].pc = "none" BY <1>1 DEF IInv, Calling
<1>8. Calling' BY <1>1, <1>5, <1>7 DEF IInv, Calling
<1>9. Ownership'
  <2>1. \A u \in Threads, m \in Mutexes : Holds(u, m)' <=> Holds(u, m)
    BY <1>1, <1>3, <1>5 DEF Holds
  <2> QED BY <1>1, <2>1 DEF IInv, Ownership
<1> QED BY <1>5, <1>6, <1>8, <1>9 DEF IInv

LEMMA LockHandlerStep == \A t \in Threads : IInv /\ LockHandler(t) => IInv'
<1> SUFFICES ASSUME NEW t \in Threads, IInv, LockHandler(t) PROVE IInv'
  OBVIOUS
<1> DEFINE r == [rec[t] EXCEPT !.pc = "held"]
<1>1. /\ rec[t].pc = "lock" /\ owner[rec[t].store] = Nobody
      /\ owner' = [owner EXCEPT ![rec[t].store] = t] /\ Rec(t, r)
      /\ UNCHANGED <<handler, level, client, made, call>>
  BY DEF LockHandler
<1>2. rec[t] \in Records /\ rec[t].store \in Stores
  BY DEF IInv, TypeOK, Records
<1>3. /\ r \in Records /\ r.pc = "held" /\ r.store = rec[t].store
      /\ r.from = rec[t].from /\ r.level = rec[t].level /\ r.calm = rec[t].calm
  BY <1>2 DEF Records
<1> HIDE DEF r
<1>4. r.pc # "idle" /\ r.calm => Halfway(r)
  BY <1>1, <1>3 DEF IInv, Routing, Halfway
<1>5. /\ rec' \in [Threads -> Records] /\ rec'[t] = r
      /\ \A u \in Threads \ {t} : rec'[u] = rec[u]
      /\ Routing'
  BY <1>1, <1>3, <1>4, RecStep
<1>6. rec[t].store \in Mutexes BY <1>2 DEF Mutexes
<1>7. TypeOK' BY <1>1, <1>5, <1>6 DEF IInv, TypeOK
<1>8. call[t].pc = "none" BY <1>1 DEF IInv, Calling
<1>9. Calling' BY <1>1, <1>5, <1>8 DEF IInv, Calling
<1>10. Ownership'
  <2> SUFFICES ASSUME NEW u \in Threads, NEW m \in Mutexes
               PROVE  owner'[m] = u <=> Holds(u, m)'
    BY DEF Ownership
  <2>1. owner'[m] = IF m = rec[t].store THEN t ELSE owner[m]
    BY <1>1 DEF IInv, TypeOK
  <2>2. owner[rec[t].store] # u BY <1>1, LogAssumption
  <2>3. owner[m] = u <=> Holds(u, m) BY DEF IInv, Ownership
  <2>4. ~Holds(u, rec[t].store) BY <1>6, <2>2 DEF IInv, Ownership
  <2>5. CASE u = t BY <1>1, <1>3, <1>5, <1>8, <2>1, <2>3, <2>5 DEF Holds
  <2>6. CASE u # t
    <3>1. Holds(u, m)' <=> Holds(u, m) BY <1>1, <1>5, <2>6 DEF Holds
    <3> QED BY <2>1, <2>3, <2>4, <2>6, <3>1
  <2> QED BY <2>5, <2>6
<1> QED BY <1>5, <1>7, <1>9, <1>10 DEF IInv

LEMMA CopyHandlerStep == \A t \in Threads : IInv /\ CopyHandler(t) => IInv'
<1> SUFFICES ASSUME NEW t \in Threads, IInv, CopyHandler(t) PROVE IInv'
  OBVIOUS
<1> DEFINE h == Found(rec[t].store)
           r == [rec[t] EXCEPT !.pc = IF h = NoSink THEN "check" ELSE "sink",
                               !.sink = h]
<1>1. /\ rec[t].pc = "held"
      /\ owner' = [owner EXCEPT ![rec[t].store] = Nobody] /\ Rec(t, r)
      /\ UNCHANGED <<handler, level, client, made, call>>
  BY DEF CopyHandler, Unlocked
<1>2. /\ rec[t] \in Records /\ rec[t].store \in Stores
      /\ handler \in [Stores -> Handlers]
  BY DEF IInv, TypeOK, Records
<1>3. h \in Handlers \cup {Default} BY <1>2 DEF Found, Handlers
<1>4. /\ r \in Records /\ r.pc = (IF h = NoSink THEN "check" ELSE "sink")
      /\ r.sink = h
      /\ r.from = rec[t].from /\ r.level = rec[t].level /\ r.calm = rec[t].calm
  <2> HIDE DEF h
  <2> QED BY <1>2, <1>3 DEF Records
<1>5. ASSUME r.calm PROVE Halfway(r)
  <2>1. Halfway(rec[t]) BY <1>1, <1>4, <1>5 DEF IInv, Routing
  <2>2. /\ rec[t].level >= level
        /\ \/ rec[t].store = rec[t].from
           \/ rec[t].store = Global /\ handler[rec[t].from] = NoSink
    BY <1>1, <2>1 DEF Halfway
  <2>3. h = NoSink => r.from = Global \/ handler[r.from] = NoSink
    BY <1>4, <2>2 DEF Found
  <2>4. h # NoSink => h = Resolve(r.from)
    BY <1>4, <2>2 DEF Found, Resolve
  <2> HIDE DEF h, r
  <2> QED BY <1>4, <2>2, <2>3, <2>4 DEF Halfway
<1> HIDE DEF h, r
<1>6. /\ rec' \in [Threads -> Records] /\ rec'[t] = r
      /\ \A u \in Threads \ {t} : rec'[u] = rec[u]
      /\ Routing'
  BY <1>1, <1>4, <1>5, RecStep
<1>7. rec[t].store \in Mutexes BY <1>2 DEF Mutexes
<1>8. TypeOK' BY <1>1, <1>6 DEF IInv, TypeOK
<1>9. call[t].pc = "none" BY <1>1 DEF IInv, Calling
<1>10. Calling' BY <1>1, <1>6, <1>9 DEF IInv, Calling
<1>11. Ownership'
  <2> SUFFICES ASSUME NEW u \in Threads, NEW m \in Mutexes
               PROVE  owner'[m] = u <=> Holds(u, m)'
    BY DEF Ownership
  <2>1. owner'[m] = IF m = rec[t].store THEN Nobody ELSE owner[m]
    BY <1>1 DEF IInv, TypeOK
  <2>2. Nobody # u BY LogAssumption
  <2>3. owner[m] = u <=> Holds(u, m) BY DEF IInv, Ownership
  <2>4. owner[rec[t].store] = t
    BY <1>1, <1>7 DEF IInv, Ownership, Holds
  <2>5. CASE u = t
    <3>1. ~Holds(t, m)' BY <1>1, <1>4, <1>6, <1>9 DEF Holds
    <3>2. Holds(t, m) => m = rec[t].store BY <1>1, <1>9 DEF Holds
    <3> QED BY <2>1, <2>2, <2>3, <2>5, <3>1, <3>2
  <2>6. CASE u # t
    <3>1. Holds(u, m)' <=> Holds(u, m) BY <1>1, <1>6, <2>6 DEF Holds
    <3>2. m = rec[t].store => owner[m] # u BY <2>4, <2>6
    <3> QED BY <2>1, <2>2, <2>3, <2>6, <3>1, <3>2
  <2> QED BY <2>5, <2>6
<1> QED BY <1>6, <1>8, <1>10, <1>11 DEF IInv

LEMMA SinkReturnsStep == \A t \in Threads : IInv /\ SinkReturns(t) => IInv'
<1> SUFFICES ASSUME NEW t \in Threads, IInv, SinkReturns(t) PROVE IInv'
  OBVIOUS
<1>1. /\ rec[t].pc = "sink" /\ call[t].pc = "none" /\ Rec(t, NoRecord)
      /\ UNCHANGED <<handler, level, owner, client, made, call>>
  BY DEF SinkReturns
<1>2. /\ rec' \in [Threads -> Records] /\ rec'[t] = NoRecord
      /\ \A u \in Threads \ {t} : rec'[u] = rec[u]
      /\ Routing'
  BY <1>1, NoRecordFacts, RecStep
<1>3. TypeOK' BY <1>1, <1>2 DEF IInv, TypeOK
<1>4. Calling' BY <1>1, <1>2 DEF IInv, Calling
<1>5. Ownership'
  <2>1. \A u \in Threads, m \in Mutexes : Holds(u, m)' <=> Holds(u, m)
    BY <1>1, <1>2, NoRecordFacts DEF Holds
  <2> QED BY <1>1, <2>1 DEF IInv, Ownership
<1> QED BY <1>2, <1>3, <1>4, <1>5 DEF IInv
-----------------------------------------------------------------------------
(* Configuring *)

LEMMA SetLevelStep == \A t \in Threads : IInv /\ SetLevel(t) => IInv'
<1> SUFFICES ASSUME NEW t \in Threads, IInv, SetLevel(t) PROVE IInv'
  OBVIOUS
<1>1. /\ level' \in Levels /\ rec' = Disturbed
      /\ UNCHANGED <<handler, owner, client, made, call>>
  BY DEF SetLevel
<1>2. /\ rec' \in [Threads -> Records] /\ Routing'
      /\ \A u \in Threads : /\ rec'[u].pc = rec[u].pc
                            /\ rec'[u].store = rec[u].store
  BY <1>1, DisturbedStep
<1>3. TypeOK' BY <1>1, <1>2 DEF IInv, TypeOK
<1>4. Calling' BY <1>1, <1>2 DEF IInv, Calling
<1>5. Ownership'
  <2>1. \A u \in Threads, m \in Mutexes : Holds(u, m)' <=> Holds(u, m)
    BY <1>1, <1>2 DEF Holds
  <2> QED BY <1>1, <2>1 DEF IInv, Ownership
<1> QED BY <1>2, <1>3, <1>4, <1>5 DEF IInv

\* A call begins, with no lock taken yet.
LEMMA BeginStep ==
    ASSUME IInv, NEW t \in Threads, NEW c \in Calls, Call(t, c),
           rec[t].pc \in {"idle", "sink"}, call[t].pc = "none",
           \/ c.pc = "lock" /\ c.op = "set"
           \/ c.pc = "setup" /\ c.op = "helper"
           \/ c.pc = "setup" /\ c.op = "start" /\ c.store = Helper,
           UNCHANGED <<handler, level, owner, rec>>,
           made' \in 0 .. MaxClients, client' \in 0 .. made'
    PROVE  IInv'
<1>1. /\ call' \in [Threads -> Calls] /\ call'[t] = c
      /\ \A u \in Threads \ {t} : call'[u] = call[u]
  BY CallStep
<1>2. TypeOK' BY <1>1 DEF IInv, TypeOK
<1>3. Calling' BY <1>1 DEF IInv, Calling
<1>4. Ownership'
  <2>1. \A u \in Threads, m \in Mutexes : Holds(u, m)' <=> Holds(u, m)
    BY <1>1 DEF Holds
  <2> QED BY <2>1 DEF IInv, Ownership
<1> QED BY <1>2, <1>3, <1>4, RoutingUnchanged DEF IInv

LEMMA SetHandlerStep ==
    \A t \in Threads : IInv /\ (SetHandler(t) \/ SetHelperHandler(t)) => IInv'
<1> SUFFICES ASSUME NEW t \in Threads, IInv,
                    SetHandler(t) \/ SetHelperHandler(t)
             PROVE  IInv'
  OBVIOUS
<1>1. PICK h \in Sinks \cup {NoSink} :
          \/ Call(t, [pc |-> "lock", op |-> "set", store |-> Global, sink |-> h])
          \/ Call(t, [pc |-> "setup", op |-> "helper", store |-> Helper,
                      sink |-> h])
  BY DEF SetHandler, SetHelperHandler
<1>2. /\ [pc |-> "lock", op |-> "set", store |-> Global, sink |-> h] \in Calls
      /\ [pc |-> "setup", op |-> "helper", store |-> Helper, sink |-> h] \in Calls
  BY DEF Calls, Stores, Handlers
<1>3. /\ rec[t].pc \in {"idle", "sink"} /\ call[t].pc = "none"
      /\ UNCHANGED <<handler, level, owner, client, made, rec>>
  BY DEF SetHandler, SetHelperHandler, MayCall
<1>4. made' \in 0 .. MaxClients /\ client' \in 0 .. made'
  BY <1>3 DEF IInv, TypeOK
<1> QED BY <1>1, <1>2, <1>3, <1>4, BeginStep

LEMMA StartStep == \A t \in Threads : IInv /\ Start(t) => IInv'
<1> SUFFICES ASSUME NEW t \in Threads, IInv, Start(t) PROVE IInv'
  OBVIOUS
<1> DEFINE c == [pc |-> "setup", op |-> "start", store |-> Helper,
                 sink |-> NoSink]
<1>1. c \in Calls /\ c.pc = "setup" /\ c.op = "start" /\ c.store = Helper
  BY DEF Calls, Stores, Handlers
<1>2. /\ rec[t].pc \in {"idle", "sink"} /\ call[t].pc = "none"
      /\ made < MaxClients /\ made' = made + 1 /\ Call(t, c)
      /\ UNCHANGED <<handler, level, owner, client, rec>>
  BY DEF Start
<1>3. made' \in 0 .. MaxClients /\ client' \in 0 .. made'
  BY <1>2, LogAssumption DEF IInv, TypeOK
<1> HIDE DEF c
<1> QED BY <1>1, <1>2, <1>3, BeginStep

LEMMA StopStep == \A t \in Threads : IInv /\ Stop(t) => IInv'
<1> SUFFICES ASSUME NEW t \in Threads, IInv, Stop(t) PROVE IInv'
  OBVIOUS
<1>1. client' = 0 /\ UNCHANGED <<handler, level, owner, made, rec, call>>
  BY DEF Stop
<1>2. TypeOK' BY <1>1, LogAssumption DEF IInv, TypeOK
<1>3. Calling' BY <1>1 DEF IInv, Calling
<1>4. Ownership' BY <1>1 DEF IInv, Ownership, Holds
<1> QED BY <1>1, <1>2, <1>3, <1>4, RoutingUnchanged DEF IInv

\* A thread that takes mutex m, its call going on as c.
LEMMA TakeStep ==
    ASSUME IInv, NEW t \in Threads, NEW c \in Calls, NEW m \in Mutexes,
           call[t].pc \in {"setup", "lock"}, Call(t, c), owner[m] = Nobody,
           owner' = [owner EXCEPT ![m] = t],
           UNCHANGED <<handler, level, client, made, rec>>,
           \/ call[t].pc = "setup" /\ c.pc = "lock" /\ m = SetupMutex
           \/ call[t].pc = "lock" /\ c.pc = "held" /\ m = call[t].store,
           c.op = call[t].op, c.store = call[t].store
    PROVE  IInv'
<1>1. /\ call' \in [Threads -> Calls] /\ call'[t] = c
      /\ \A u \in Threads \ {t} : call'[u] = call[u]
  BY CallStep
<1>2. TypeOK' BY <1>1 DEF IInv, TypeOK
<1>3. rec[t].pc \in {"idle", "sink"} BY DEF IInv, Calling
<1>4. Calling' BY <1>1, <1>3 DEF IInv, Calling
<1>5. Ownership'
  <2> SUFFICES ASSUME NEW u \in Threads, NEW n \in Mutexes
               PROVE  owner'[n] = u <=> Holds(u, n)'
    BY DEF Ownership
  <2>1. owner'[n] = IF n = m THEN t ELSE owner[n] BY DEF IInv, TypeOK
  <2>2. owner[m] # u BY LogAssumption
  <2>3. owner[n] = u <=> Holds(u, n) BY DEF IInv, Ownership
  <2>4. ~Holds(u, m) BY <2>2 DEF IInv, Ownership
  <2>5. CASE u = t
    <3>1. call[t].pc = "setup" => call[t].op \in {"helper", "start"}
      BY DEF IInv, Calling
    <3>2. Holds(t, n)' <=> n = m \/ Holds(t, n)
      BY <1>1, <1>3, <3>1 DEF Holds
    <3> QED BY <2>1, <2>3, <2>5, <3>2
  <2>6. CASE u # t
    <3>1. Holds(u, n)' <=> Holds(u, n) BY <1>1, <2>6 DEF Holds
    <3> QED BY <2>1, <2>3, <2>4, <2>6, <3>1
  <2> QED BY <2>5, <2>6
<1> QED BY <1>2, <1>4, <1>5, RoutingUnchanged DEF IInv

LEMMA LockSetupStep == \A t \in Threads : IInv /\ LockSetup(t) => IInv'
<1> SUFFICES ASSUME NEW t \in Threads, IInv, LockSetup(t) PROVE IInv'
  OBVIOUS
<1> DEFINE c == [call[t] EXCEPT !.pc = "lock"]
<1>1. call[t] \in Calls BY DEF IInv, TypeOK
<1>2. /\ c \in Calls /\ c.pc = "lock" /\ c.op = call[t].op
      /\ c.store = call[t].store
  BY <1>1 DEF Calls
<1>3. /\ call[t].pc = "setup" /\ owner[SetupMutex] = Nobody
      /\ owner' = [owner EXCEPT ![SetupMutex] = t] /\ Call(t, c)
      /\ UNCHANGED <<handler, level, client, made, rec>>
  BY DEF LockSetup
<1>4. SetupMutex \in Mutexes BY DEF Mutexes
<1> HIDE DEF c
<1> QED BY <1>2, <1>3, <1>4, TakeStep

LEMMA LockStoreStep == \A t \in Threads : IInv /\ LockStore(t) => IInv'
<1> SUFFICES ASSUME NEW t \in Threads, IInv, LockStore(t) PROVE IInv'
  OBVIOUS
<1> DEFINE c == [call[t] EXCEPT !.pc = "held"]
<1>1. call[t] \in Calls BY DEF IInv, TypeOK
<1>2. /\ c \in Calls /\ c.pc = "held" /\ c.op = call[t].op
      /\ c.store = call[t].store
  BY <1>1 DEF Calls
<1>3. /\ call[t].pc = "lock" /\ owner[call[t].store] = Nobody
      /\ owner' = [owner EXCEPT ![call[t].store] = t] /\ Call(t, c)
      /\ UNCHANGED <<handler, level, client, made, rec>>
  BY DEF LockStore
<1>4. call[t].store \in Mutexes BY <1>1 DEF Calls, Mutexes
<1> HIDE DEF c
<1> QED BY <1>2, <1>3, <1>4, TakeStep

\* A thread that gives back the mutexes in M, which it holds, its call going on
\* as c.
LEMMA GiveStep ==
    ASSUME IInv, NEW t \in Threads, NEW c \in Calls, NEW M, Call(t, c),
           call[t].pc \in {"held", "find", "publish"},
           owner' \in [Mutexes -> Threads \cup {Nobody}],
           \A m \in Mutexes : owner'[m] = IF m \in M THEN Nobody ELSE owner[m],
           \A m \in Mutexes \cap M : owner[m] = t,
           \A u \in Threads : /\ rec'[u].pc = rec[u].pc
                             /\ rec'[u].store = rec[u].store,
           \A m \in Mutexes :
               (/\ c.op \in {"helper", "start"}
                /\ c.pc \in {"lock", "find"} /\ m = SetupMutex)
               <=> owner[m] = t /\ m \notin M,
           c.pc # "held"
    PROVE  Ownership'
<1> SUFFICES ASSUME NEW u \in Threads, NEW m \in Mutexes
             PROVE  owner'[m] = u <=> Holds(u, m)'
  BY DEF Ownership
<1>1. /\ call'[t] = c
      /\ \A v \in Threads \ {t} : call'[v] = call[v]
  BY CallStep
<1>2. Nobody # u BY LogAssumption
<1>3. owner[m] = u <=> Holds(u, m) BY DEF IInv, Ownership
<1>4. CASE u = t
  <2>1. rec'[t].pc # "held" BY DEF IInv, Calling
  <2>2. Holds(t, m)' <=> /\ c.op \in {"helper", "start"}
                         /\ c.pc \in {"lock", "find"} /\ m = SetupMutex
    BY <1>1, <2>1 DEF Holds
  <2> QED BY <1>2, <1>4, <2>2
<1>5. CASE u # t
  <2>1. Holds(u, m)' <=> Holds(u, m) BY <1>1, <1>5 DEF Holds
  <2>2. m \in M => owner[m] # u BY <1>5
  <2> QED BY <1>2, <1>3, <2>1, <2>2
<1> QED BY <1>4, <1>5

\* What the thread holds that is configuring.
LEMMA CallHolds ==
    ASSUME IInv, NEW t \in Threads, call[t].pc \in {"held", "find", "publish"}
    PROVE  \A m \in Mutexes :
               owner[m] = t <=> \/ call[t].pc = "held" /\ m = call[t].store
                                \/ /\ call[t].op \in {"helper", "start"}
                                   /\ call[t].pc \in {"held", "find"}
                                   /\ m = SetupMutex
<1>1. rec[t].pc # "held" BY DEF IInv, Calling
<1> QED BY <1>1 DEF IInv, Ownership, Holds

LEMMA WriteHandlerStep == \A t \in Threads : IInv /\ WriteHandler(t) => IInv'
<1> SUFFICES ASSUME NEW t \in Threads, IInv, WriteHandler(t) PROVE IInv'
  OBVIOUS
<1>1. /\ call[t].pc = "held" /\ call[t].op # "start"
      /\ handler' = [handler EXCEPT ![call[t].store] = call[t].sink]
      /\ rec' = Disturbed
      /\ UNCHANGED <<level, client, made>>
  BY DEF WriteHandler
<1>2. /\ rec' \in [Threads -> Records] /\ Routing'
      /\ \A u \in Threads : /\ rec'[u].pc = rec[u].pc
                            /\ rec'[u].store = rec[u].store
  BY <1>1, DisturbedStep
<1>3. call[t] \in Calls BY DEF IInv, TypeOK
<1>4. handler' \in [Stores -> Handlers]
  BY <1>1, <1>3 DEF IInv, TypeOK, Calls
<1>5. /\ owner \in [Mutexes -> Threads \cup {Nobody}]
      /\ rec[t].pc \in {"idle", "sink"}
      /\ call[t].store \in Stores /\ SetupMutex \notin Stores
      /\ Stores \subseteq Mutexes /\ Helper \in Stores
  BY <1>1, <1>3, LogAssumption DEF IInv, TypeOK, Calling, Calls, Mutexes, Stores
<1>6. \A m \in Mutexes :
          owner[m] = t <=> \/ m = call[t].store
                           \/ /\ call[t].op \in {"helper", "start"}
                              /\ m = SetupMutex
  BY <1>1, CallHolds
<1>7. CASE call[t].op = "helper" /\ call[t].store = Helper
  <2> DEFINE c == [call[t] EXCEPT !.pc = "find"]
  <2>1. owner' = [owner EXCEPT ![Helper] = Nobody] /\ Call(t, c)
    BY <1>7 DEF WriteHandler
  <2>2. c \in Calls /\ c.pc = "find" /\ c.op = "helper"
    BY <1>3, <1>7 DEF Calls
  <2> HIDE DEF c
  <2>3. /\ call' \in [Threads -> Calls] /\ call'[t] = c
        /\ \A u \in Threads \ {t} : call'[u] = call[u]
    BY <2>1, <2>2, CallStep
  <2>4. /\ owner' \in [Mutexes -> Threads \cup {Nobody}]
        /\ \A m \in Mutexes :
              owner'[m] = IF m \in {Helper} THEN Nobody ELSE owner[m]
    BY <1>5, <2>1
  <2>5. Ownership'
    <3>1. \A m \in Mutexes \cap {Helper} : owner[m] = t BY <1>6, <1>7
    <3>2. \A m \in Mutexes :
              (/\ c.op \in {"helper", "start"}
               /\ c.pc \in {"lock", "find"} /\ m = SetupMutex)
              <=> owner[m] = t /\ m \notin {Helper}
      BY <1>5, <1>6, <1>7, <2>2
    <3> QED BY <1>1, <1>2, <2>1, <2>2, <2>4, <3>1, <3>2, GiveStep
  <2>6. TypeOK' BY <1>1, <1>2, <1>4, <2>3, <2>4 DEF IInv, TypeOK
  <2>7. Calling' BY <1>2, <1>5, <2>2, <2>3 DEF IInv, Calling
  <2> QED BY <1>2, <2>5, <2>6, <2>7 DEF IInv
<1>8. CASE ~(call[t].op = "helper" /\ call[t].store = Helper)
  <2> DEFINE M == {m \in Mutexes :
                      owner[m] = t /\ m \in {SetupMutex, call[t].store}}
  <2>1. /\ owner' = [m \in Mutexes |->
                        IF owner[m] = t /\ m \in {SetupMutex, call[t].store}
                        THEN Nobody ELSE owner[m]]
        /\ Call(t, NoCall)
    BY <1>8 DEF WriteHandler
  <2>2. /\ call' \in [Threads -> Calls] /\ call'[t] = NoCall
        /\ \A u \in Threads \ {t} : call'[u] = call[u]
    BY <2>1, NoCallFacts, CallStep
  <2>3. /\ owner' \in [Mutexes -> Threads \cup {Nobody}]
        /\ \A m \in Mutexes :
              owner'[m] = IF m \in M THEN Nobody ELSE owner[m]
        /\ \A m \in Mutexes \cap M : owner[m] = t
        /\ \A m \in Mutexes : owner[m] = t => m \in M
    BY <1>5, <1>6, <2>1
  <2> HIDE DEF M
  <2>4. Ownership'
    BY <1>1, <1>2, <2>1, <2>3, NoCallFacts, GiveStep
  <2>5. TypeOK' BY <1>1, <1>2, <1>4, <2>2, <2>3 DEF IInv, TypeOK
  <2>6. Calling' BY <1>2, <2>2, NoCallFacts DEF IInv, Calling
  <2> QED BY <1>2, <2>4, <2>5, <2>6 DEF IInv
<1> QED BY <1>7, <1>8

LEMMA FindClientStep == \A t \in Threads : IInv /\ FindClient(t) => IInv'
<1> SUFFICES ASSUME NEW t \in Threads, IInv, FindClient(t) PROVE IInv'
  OBVIOUS
<1>1. call[t].pc = "find" /\ UNCHANGED <<handler, level, client, made, rec>>
  BY DEF FindClient
<1>2. /\ call[t] \in Calls /\ call[t].op = "helper"
      /\ rec[t].pc \in {"idle", "sink"}
      /\ owner \in [Mutexes -> Threads \cup {Nobody}]
  BY <1>1 DEF IInv, TypeOK, Calling
<1>3. \A m \in Mutexes : owner[m] = t <=> m = SetupMutex
  BY <1>1, <1>2, CallHolds
<1>4. CASE client = 0
  <2>1. owner' = [owner EXCEPT ![SetupMutex] = Nobody] /\ Call(t, NoCall)
    BY <1>4 DEF FindClient
  <2>2. /\ call' \in [Threads -> Calls] /\ call'[t] = NoCall
        /\ \A u \in Threads \ {t} : call'[u] = call[u]
    BY <2>1, NoCallFacts, CallStep
  <2>3. /\ owner' \in [Mutexes -> Threads \cup {Nobody}]
        /\ \A m \in Mutexes :
              owner'[m] = IF m \in {SetupMutex} THEN Nobody ELSE owner[m]
    BY <1>2, <2>1
  <2>4. Ownership'
    <3>1. \A m \in Mutexes \cap {SetupMutex} : owner[m] = t BY <1>3
    <3>2. \A m \in Mutexes : owner[m] = t => m \in {SetupMutex} BY <1>3
    <3> QED BY <1>1, <2>1, <2>3, <3>1, <3>2, NoCallFacts, GiveStep
  <2>5. TypeOK' BY <1>1, <2>2, <2>3 DEF IInv, TypeOK
  <2>6. Calling' BY <1>1, <2>2, NoCallFacts DEF IInv, Calling
  <2> QED BY <1>1, <2>4, <2>5, <2>6, RoutingUnchanged DEF IInv
<1>5. CASE client # 0
  <2> DEFINE c == [call[t] EXCEPT !.pc = "lock", !.store = client]
  <2>1. owner' = owner /\ Call(t, c) BY <1>5 DEF FindClient
  <2>2. client \in Stores
    BY <1>5, LogAssumption DEF IInv, TypeOK, Stores, Clients
  <2>3. c \in Calls /\ c.pc = "lock" /\ c.op = "helper"
    BY <1>2, <2>2 DEF Calls
  <2> HIDE DEF c
  <2>4. /\ call' \in [Threads -> Calls] /\ call'[t] = c
        /\ \A u \in Threads \ {t} : call'[u] = call[u]
    BY <2>1, <2>3, CallStep
  <2>5. Ownership'
    <3>1. \A u \in Threads, m \in Mutexes : Holds(u, m)' <=> Holds(u, m)
      BY <1>1, <1>2, <2>3, <2>4 DEF Holds
    <3> QED BY <2>1, <3>1 DEF IInv, Ownership
  <2>6. TypeOK' BY <1>1, <2>1, <2>4 DEF IInv, TypeOK
  <2>7. Calling' BY <1>1, <1>2, <2>3, <2>4 DEF IInv, Calling
  <2> QED BY <1>1, <2>5, <2>6, <2>7, RoutingUnchanged DEF IInv
<1> QED BY <1>4, <1>5

LEMMA CopyToClientStep == \A t \in Threads : IInv /\ CopyToClient(t) => IInv'
<1> SUFFICES ASSUME NEW t \in Threads, IInv, CopyToClient(t) PROVE IInv'
  OBVIOUS
<1> DEFINE c == [call[t] EXCEPT !.pc = "publish"]
<1>1. /\ call[t].pc = "held" /\ call[t].op = "start"
      /\ handler' = [handler EXCEPT ![made] = handler[Helper]]
      /\ rec' = Disturbed
      /\ owner' = [owner EXCEPT ![Helper] = Nobody, ![SetupMutex] = Nobody]
      /\ Call(t, c)
      /\ UNCHANGED <<level, client, made>>
  BY DEF CopyToClient
<1>2. /\ rec' \in [Threads -> Records] /\ Routing'
      /\ \A u \in Threads : /\ rec'[u].pc = rec[u].pc
                            /\ rec'[u].store = rec[u].store
  BY <1>1, DisturbedStep
<1>3. /\ call[t] \in Calls /\ call[t].store = Helper
      /\ rec[t].pc \in {"idle", "sink"}
      /\ owner \in [Mutexes -> Threads \cup {Nobody}]
  BY <1>1 DEF IInv, TypeOK, Calling
<1>4. c \in Calls /\ c.pc = "publish" /\ c.op = "start" /\ c.store = Helper
  BY <1>1, <1>3 DEF Calls
<1> HIDE DEF c
<1>5. /\ call' \in [Threads -> Calls] /\ call'[t] = c
      /\ \A u \in Threads \ {t} : call'[u] = call[u]
  BY <1>1, <1>4, CallStep
<1>6. handler' \in [Stores -> Handlers]
  BY <1>1 DEF IInv, TypeOK, Stores
<1>7. /\ owner' \in [Mutexes -> Threads \cup {Nobody}]
      /\ \A m \in Mutexes :
            owner'[m] = IF m \in {Helper, SetupMutex} THEN Nobody ELSE owner[m]
  BY <1>1, <1>3
<1>8. Ownership'
  <2>1. \A m \in Mutexes : owner[m] = t <=> m \in {Helper, SetupMutex}
    BY <1>1, <1>3, CallHolds
  <2>2. \A m \in Mutexes \cap {Helper, SetupMutex} : owner[m] = t BY <2>1
  <2>3. \A m \in Mutexes : owner[m] = t => m \in {Helper, SetupMutex} BY <2>1
  <2> QED BY <1>1, <1>2, <1>4, <1>7, <2>2, <2>3, GiveStep
<1>9. TypeOK' BY <1>1, <1>2, <1>5, <1>6, <1>7 DEF IInv, TypeOK
<1>10. Calling' BY <1>2, <1>3, <1>4, <1>5 DEF IInv, Calling
<1> QED BY <1>2, <1>8, <1>9, <1>10 DEF IInv

LEMMA PublishClientStep == \A t \in Threads : IInv /\ PublishClient(t) => IInv'
<1> SUFFICES ASSUME NEW t \in Threads, IInv, PublishClient(t) PROVE IInv'
  OBVIOUS
<1>1. /\ call[t].pc = "publish" /\ client' = made /\ Call(t, NoCall)
      /\ UNCHANGED <<handler, level, owner, made, rec>>
  BY DEF PublishClient
<1>2. /\ call' \in [Threads -> Calls] /\ call'[t] = NoCall
      /\ \A u \in Threads \ {t} : call'[u] = call[u]
  BY <1>1, NoCallFacts, CallStep
<1>3. TypeOK' BY <1>1, <1>2, LogAssumption DEF IInv, TypeOK
<1>4. Calling' BY <1>1, <1>2, NoCallFacts DEF IInv, Calling
<1>5. Ownership'
  <2>1. rec[t].pc # "held" BY <1>1 DEF IInv, Calling
  <2>2. \A u \in Threads, m \in Mutexes : Holds(u, m)' <=> Holds(u, m)
    BY <1>1, <1>2, <2>1, NoCallFacts DEF Holds
  <2> QED BY <1>1, <2>2 DEF IInv, Ownership
<1> QED BY <1>1, <1>3, <1>4, <1>5, RoutingUnchanged DEF IInv
-----------------------------------------------------------------------------
(* The theorems *)

LEMMA InitIInv == Init => IInv
<1> SUFFICES ASSUME Init PROVE IInv
  OBVIOUS
<1>1. \A t \in Threads : rec[t] = NoRecord /\ call[t] = NoCall BY DEF Init
<1>2. TypeOK
  BY NoRecordFacts, NoCallFacts, LogAssumption
  DEF Init, TypeOK, Handlers, Levels
<1>3. Routing /\ Calling
  BY <1>1, NoRecordFacts, NoCallFacts DEF Routing, Calling
<1>4. Ownership
  BY <1>1, NoRecordFacts, NoCallFacts, LogAssumption
  DEF Init, Ownership, Holds
<1> QED BY <1>2, <1>3, <1>4 DEF IInv

LEMMA NextIInv == IInv /\ [Next]_vars => IInv'
<1> SUFFICES ASSUME IInv, [Next]_vars PROVE IInv'
  OBVIOUS
<1>1. ASSUME NEW t \in Threads, Begin(t) PROVE IInv'
  BY <1>1, EmitStep, SetLevelStep, SetHandlerStep, StartStep, StopStep DEF Begin
<1>2. ASSUME NEW t \in Threads, Emission(t) PROVE IInv'
  BY <1>2, CheckStep, LockHandlerStep, CopyHandlerStep, SinkReturnsStep
  DEF Emission
<1>3. ASSUME NEW t \in Threads, Configuration(t) PROVE IInv'
  BY <1>3, LockSetupStep, LockStoreStep, WriteHandlerStep, FindClientStep,
     CopyToClientStep, PublishClientStep
  DEF Configuration
<1>4. CASE UNCHANGED vars
  <2>1. UNCHANGED <<handler, level, owner, client, made, rec, call>>
    BY <1>4 DEF vars
  <2>2. TypeOK' BY <2>1 DEF IInv, TypeOK
  <2>3. Calling' /\ Ownership' BY <2>1 DEF IInv, Calling, Ownership, Holds
  <2> QED BY <2>1, <2>2, <2>3, RoutingUnchanged DEF IInv
<1> QED BY <1>1, <1>2, <1>3, <1>4 DEF Next

\* The inductive invariant holds of every reachable state.
THEOREM Invariance == Spec => []IInv
BY InitIInv, NextIInv, PTL DEF Spec

\* log.hpp:150-157: a record that nobody disturbs by reconfiguring reaches the
\* handler of its object, else the process wide one, else the built-in one, and
\* only at an enabled level.
THEOREM RoutedRight == Spec => []RoutedAsConfigured
<1>1. IInv => RoutedAsConfigured
  <2> SUFFICES ASSUME IInv, NEW t \in Threads, rec[t].pc = "sink", rec[t].calm
               PROVE  /\ rec[t].sink = Resolve(rec[t].from)
                      /\ rec[t].level >= level
    BY DEF RoutedAsConfigured
  <2> QED BY DEF IInv, Routing, Halfway
<1> QED BY <1>1, Invariance, PTL

\* log.hpp:91-93: no lock of the library is held while a sink runs.
THEOREM SinksUnlocked == Spec => []SinksRunUnlocked
<1>1. IInv => SinksRunUnlocked
  BY DEF IInv, Ownership, Holds, SinksRunUnlocked
<1> QED BY <1>1, Invariance, PTL

\* mqtt_helper.hpp:195-205 and log.hpp:70-78: the locks are taken in one order,
\* whichever threads log and configure, in or outside a sink.
THEOREM LocksOrdered == Spec => []LockOrder
<1>1. IInv => LockOrder
  <2> SUFFICES ASSUME IInv, NEW t \in Threads
               PROVE  /\ (\E m \in Stores : owner[m] = t)
                            => /\ rec[t].pc # "lock"
                               /\ call[t].pc \notin {"setup", "lock"}
                      /\ owner[SetupMutex] = t
                            => rec[t].pc # "lock" /\ call[t].pc # "setup"
    BY DEF LockOrder
  <2>1. \A m \in Mutexes : owner[m] = t => Holds(t, m)
    BY DEF IInv, Ownership
  <2>2. call[t].pc # "none" => rec[t].pc \in {"idle", "sink"}
    BY DEF IInv, Calling
  <2>3. Stores \subseteq Mutexes /\ SetupMutex \in Mutexes BY DEF Mutexes
  <2>4. SetupMutex \notin Stores BY LogAssumption
  <2> QED BY <2>1, <2>2, <2>3, <2>4 DEF Holds
<1> QED BY <1>1, Invariance, PTL
=============================================================================
