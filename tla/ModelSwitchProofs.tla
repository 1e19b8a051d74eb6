-------------------------- MODULE ModelSwitchProofs --------------------------
(* Theorems about ModelSwitch and the instances TLC checks, for any models,    *)
(* workers, requests and bounds: the types; that a switch leaves everyone with *)
(* one model; that the workers are ready for what may come next; and that a    *)
(* request runs on its own model.                                              *)
EXTENDS MCModelSwitch, TLAPS

-----------------------------------------------------------------------------
(* The protocol between the manager and the engine core: what must be known    *)
(* of the two for the types to be kept, whatever fails.                        *)
InInbox(name) == \E i \in DOMAIN inbox : inbox[i].call = name

(* The manager waits for exactly one of: its call to be taken, the call to     *)
(* end, its own reading of the reply.                                          *)
Phases ==
  /\ manager.phase # "reconfigure" => core.pc = "ready" /\ core.reply = NONE /\ ~InInbox("reconfigure")
  /\ manager.phase # "recover" => ~InInbox("resume")
  /\ InInbox("reconfigure") => core.pc = "ready" /\ core.reply = NONE
  /\ \A i, j \in DOMAIN inbox : inbox[i].call = "reconfigure" /\ inbox[j].call = "reconfigure" => i = j
  /\ core.pc # "ready" => core.reply = NONE
  /\ manager.phase \in {"drain", "reconfigure"} => manager.target # manager.current

(* While the engine core reconfigures, it does so between the manager's two    *)
(* models.                                                                     *)
Reconfiguring ==
  core.pc # "ready" => core.new = manager.target /\ core.previous \in Models

Requested ==
  /\ \A i \in DOMAIN inbox : inbox[i].call = "add_request" => inbox[i].req \in Requests
  /\ frontend.processor \leq manager.switches
  /\ manager.phase # "idle" => frontend.processor < manager.switches

TypeInv == TypeOK /\ Phases /\ Reconfiguring /\ Requested

-----------------------------------------------------------------------------
(* Which model everyone means.                                                 *)
Recoverable ==
  /\ \A m, n \in Models : KeyOf[m] = KeyOf[n] => m = n
  /\ Marked = {TRUE}
  /\ FailAt \subseteq {"normalize", "pause", "sleep", "load", "kv"}

Means(w, m) == w.config = m /\ w.runner.model = m
HasStashed(w, m) == w.stash[KeyOf[m]].runner.model = m

(* A stash has the runner of the model whose key it has, or none.              *)
ByKey(w) == \A m \in Models : w.stash[KeyOf[m]].runner.model \in {m, NONE}
StashedByKey == \A w \in Workers : ByKey(worker[w])

(* The model the engine core serves when it is ready.                          *)
Served == IF core.reply = "ok" THEN manager.target ELSE manager.current

Settled ==
  core.pc = "ready" =>
    /\ core.config = Served /\ core.scheduler = Served
    /\ \A w \in Workers : Means(worker[w], Served)

(* What each step of the reconfiguration finds.                                *)
Underway ==
  core.pc # "ready" =>
    /\ core.previous = manager.current
    /\ core.scheduler = IF core.pc = "resume" THEN core.new ELSE core.previous
    /\ core.pc \in {"rebuild", "resume"} => core.config = core.new
    /\ core.pc \in {"normalize", "pause", "sleep", "unload"} =>
         /\ ~core.stash_created
         /\ \A w \in Workers : Means(worker[w], core.previous)
    /\ core.pc \in {"load", "kv", "rebuild", "resume"} =>
         /\ core.stash_created
         /\ \A w \in Workers : HasStashed(worker[w], core.previous)
    /\ core.pc \in {"kv", "rebuild", "resume"} => \A w \in Workers : Means(worker[w], core.new)
    /\ core.pc = "rollback" =>
         \A w \in Workers : IF core.stash_created THEN HasStashed(worker[w], core.previous)
                            ELSE Means(worker[w], core.previous)

(* The manager and the frontend change their model together.                   *)
OneServed ==
  /\ frontend.config = manager.current
  /\ {m \in Models : manager.sleeping[m] = "no"} = {manager.current}

AgreeInv == TypeInv /\ StashedByKey /\ Settled /\ Underway /\ OneServed

-----------------------------------------------------------------------------
(* What the workers' device state is.                                          *)
Undisturbed == FailAt \subseteq {"pause", "load", "kv"} /\ WakeTags \subseteq {Tags}

Awake(w, m) ==
  /\ w.runner.model = m /\ w.runner.on_hpu /\ w.runner.kv_caches = m
  /\ ~w.model_sleeping /\ ~w.kv_cache_sleeping /\ w.kv_cache_config = m

(* A runner, with its flags, in the worker or in its stash.                    *)
IsAsleep(s, m) ==
  /\ s.runner.model = m /\ ~s.runner.on_hpu /\ s.runner.kv_caches = NONE
  /\ s.model_sleeping /\ s.kv_cache_sleeping /\ s.kv_cache_config = m

KeptAsleep(w) == \A m \in Models : w.stash[KeyOf[m]] = NoStash \/ IsAsleep(w.stash[KeyOf[m]], m)
StashAsleep == \A w \in Workers : KeptAsleep(worker[w])

(* Tags are slept and woken together.                                          *)
TagsTogether ==
  /\ core.sleeping_tags \in {{}, Tags}
  /\ \A i \in DOMAIN inbox : inbox[i].call = "wake_up" => inbox[i].tags = Tags

(* After a rollback the workers are awake, and the executor's tags still say   *)
(* asleep, until the manager's wake-up call is taken.                          *)
Behind ==
  \/ manager.phase = "reconfigure" /\ core.reply = "error"
  \/ manager.phase = "recover" /\ InInbox("resume")

WakesFirst ==
  \A i \in DOMAIN inbox : inbox[i].call = "resume" =>
    IF i = 1 THEN core.sleeping_tags = {} ELSE inbox[i - 1].call = "wake_up"

DeviceState ==
  /\ core.pc \in {"ready", "normalize", "pause", "sleep"} =>
       \/ core.sleeping_tags = {} /\ \A w \in Workers : Awake(worker[w], core.scheduler)
       \/ core.sleeping_tags = Tags /\ core.paused /\ \A w \in Workers : IsAsleep(worker[w], core.scheduler)
       \/ core.sleeping_tags = Tags /\ Behind /\ \A w \in Workers : Awake(worker[w], core.scheduler)
  /\ core.pc = "unload" => \A w \in Workers : IsAsleep(worker[w], core.previous)
  /\ core.pc = "load" => \A w \in Workers : ~worker[w].model_sleeping /\ ~worker[w].kv_cache_sleeping
  /\ core.pc = "kv" => \A w \in Workers :
       worker[w].runner.on_hpu /\ ~worker[w].model_sleeping /\ ~worker[w].kv_cache_sleeping
  /\ core.pc \in {"rebuild", "resume"} => \A w \in Workers : Awake(worker[w], core.new)
  /\ core.pc \notin {"ready", "normalize", "pause", "sleep"} => core.sleeping_tags = Tags
  /\ core.pc = "rollback" => core.stash_created

ReadyInv == AgreeInv /\ StashAsleep /\ TagsTogether /\ WakesFirst /\ DeviceState

-----------------------------------------------------------------------------
(* Whose requests the scheduler has.                                           *)
QueuedInTime ==
  \A i \in DOMAIN inbox : inbox[i].call = "add_request" =>
    /\ req[inbox[i].req].at # "client" /\ req[inbox[i].req].model = manager.current
    /\ \/ manager.phase \in {"idle", "drain"}
       \/ \E j \in DOMAIN inbox : i < j /\ inbox[j].call = "reconfigure"

ScheduledOwn ==
  \A q \in Requests :
    /\ req[q].at = "scheduled" => req[q].model = core.scheduler
    /\ req[q].at = "client" => ran[q] = NONE

OwnInv == AgreeInv /\ QueuedInTime /\ ScheduledOwn /\ RanOnOwnModel
-----------------------------------------------------------------------------
(* What the operations on a worker do to the parts the invariants are about.   *)
LEMMA SleepKeeps ==
  ASSUME NEW w \in WorkerType
  PROVE  /\ sleep(w) \in WorkerType
         /\ sleep(w).config = w.config /\ sleep(w).runner.model = w.runner.model /\ sleep(w).stash = w.stash
<1>1. SleepModel(w) \in WorkerType
      /\ SleepModel(w).config = w.config /\ SleepModel(w).runner.model = w.runner.model
      /\ SleepModel(w).stash = w.stash
  BY DEF SleepModel, WorkerType, RunnerType
<1>2. ASSUME NEW v \in WorkerType
      PROVE  SleepCache(v) \in WorkerType
             /\ SleepCache(v).config = v.config /\ SleepCache(v).runner.model = v.runner.model
             /\ SleepCache(v).stash = v.stash
  BY ZenonT(30) DEF SleepCache, WorkerType, RunnerType
<1>3. QED BY <1>1, <1>2 DEF sleep

LEMMA WakeModelKeeps ==
  ASSUME NEW w \in WorkerType
  PROVE  /\ WakeModel(w) \in WorkerType
         /\ WakeModel(w).config = w.config /\ WakeModel(w).runner.model = w.runner.model
         /\ WakeModel(w).stash = w.stash
BY DEF WakeModel, WorkerType, RunnerType

LEMMA WakeCacheKeeps ==
  ASSUME NEW w \in WorkerType
  PROVE  /\ WakeCache(w) \in WorkerType
         /\ WakeCache(w).config = w.config /\ WakeCache(w).runner.model = w.runner.model
         /\ WakeCache(w).stash = w.stash
BY DEF WakeCache, WorkerType, RunnerType

LEMMA WakeKeeps ==
  ASSUME NEW w \in WorkerType, NEW tags
  PROVE  /\ wake_up(w, tags) \in WorkerType
         /\ wake_up(w, tags).config = w.config /\ wake_up(w, tags).runner.model = w.runner.model
         /\ wake_up(w, tags).stash = w.stash
BY WakeModelKeeps, WakeCacheKeeps DEF wake_up

LEMMA Unloads ==
  ASSUME NEW w \in WorkerType
  PROVE  /\ unload_model(w) \in WorkerType
         /\ unload_model(w).config = w.config
         /\ ~unload_model(w).model_sleeping /\ ~unload_model(w).kv_cache_sleeping
         /\ w.runner.model # NONE =>
              unload_model(w).stash = [w.stash EXCEPT ![KeyOf[w.runner.model]] =
                [runner |-> w.runner, model_sleeping |-> w.model_sleeping,
                 kv_cache_sleeping |-> w.kv_cache_sleeping, kv_cache_config |-> w.kv_cache_config]]
<1> DEFINE stashed == [runner |-> w.runner, model_sleeping |-> w.model_sleeping,
                       kv_cache_sleeping |-> w.kv_cache_sleeping, kv_cache_config |-> w.kv_cache_config]
           gone == [w EXCEPT !.stash[KeyOf[w.runner.model]] = stashed, !.runner = NoRunner]
<1>1. stashed \in StashType /\ NoRunner \in RunnerType
  BY DEF WorkerType, StashType, RunnerType, NoRunner
<1>2. CASE w.runner.model = NONE
  BY <1>2 DEF unload_model, WorkerType
<1>3. CASE w.runner.model # NONE
  <2>1. w.runner.model \in Models
    BY <1>3 DEF WorkerType, RunnerType
  <2>2. KeyOf[w.runner.model] \in Keys
    BY <2>1 DEF Keys
  <2>3. [w.stash EXCEPT ![KeyOf[w.runner.model]] = stashed] \in [Keys -> StashType]
    BY <1>1 DEF WorkerType
  <2>4. /\ gone \in WorkerType /\ gone.config = w.config
        /\ gone.stash = [w.stash EXCEPT ![KeyOf[w.runner.model]] = stashed]
    <3> HIDE DEF stashed
    <3> QED BY <1>1, <2>3 DEF WorkerType
  <2>5. unload_model(w) = [gone EXCEPT !.model_sleeping = FALSE, !.kv_cache_sleeping = FALSE]
    BY <1>3 DEF unload_model
  <2> HIDE DEF gone
  <2>6. QED BY <2>4, <2>5 DEF WorkerType
<1>4. QED BY <1>2, <1>3

LEMMA UnstashedFacts ==
  ASSUME NEW w \in WorkerType, NEW k \in Keys, w.stash[k].runner.model # NONE
  PROVE  /\ Unstashed(w, k) \in WorkerType
         /\ Unstashed(w, k).config = w.stash[k].runner.model
         /\ Unstashed(w, k).runner = w.stash[k].runner
         /\ Unstashed(w, k).stash = [w.stash EXCEPT ![k] = NoStash]
<1>1. NoStash \in StashType
  BY DEF NoStash, NoRunner, StashType, RunnerType
<1>2. w.stash[k] \in StashType
  BY DEF WorkerType
<1>3. w.stash[k].runner.model \in Models
  BY <1>2 DEF StashType, RunnerType
<1>4. QED BY <1>1, <1>2, <1>3 DEF Unstashed, WorkerType, StashType

LEMMA InitializeKeeps ==
  ASSUME NEW w \in WorkerType, NEW m \in Models
  PROVE  /\ initialize_from_config(w, m) \in WorkerType
         /\ initialize_from_config(w, m).config = w.config
         /\ initialize_from_config(w, m).runner.model = w.runner.model
         /\ initialize_from_config(w, m).stash = w.stash
BY DEF initialize_from_config, WorkerType, RunnerType

LEMMA RestoreKeeps ==
  ASSUME NEW w \in WorkerType, NEW m \in Models, NEW kv \in BOOLEAN
  PROVE  /\ restore_stashed_model(w, m, kv) \in WorkerType
         /\ ~Stashed(w, m) => restore_stashed_model(w, m, kv) = w
         /\ Stashed(w, m) =>
              /\ restore_stashed_model(w, m, kv).config = w.stash[KeyOf[m]].runner.model
              /\ restore_stashed_model(w, m, kv).runner.model = w.stash[KeyOf[m]].runner.model
              /\ restore_stashed_model(w, m, kv).stash = [w.stash EXCEPT ![KeyOf[m]] = NoStash]
<1>1. CASE ~Stashed(w, m)
  BY <1>1 DEF restore_stashed_model
<1>2. CASE Stashed(w, m)
  <2> DEFINE u == Unstashed(w, KeyOf[m])
             v == WakeModel(u)
  <2>1. KeyOf[m] \in Keys /\ w.stash[KeyOf[m]].runner.model # NONE
    BY <1>2 DEF Keys, Stashed
  <2>2. /\ u \in WorkerType /\ u.config = w.stash[KeyOf[m]].runner.model
        /\ u.runner.model = w.stash[KeyOf[m]].runner.model
        /\ u.stash = [w.stash EXCEPT ![KeyOf[m]] = NoStash]
    BY <2>1, UnstashedFacts
  <2> HIDE DEF u
  <2>3. v \in WorkerType /\ v.config = u.config /\ v.runner.model = u.runner.model /\ v.stash = u.stash
    BY <2>2, WakeModelKeeps
  <2>4. restore_stashed_model(w, m, kv) = IF kv THEN WakeCache(v) ELSE [v EXCEPT !.kv_cache_sleeping = FALSE]
    BY <1>2 DEF restore_stashed_model, u, v
  <2> HIDE DEF v
  <2>5. CASE kv
    BY <1>2, <2>2, <2>3, <2>4, <2>5, WakeCacheKeeps
  <2>6. CASE ~kv
    BY <1>2, <2>2, <2>3, <2>4, <2>6 DEF WorkerType
  <2>7. QED BY <2>5, <2>6
<1>3. QED BY <1>1, <1>2

(* A load, finished or not, ends with the config of m, or of what its stash    *)
(* had, and takes from the stash at most that.                                 *)
LEMMA LoadKeeps ==
  ASSUME NEW w \in WorkerType, NEW m \in Models
  PROVE  /\ load_model(w, m) \in WorkerType
         /\ load_model(w, m).config = load_model(w, m).runner.model
         /\ load_model(w, m).config = IF Stashed(w, m) THEN w.stash[KeyOf[m]].runner.model ELSE m
         /\ load_model(w, m).stash = IF Stashed(w, m) THEN [w.stash EXCEPT ![KeyOf[m]] = NoStash] ELSE w.stash
<1>1. CASE Stashed(w, m)
  <2> DEFINE v == [w EXCEPT !.config = m]
  <2>1. v \in WorkerType /\ v.stash = w.stash
    BY DEF WorkerType
  <2>2. Stashed(v, m)
    BY <1>1, <2>1 DEF Stashed
  <2>3. load_model(w, m) = restore_stashed_model(v, m, FALSE)
    BY <1>1 DEF load_model
  <2> HIDE DEF v
  <2>4. FALSE \in BOOLEAN
    OBVIOUS
  <2>5. /\ restore_stashed_model(v, m, FALSE) \in WorkerType
        /\ restore_stashed_model(v, m, FALSE).config = v.stash[KeyOf[m]].runner.model
        /\ restore_stashed_model(v, m, FALSE).runner.model = v.stash[KeyOf[m]].runner.model
        /\ restore_stashed_model(v, m, FALSE).stash = [v.stash EXCEPT ![KeyOf[m]] = NoStash]
    BY <2>1, <2>2, <2>4, RestoreKeeps, Zenon
  <2>6. QED BY <1>1, <2>1, <2>3, <2>5
<1>2. CASE ~Stashed(w, m)
  <2>1. load_model(w, m) =
          [w EXCEPT !.config = m, !.runner = [NoRunner EXCEPT !.model = m, !.on_hpu = TRUE],
                    !.model_sleeping = FALSE, !.kv_cache_sleeping = FALSE]
    BY <1>2 DEF load_model
  <2>2. [NoRunner EXCEPT !.model = m, !.on_hpu = TRUE] \in RunnerType
        /\ [NoRunner EXCEPT !.model = m, !.on_hpu = TRUE].model = m
    BY DEF NoRunner, RunnerType
  <2>3. QED BY <1>2, <2>1, <2>2 DEF WorkerType
<1>3. QED BY <1>1, <1>2

LEMMA LoadFailedKeeps ==
  ASSUME NEW w \in WorkerType, NEW m \in Models, NEW built \in BOOLEAN
  PROVE  /\ LoadFailed(w, m, built) \in WorkerType
         /\ LoadFailed(w, m, built).stash =
              IF Stashed(w, m) THEN [w.stash EXCEPT ![KeyOf[m]] = NoStash] ELSE w.stash
<1>1. CASE Stashed(w, m)
  <2>1. KeyOf[m] \in Keys /\ w.stash[KeyOf[m]].runner.model # NONE
    BY <1>1 DEF Keys, Stashed
  <2>2. QED BY <1>1, <2>1, UnstashedFacts DEF LoadFailed
<1>2. CASE ~Stashed(w, m)
  <2>1. [NoRunner EXCEPT !.model = m] \in RunnerType /\ NoRunner \in RunnerType
    BY DEF NoRunner, RunnerType
  <2>2. LoadFailed(w, m, built) =
          [w EXCEPT !.config = m, !.runner = IF built THEN [NoRunner EXCEPT !.model = m] ELSE NoRunner]
    BY <1>2 DEF LoadFailed
  <2>3. QED BY <1>2, <2>1, <2>2 DEF WorkerType
<1>3. QED BY <1>1, <1>2

-----------------------------------------------------------------------------
(* The inbox after a call is sent and after one is taken.                      *)
LEMMA Sent ==
  ASSUME NEW s \in Seq(CallType), NEW c \in CallType
  PROVE  /\ Append(s, c) \in Seq(CallType)
         /\ DOMAIN s = 1..Len(s) /\ Len(s) \in Nat
         /\ DOMAIN Append(s, c) = 1..(Len(s) + 1)
         /\ \A i \in DOMAIN s : Append(s, c)[i] = s[i]
         /\ Append(s, c)[Len(s) + 1] = c
OBVIOUS

LEMMA Taken ==
  ASSUME NEW s \in Seq(CallType), s # <<>>
  PROVE  /\ Tail(s) \in Seq(CallType)
         /\ DOMAIN s = 1..Len(s) /\ Len(s) \in Nat \ {0}
         /\ Head(s) = s[1] /\ s[1] \in CallType
         /\ DOMAIN Tail(s) = 1..(Len(s) - 1)
         /\ \A i \in DOMAIN Tail(s) : Tail(s)[i] = s[i + 1] /\ i + 1 \in DOMAIN s
OBVIOUS

LEMMA CallTypes ==
  /\ \A name \in {"sleep", "resume", "reconfigure"} : Call(name) \in CallType /\ Call(name).call = name
  /\ \A tags \in SUBSET Tags :
       WakeCall(tags) \in CallType /\ WakeCall(tags).call = "wake_up" /\ WakeCall(tags).tags = tags
  /\ \A q \in Requests : LET c == [Call("add_request") EXCEPT !.req = q] IN
       c \in CallType /\ c.call = "add_request" /\ c.req = q
BY DEF Call, WakeCall, CallType

-----------------------------------------------------------------------------
(* The types, through the two kinds of steps that leave the manager alone.     *)
LEMMA StepTypes ==
  ASSUME TypeInv, core.pc # "ready", UNCHANGED <<manager, frontend, inbox, ran>>,
         core' \in CoreType, core'.pc # "ready" => UNCHANGED <<core.reply, core.new, core.previous>>,
         worker' \in [Workers -> WorkerType], req' \in [Requests -> RequestType]
  PROVE  TypeInv'
BY DEF TypeInv, TypeOK, Phases, InInbox, Reconfiguring, Requested

LEMMA TakeTypes ==
  ASSUME TypeInv, core.pc = "ready", inbox # <<>>, inbox' = Tail(inbox),
         UNCHANGED <<manager, frontend, ran>>,
         core' \in CoreType, UNCHANGED <<core.pc, core.reply>>,
         worker' \in [Workers -> WorkerType], req' \in [Requests -> RequestType]
  PROVE  TypeInv'
<1>1. inbox \in Seq(CallType)
  BY DEF TypeInv, TypeOK
<1>2. /\ inbox' \in Seq(CallType)
      /\ \A i \in DOMAIN inbox' : i \in Nat /\ inbox'[i] = inbox[i + 1] /\ i + 1 \in DOMAIN inbox
  BY <1>1, Taken
<1>3. TypeOK'
  BY <1>2 DEF TypeInv, TypeOK
<1>4. Phases'
  BY <1>2 DEF TypeInv, Phases, InInbox
<1>5. Reconfiguring' /\ Requested'
  BY <1>2 DEF TypeInv, Reconfiguring, Requested
<1>6. QED BY <1>3, <1>4, <1>5 DEF TypeInv

(* The steps of the frontend and of its clients.                               *)
LEMMA FrontendTypes ==
  ASSUME TypeInv,
         \/ \E q \in Requests : Submit(q) \/ Deliver(q) \/ Execute(q)
         \/ SleepEndpoint \/ \E tags \in WakeTags : WakeEndpoint(tags)
  PROVE  TypeInv'
<1>1. ASSUME NEW q \in Requests, Submit(q)
      PROVE  TypeInv'
  <2> DEFINE c == [Call("add_request") EXCEPT !.req = q]
  <2>1. c \in CallType /\ c.call = "add_request" /\ c.req = q
    BY CallTypes
  <2> HIDE DEF c
  <2>2. inbox' = Append(inbox, c) /\ UNCHANGED <<manager, frontend, core, worker, ran>>
    BY <1>1 DEF Submit, c
  <2>3. inbox \in Seq(CallType)
    BY DEF TypeInv, TypeOK
  <2>4. /\ inbox' \in Seq(CallType)
        /\ \A i \in DOMAIN inbox' : inbox'[i] = c \/ (i \in DOMAIN inbox /\ inbox'[i] = inbox[i])
    BY <2>1, <2>2, <2>3, Sent
  <2>5. req' \in [Requests -> RequestType]
    BY <1>1 DEF Submit, TypeInv, TypeOK, RequestType
  <2>6. TypeOK'
    BY <2>2, <2>4, <2>5 DEF TypeInv, TypeOK
  <2>7. Phases'
    BY <2>1, <2>2, <2>4 DEF TypeInv, Phases, InInbox
  <2>8. Reconfiguring' /\ Requested'
    BY <2>1, <2>2, <2>4 DEF TypeInv, Reconfiguring, Requested
  <2>9. QED BY <2>6, <2>7, <2>8 DEF TypeInv
<1>2. ASSUME NEW q \in Requests, Deliver(q)
      PROVE  TypeInv'
  <2>1. UNCHANGED <<manager, frontend, core, inbox, worker, ran>> /\ req' \in [Requests -> RequestType]
    <3>1. req \in [Requests -> RequestType]
      BY DEF TypeInv, TypeOK
    <3>2. \E a \in {"answered", "lost"} : req' = [req EXCEPT ![q].at = a]
      BY <1>2 DEF Deliver
    <3>3. req' \in [Requests -> RequestType]
      BY <3>1, <3>2 DEF RequestType
    <3>4. QED BY <1>2, <3>3 DEF Deliver
  <2>2. QED BY <2>1 DEF TypeInv, TypeOK, Phases, InInbox, Reconfiguring, Requested
<1>3. ASSUME NEW q \in Requests, Execute(q)
      PROVE  TypeInv'
  <2>1. /\ UNCHANGED <<manager, frontend, core, inbox, worker>>
        /\ req' = [req EXCEPT ![q].at = "output"] /\ ran' = [ran EXCEPT ![q] = core.scheduler]
    BY <1>3 DEF Execute
  <2>2. /\ req \in [Requests -> RequestType] /\ ran \in [Requests -> Models \union {NONE}]
        /\ core.scheduler \in Models
    BY DEF TypeInv, TypeOK, CoreType
  <2>3. ran' \in [Requests -> Models \union {NONE}]
    BY <2>1, <2>2
  <2>4. req' \in [Requests -> RequestType]
    BY <2>1, <2>2 DEF RequestType
  <2>5. QED BY <2>1, <2>3, <2>4 DEF TypeInv, TypeOK, Phases, InInbox, Reconfiguring, Requested
<1>4. ASSUME NEW c \in CallType, c.call \in {"sleep", "wake_up"}, inbox' = Append(inbox, c),
             manager' \in ManagerType,
             UNCHANGED <<manager.current, manager.phase, manager.target, manager.switches>>,
             UNCHANGED <<frontend, core, worker, req, ran>>
      PROVE  TypeInv'
  <2>1. inbox \in Seq(CallType)
    BY DEF TypeInv, TypeOK
  <2>2. /\ inbox' \in Seq(CallType)
        /\ \A i \in DOMAIN inbox' : inbox'[i] = c \/ (i \in DOMAIN inbox /\ inbox'[i] = inbox[i])
    BY <1>4, <2>1, Sent
  <2>3. TypeOK'
    BY <1>4, <2>2 DEF TypeInv, TypeOK
  <2>4. Phases'
    BY <1>4, <2>2 DEF TypeInv, Phases, InInbox
  <2>5. Reconfiguring' /\ Requested'
    BY <1>4, <2>2 DEF TypeInv, Reconfiguring, Requested
  <2>6. QED BY <2>3, <2>4, <2>5 DEF TypeInv
<1>5. CASE SleepEndpoint
  <2>1. /\ manager' \in ManagerType
        /\ UNCHANGED <<manager.current, manager.phase, manager.target, manager.switches>>
    <3>1. manager \in ManagerType /\ manager.sleeps + 1 \in 0..MaxSleeps
      BY <1>5, SwitchAssumption DEF SleepEndpoint, TypeInv, TypeOK, ManagerType
    <3>2. QED BY <1>5, <3>1 DEF SleepEndpoint, ManagerType
  <2>2. Call("sleep") \in CallType /\ Call("sleep").call = "sleep"
    BY CallTypes
  <2>3. QED BY <1>4, <1>5, <2>1, <2>2 DEF SleepEndpoint
<1>6. ASSUME NEW tags \in WakeTags, WakeEndpoint(tags)
      PROVE  TypeInv'
  <2>1. tags \in SUBSET Tags
    BY SwitchAssumption
  <2>2. WakeCall(tags) \in CallType /\ WakeCall(tags).call = "wake_up"
    BY <2>1, CallTypes
  <2>3. manager \in ManagerType
    BY DEF TypeInv, TypeOK
  <2>4. QED BY <1>4, <1>6, <2>2, <2>3 DEF WakeEndpoint
<1>7. QED BY <1>1, <1>2, <1>3, <1>5, <1>6

(* The manager's own steps.                                                    *)
LEMMA ManagerTypes ==
  ASSUME TypeInv, (\E m \in Models : StartSwitch(m)) \/ Manager
  PROVE  TypeInv'
<1> USE SwitchAssumption
<1>0. /\ manager \in ManagerType /\ inbox \in Seq(CallType) /\ core \in CoreType
      /\ frontend \in [config : Models, processor : 0..MaxSwitches]
  BY DEF TypeInv, TypeOK
<1>1. ASSUME NEW m \in Models, StartSwitch(m)
      PROVE  TypeInv'
  <2>1. /\ manager' \in ManagerType /\ manager'.target = m /\ manager'.current = manager.current
        /\ manager'.phase = "drain" /\ manager'.switches = manager.switches + 1
        /\ m # NONE /\ UNCHANGED <<frontend, core, inbox, worker, req, ran>>
    <3>1. manager.switches \in 0..MaxSwitches
      BY <1>0 DEF ManagerType
    <3>2. manager.switches < MaxSwitches
      BY <1>1 DEF StartSwitch
    <3>3. manager.switches + 1 \in 0..MaxSwitches /\ m # NONE
      BY <3>1, <3>2
    <3>4. QED BY <1>0, <1>1, <3>3 DEF StartSwitch, ManagerType
  <2>2. TypeOK'
    BY <2>1 DEF TypeInv, TypeOK
  <2>3. Phases'
    BY <1>1, <2>1 DEF TypeInv, Phases, InInbox, StartSwitch
  <2>4. Reconfiguring' /\ Requested'
    <3>0. manager.switches \in 0..MaxSwitches /\ frontend.processor \in 0..MaxSwitches
      BY <1>0 DEF ManagerType
    <3>1. frontend.processor \in Nat /\ manager.switches \in Nat
      BY <3>0
    <3>1a. manager.phase = "idle"
      BY <1>1 DEF StartSwitch
    <3>2. core.pc = "ready" /\ UNCHANGED <<core, inbox, frontend>>
      BY <2>1, <3>1a DEF TypeInv, Phases
    <3>3. frontend.processor \leq manager.switches /\ manager'.switches = manager.switches + 1
      BY <2>1 DEF TypeInv, Requested
    <3>4. frontend'.processor \leq manager'.switches /\ frontend'.processor < manager'.switches
      BY <3>1, <3>2, <3>3
    <3>5. QED BY <3>2, <3>4 DEF TypeInv, Reconfiguring, Requested
  <2>5. QED BY <2>2, <2>3, <2>4 DEF TypeInv
<1>2. CASE Drained
  <2>1. /\ manager' \in ManagerType /\ UNCHANGED <<manager.current, manager.target, manager.switches>>
        /\ manager.phase = "drain" /\ manager'.phase = "reconfigure"
        /\ UNCHANGED <<frontend, core, worker, req, ran>>
        /\ inbox' = Append(inbox, Call("reconfigure"))
    BY <1>0, <1>2 DEF Drained, ManagerType
  <2>2. Call("reconfigure") \in CallType /\ Call("reconfigure").call = "reconfigure"
    BY CallTypes
  <2>3. /\ inbox' \in Seq(CallType)
        /\ \A i \in DOMAIN inbox' : \/ i = Len(inbox) + 1 /\ inbox'[i] = Call("reconfigure")
                                    \/ i \in DOMAIN inbox /\ inbox'[i] = inbox[i]
    BY <1>0, <2>1, <2>2, Sent
  <2>4. TypeOK'
    BY <2>1, <2>3 DEF TypeInv, TypeOK
  <2>5. ~InInbox("reconfigure") /\ ~InInbox("resume") /\ core.pc = "ready" /\ core.reply = NONE
    BY <2>1 DEF TypeInv, Phases
  <2>6. Phases'
    BY <2>1, <2>2, <2>3, <2>5 DEF TypeInv, Phases, InInbox
  <2>7. Reconfiguring' /\ Requested'
    BY <2>1, <2>2, <2>3 DEF TypeInv, Reconfiguring, Requested
  <2>8. QED BY <2>4, <2>6, <2>7 DEF TypeInv
<1>3. CASE Refresh
  <2>1. /\ manager.phase = "reconfigure" /\ core.reply = "ok"
        /\ UNCHANGED <<inbox, worker, req, ran>>
    BY <1>3 DEF Refresh
  <2>2. core.pc = "ready" /\ ~InInbox("reconfigure") /\ ~InInbox("resume")
    BY <1>0, <2>1, SwitchAssumption DEF TypeInv, Phases, CoreType
  <2>3. manager.target \in Models
    BY <1>0, <2>1 DEF TypeInv, TypeOK, ManagerType
  <2>4. /\ manager' \in ManagerType /\ manager'.phase = "idle" /\ manager'.switches = manager.switches
    BY <1>0, <1>3, <2>3 DEF Refresh, ManagerType
  <2>5. core' \in CoreType /\ core'.reply = NONE /\ core'.pc = core.pc
    BY <1>0, <1>3 DEF Refresh, CoreType
  <2>6. /\ frontend' \in [config : Models, processor : 0..MaxSwitches]
        /\ frontend'.processor \leq manager.switches
    <3>1. frontend.processor < manager.switches /\ manager.switches \in 0..MaxSwitches
      BY <1>0, <2>1 DEF TypeInv, Requested, ManagerType
    <3>2. QED BY <1>0, <1>3, <2>3, <3>1 DEF Refresh
  <2>7. TypeOK'
    BY <2>1, <2>4, <2>5, <2>6 DEF TypeInv, TypeOK
  <2>8. Phases' /\ Reconfiguring' /\ Requested'
    BY <2>1, <2>2, <2>4, <2>5, <2>6 DEF TypeInv, Phases, InInbox, Reconfiguring, Requested
  <2>9. QED BY <2>7, <2>8 DEF TypeInv
<1>4. ASSUME Recover, core.reply # NONE, manager.phase = "reconfigure",
             frontend' \in [config : Models, processor : 0..MaxSwitches],
             frontend'.processor = frontend.processor
      PROVE  TypeInv'
  <2>1. UNCHANGED <<worker, req, ran>>
    BY <1>4 DEF Recover
  <2>2. core.pc = "ready" /\ ~InInbox("reconfigure") /\ ~InInbox("resume")
    BY <1>4 DEF TypeInv, Phases
  <2>3. /\ manager' \in ManagerType /\ manager'.phase = "recover"
        /\ UNCHANGED <<manager.current, manager.target, manager.switches>>
    BY <1>0, <1>4 DEF Recover, ManagerType
  <2>4. core' \in CoreType /\ core'.reply = NONE /\ core'.pc = core.pc
    BY <1>0, <1>4 DEF Recover, CoreType
  <2>5. /\ WakeCall(Tags) \in CallType /\ WakeCall(Tags).call = "wake_up"
        /\ Call("resume") \in CallType /\ Call("resume").call = "resume"
    BY CallTypes
  <2>6. inbox' = inbox \o <<WakeCall(Tags), Call("resume")>>
    BY <1>4 DEF Recover
  <2>7. /\ inbox' \in Seq(CallType)
        /\ \A i \in DOMAIN inbox' : \/ inbox'[i] = WakeCall(Tags) \/ inbox'[i] = Call("resume")
                                    \/ i \in DOMAIN inbox /\ inbox'[i] = inbox[i]
    BY <1>0, <2>5, <2>6
  <2>8. TypeOK'
    BY <1>4, <2>1, <2>3, <2>4, <2>7 DEF TypeInv, TypeOK
  <2>9. Phases' /\ Reconfiguring' /\ Requested'
    BY <1>4, <2>2, <2>3, <2>4, <2>5, <2>7 DEF TypeInv, Phases, InInbox, Reconfiguring, Requested
  <2>10. QED BY <2>8, <2>9 DEF TypeInv
<1>5. CASE RefreshFails
  <2>1. manager.target \in Models
    BY <1>0, <1>5 DEF RefreshFails, TypeInv, TypeOK, ManagerType
  <2>2. /\ frontend' \in [config : Models, processor : 0..MaxSwitches]
        /\ frontend'.processor = frontend.processor
    BY <1>0, <1>5, <2>1 DEF RefreshFails
  <2>3. core.reply # NONE
    BY <1>5, <1>0, SwitchAssumption DEF RefreshFails, CoreType
  <2>4. QED BY <1>4, <1>5, <2>2, <2>3 DEF RefreshFails
<1>6. CASE ReconfigureFailed
  BY <1>0, <1>4, <1>6 DEF ReconfigureFailed
<1>7. CASE Recovered
  <2>1. /\ manager' \in ManagerType /\ manager'.phase = "idle" /\ manager'.switches = manager.switches
        /\ UNCHANGED <<frontend, core, inbox, worker, req, ran>>
        /\ manager.phase = "recover" /\ ~InInbox("resume")
    BY <1>0, <1>7 DEF Recovered, ManagerType, InInbox
  <2>2. QED BY <1>0, <2>1 DEF TypeInv, TypeOK, Phases, InInbox, Reconfiguring, Requested, ManagerType
<1>8. QED BY <1>1, <1>2, <1>3, <1>5, <1>6, <1>7 DEF Manager

(* Aborting, as a pause and a sleep do.                                        *)
LEMMA AbortTypes ==
  ASSUME req \in [Requests -> RequestType]
  PROVE  Aborted \in [Requests -> RequestType]
<1>1. ASSUME NEW r \in RequestType
      PROVE  [r EXCEPT !.at = "output"] \in RequestType
  BY DEF RequestType
<1>2. QED BY <1>1 DEF Aborted

(* The messages of the engine core.                                            *)
LEMMA MessageTypes ==
  ASSUME TypeInv, Messages
  PROVE  TypeInv'
<1>0. /\ core \in CoreType /\ worker \in [Workers -> WorkerType] /\ req \in [Requests -> RequestType]
      /\ inbox \in Seq(CallType)
  BY DEF TypeInv, TypeOK
<1>1. CASE TakeRequest
  <2>1. /\ core.pc = "ready" /\ inbox # <<>> /\ inbox' = Tail(inbox)
        /\ UNCHANGED <<manager, frontend, core, worker, ran>>
        /\ req' = [req EXCEPT ![Head(inbox).req].at = "scheduled"]
    BY <1>1 DEF TakeRequest, Takes
  <2>2. \A r \in RequestType : [r EXCEPT !.at = "scheduled"] \in RequestType
    BY DEF RequestType
  <2>3. req' \in [Requests -> RequestType]
    BY <1>0, <2>1, <2>2
  <2>4. QED BY <1>0, <2>1, <2>3, TakeTypes
<1>2. CASE TakeSleep
  <2>1. /\ core.pc = "ready" /\ inbox # <<>> /\ inbox' = Tail(inbox)
        /\ UNCHANGED <<manager, frontend, ran>>
    BY <1>2 DEF TakeSleep, Takes
  <2>2. core' \in CoreType /\ UNCHANGED <<core.pc, core.reply>>
    BY <1>0, <1>2 DEF TakeSleep, CoreType
  <2>3. worker' \in [Workers -> WorkerType]
    BY <1>0, <1>2, SleepKeeps DEF TakeSleep
  <2>4. req' \in [Requests -> RequestType]
    BY <1>0, <1>2, AbortTypes DEF TakeSleep
  <2>5. QED BY <2>1, <2>2, <2>3, <2>4, TakeTypes
<1>3. CASE TakeWakeUp
  <2>1. /\ core.pc = "ready" /\ inbox # <<>> /\ inbox' = Tail(inbox)
        /\ UNCHANGED <<manager, frontend, req, ran>>
    BY <1>3 DEF TakeWakeUp, Takes
  <2>2. core' \in CoreType /\ UNCHANGED <<core.pc, core.reply>>
    <3>1. core' = core \/ \E left \in SUBSET Tags, p \in BOOLEAN :
                            core' = [core EXCEPT !.sleeping_tags = left, !.paused = p]
      <4>1. CASE Head(inbox).tags \subseteq core.sleeping_tags
        <5>1. core.sleeping_tags \ Head(inbox).tags \in SUBSET Tags
              /\ (core.paused /\ core.sleeping_tags \ Head(inbox).tags # {}) \in BOOLEAN
          BY <1>0 DEF CoreType
        <5>2. core' = [core EXCEPT !.sleeping_tags = core.sleeping_tags \ Head(inbox).tags,
                                   !.paused = core.paused /\ core.sleeping_tags \ Head(inbox).tags # {}]
          BY <1>3, <4>1 DEF TakeWakeUp
        <5>3. QED BY <5>1, <5>2
      <4>2. CASE ~(Head(inbox).tags \subseteq core.sleeping_tags)
        BY <1>3, <4>2 DEF TakeWakeUp
      <4>3. QED BY <4>1, <4>2
    <3>2. QED BY <1>0, <3>1 DEF CoreType
  <2>3. worker' \in [Workers -> WorkerType]
    BY <1>0, <1>3, WakeKeeps DEF TakeWakeUp
  <2>4. QED BY <1>0, <2>1, <2>2, <2>3, TakeTypes
<1>4. CASE TakeResume
  <2>1. /\ core.pc = "ready" /\ inbox # <<>> /\ inbox' = Tail(inbox)
        /\ UNCHANGED <<manager, frontend, worker, req, ran>>
    BY <1>4 DEF TakeResume, Takes
  <2>2. core' \in CoreType /\ UNCHANGED <<core.pc, core.reply>>
    BY <1>0, <1>4 DEF TakeResume, CoreType
  <2>3. QED BY <1>0, <2>1, <2>2, TakeTypes
<1>5. QED BY <1>1, <1>2, <1>3, <1>4 DEF Messages

(* The steps of a reconfiguration.                                             *)
LEMMA ReconfigureTypes ==
  ASSUME TypeInv, Reconfigure
  PROVE  TypeInv'
<1>0. /\ core \in CoreType /\ worker \in [Workers -> WorkerType] /\ req \in [Requests -> RequestType]
      /\ inbox \in Seq(CallType)
  BY DEF TypeInv, TypeOK
<1>a. core.pc # "ready" => core.new \in Models /\ core.previous \in Models
  <2>1. core.pc # "ready" => manager.phase = "reconfigure"
    BY DEF TypeInv, Phases
  <2>2. manager.phase = "reconfigure" => manager.target \in Models
    BY DEF TypeInv, TypeOK, ManagerType
  <2>3. QED BY <2>1, <2>2 DEF TypeInv, Reconfiguring
<1>1. CASE TakeReconfigure
  <2>1. /\ core.pc = "ready" /\ inbox # <<>> /\ inbox' = Tail(inbox) /\ Head(inbox).call = "reconfigure"
        /\ UNCHANGED <<manager, frontend, worker, req, ran>>
        /\ core' = [core EXCEPT !.pc = "normalize", !.new = manager.target, !.previous = core.config,
                                !.stash_created = FALSE]
    BY <1>1 DEF TakeReconfigure, Takes
  <2>2. /\ 1 \in DOMAIN inbox /\ inbox[1].call = "reconfigure" /\ inbox' \in Seq(CallType)
        /\ \A i \in DOMAIN inbox' :
             i \in Nat /\ i + 1 \in DOMAIN inbox /\ i + 1 # 1 /\ inbox'[i] = inbox[i + 1]
    BY <1>0, <2>1, Taken
  <2>3. /\ manager.phase = "reconfigure" /\ core.reply = NONE
        /\ ~InInbox("reconfigure")' /\ ~InInbox("resume")'
    BY <2>2 DEF TypeInv, Phases, InInbox
  <2>4. manager.target \in Models
    BY <2>3 DEF TypeInv, TypeOK, ManagerType
  <2>5. core' \in CoreType /\ core'.new = manager.target /\ core'.previous \in Models /\ core'.reply = NONE
    BY <1>0, <2>1, <2>3, <2>4 DEF CoreType, Steps
  <2>6. TypeOK'
    BY <2>1, <2>2, <2>5 DEF TypeInv, TypeOK
  <2>7. Phases'
    BY <2>1, <2>3, <2>5 DEF TypeInv, Phases, InInbox
  <2>8. Reconfiguring' /\ Requested'
    BY <2>1, <2>2, <2>5 DEF TypeInv, Reconfiguring, Requested
  <2>9. QED BY <2>6, <2>7, <2>8 DEF TypeInv
<1>2. CASE Normalize
  <2>1. core.pc = "normalize" /\ UNCHANGED <<manager, frontend, inbox, worker, req, ran>>
    BY <1>2 DEF Normalize, At
  <2>2. core' \in CoreType /\ UNCHANGED <<core.reply, core.new, core.previous>>
    BY <1>0, <1>2 DEF Normalize, Then, CoreType
  <2>3. QED BY <1>0, <2>1, <2>2, StepTypes
<1>3. CASE PauseScheduler
  <2>1. core.pc = "pause" /\ UNCHANGED <<manager, frontend, inbox, worker, ran>>
    BY <1>3 DEF PauseScheduler, At
  <2>2. core' \in CoreType /\ UNCHANGED <<core.reply, core.new, core.previous>>
    BY <1>0, <1>3 DEF PauseScheduler, Then, CoreType, Steps
  <2>3. req' \in [Requests -> RequestType]
    BY <1>0, <1>3, AbortTypes DEF PauseScheduler
  <2>4. QED BY <1>0, <2>1, <2>2, <2>3, StepTypes
<1>4. CASE Sleep
  <2>1. core.pc = "sleep" /\ UNCHANGED <<manager, frontend, inbox, req, ran>>
    BY <1>4 DEF Sleep, At
  <2>2. core' \in CoreType /\ UNCHANGED <<core.reply, core.new, core.previous>>
    <3>1. core' = [core EXCEPT !.pc = "unload"] \/ core' = [core EXCEPT !.pc = "unload", !.sleeping_tags = Tags]
      BY <1>4 DEF Sleep, Then
    <3>2. "unload" \in Steps
      BY DEF Steps
    <3>3. QED BY <1>0, <3>1, <3>2 DEF CoreType
  <2>3. worker' \in [Workers -> WorkerType]
    <3>1. worker' = worker \/ \E ok \in SUBSET Workers :
            worker' = [w \in Workers |-> IF w \in ok THEN sleep(worker[w]) ELSE worker[w]]
      <4>1. worker' = [w \in Workers |-> sleep(worker[w])] =>
              worker' = [w \in Workers |-> IF w \in Workers THEN sleep(worker[w]) ELSE worker[w]]
        OBVIOUS
      <4>2. QED BY <1>4, <4>1 DEF Sleep
    <3>2. QED BY <1>0, <3>1, SleepKeeps
  <2>4. QED BY <1>0, <2>1, <2>2, <2>3, StepTypes
<1>5. CASE Unload
  <2>1. core.pc = "unload" /\ UNCHANGED <<manager, frontend, inbox, req, ran>>
    BY <1>5 DEF Unload, At
  <2>2. core' \in CoreType /\ UNCHANGED <<core.reply, core.new, core.previous>>
    <3>1. \/ \E created \in Marked : core' = [core EXCEPT !.pc = "load", !.stash_created = created]
          \/ core' = [core EXCEPT !.pc = "rollback"]
      BY <1>5 DEF Unload, Then
    <3>2. CASE core' = [core EXCEPT !.pc = "rollback"]
      BY <1>0, <3>2 DEF CoreType
    <3>3. ASSUME NEW created \in BOOLEAN, core' = [core EXCEPT !.pc = "load", !.stash_created = created]
          PROVE  core' \in CoreType /\ UNCHANGED <<core.reply, core.new, core.previous>>
      <4>1. "load" \in Steps
        BY DEF Steps
      <4>2. QED BY <1>0, <3>3, <4>1 DEF CoreType
    <3>4. QED BY <3>1, <3>2, <3>3, SwitchAssumption
  <2>3. worker' \in [Workers -> WorkerType]
    <3>1. \E ok : worker' = [w \in Workers |-> IF w \in ok THEN unload_model(worker[w]) ELSE worker[w]]
      <4>1. worker' = [w \in Workers |-> unload_model(worker[w])] =>
              worker' = [w \in Workers |-> IF w \in Workers THEN unload_model(worker[w]) ELSE worker[w]]
        OBVIOUS
      <4>2. QED BY <1>5, <4>1 DEF Unload
    <3>2. \A w \in WorkerType : unload_model(w) \in WorkerType
      BY Unloads
    <3>3. QED BY <1>0, <3>1, <3>2
  <2>4. QED BY <1>0, <2>1, <2>2, <2>3, StepTypes
<1>6. CASE Load
  <2>1. core.pc = "load" /\ UNCHANGED <<manager, frontend, inbox, req, ran>>
    BY <1>6 DEF Load, At
  <2>2. core' \in CoreType /\ UNCHANGED <<core.reply, core.new, core.previous>>
    BY <1>0, <1>6 DEF Load, Then, CoreType, Steps
  <2>3. core.new \in Models
    BY <1>a, <2>1
  <2>4. worker' \in [Workers -> WorkerType]
    <3>1. \A w \in WorkerType : load_model(w, core.new) \in WorkerType
      BY <2>3, LoadKeeps
    <3>2. \A w \in WorkerType, built \in BOOLEAN : LoadFailed(w, core.new, built) \in WorkerType
      BY <2>3, LoadFailedKeeps, Zenon
    <3>3. CASE worker' = [w \in Workers |-> load_model(worker[w], core.new)]
      BY <1>0, <3>1, <3>3
    <3>4. ASSUME NEW ok \in SUBSET Workers, NEW built \in BOOLEAN,
                 worker' = [w \in Workers |->
                   IF w \in ok THEN load_model(worker[w], core.new) ELSE LoadFailed(worker[w], core.new, built)]
          PROVE  worker' \in [Workers -> WorkerType]
      <4>1. \A w \in Workers : LoadFailed(worker[w], core.new, built) \in WorkerType
        BY <1>0, <3>2, Zenon
      <4>2. \A w \in Workers : load_model(worker[w], core.new) \in WorkerType
        BY <1>0, <3>1
      <4>3. QED BY <3>4, <4>1, <4>2, Zenon
    <3>5. QED BY <1>6, <3>3, <3>4, Zenon DEF Load
  <2>5. QED BY <1>0, <2>1, <2>2, <2>4, StepTypes
<1>7. CASE InitializeKVCaches
  <2>1. core.pc = "kv" /\ UNCHANGED <<manager, frontend, inbox, req, ran>>
    BY <1>7 DEF InitializeKVCaches, At
  <2>2. core.new \in Models
    BY <1>a, <2>1
  <2>3. core' \in CoreType /\ UNCHANGED <<core.reply, core.new, core.previous>>
    BY <1>0, <1>7, <2>2 DEF InitializeKVCaches, CoreType, Steps
  <2>4. worker' \in [Workers -> WorkerType]
    BY <1>0, <1>7, <2>2, InitializeKeeps DEF InitializeKVCaches
  <2>5. QED BY <1>0, <2>1, <2>3, <2>4, StepTypes
<1>8. CASE Rebuild
  <2>1. core.pc = "rebuild" /\ UNCHANGED <<manager, frontend, inbox, worker, ran>>
    BY <1>8 DEF Rebuild, At
  <2>2. core.new \in Models
    BY <1>a, <2>1
  <2>3. core' \in CoreType /\ UNCHANGED <<core.reply, core.new, core.previous>>
    BY <1>0, <1>8, <2>2 DEF Rebuild, CoreType, Steps
  <2>4. \A r \in RequestType : [r EXCEPT !.at = "lost"] \in RequestType
    BY DEF RequestType
  <2>5. req' \in [Requests -> RequestType]
    BY <1>0, <1>8, <2>4 DEF Rebuild
  <2>6. QED BY <1>0, <2>1, <2>3, <2>5, StepTypes
<1>9. CASE ResumeScheduler
  <2>1. core.pc = "resume" /\ UNCHANGED <<manager, frontend, inbox, worker, req, ran>>
    BY <1>9 DEF ResumeScheduler, At
  <2>2. core' \in CoreType /\ core'.pc = "ready"
    BY <1>0, <1>9 DEF ResumeScheduler, CoreType
  <2>3. QED BY <1>0, <2>1, <2>2, StepTypes
<1>10. CASE Rollback
  <2>1. core.pc = "rollback" /\ UNCHANGED <<manager, frontend, inbox, req, ran>>
    BY <1>10 DEF Rollback, At
  <2>2. core.previous \in Models
    BY <1>a, <2>1
  <2>3. core' \in CoreType /\ core'.pc = "ready"
    BY <1>0, <1>10, <2>2 DEF Rollback, CoreType
  <2>4. \A w \in WorkerType : restore_stashed_model(w, core.previous, TRUE) \in WorkerType
    BY <2>2, RestoreKeeps, Zenon
  <2>5. worker' \in [Workers -> WorkerType]
    BY <1>0, <1>10, <2>4 DEF Rollback
  <2>6. QED BY <1>0, <2>1, <2>3, <2>5, StepTypes
<1>11. QED BY <1>1, <1>2, <1>3, <1>4, <1>5, <1>6, <1>7, <1>8, <1>9, <1>10 DEF Reconfigure

LEMMA InitialTypes ==
  ASSUME Init
  PROVE  TypeInv
<1> USE SwitchAssumption
<1>1. manager \in ManagerType /\ manager.phase = "idle" /\ manager.switches = 0
  BY DEF Init, ManagerType
<1>2. frontend \in [config : Models, processor : 0..MaxSwitches] /\ frontend.processor = 0
  BY DEF Init
<1>3. core \in CoreType /\ core.pc = "ready" /\ core.reply = NONE
  BY DEF Init, CoreType, Tags
<1>4. inbox \in Seq(CallType) /\ DOMAIN inbox = {}
  BY DEF Init
<1>5. worker \in [Workers -> WorkerType]
  <2>1. NoStash \in StashType
    BY DEF NoStash, NoRunner, StashType, RunnerType
  <2>2. [model |-> Default, on_hpu |-> TRUE, kv_caches |-> Default, graphed |-> TRUE, defragmenter |-> TRUE]
          \in RunnerType
    BY DEF RunnerType
  <2>3. [k \in Keys |-> NoStash] \in [Keys -> StashType]
    BY <2>1
  <2>4. QED BY <2>2, <2>3 DEF Init, WorkerType
<1>6. req \in [Requests -> RequestType] /\ ran \in [Requests -> Models \union {NONE}]
  BY DEF Init, RequestType
<1>7. TypeOK
  BY <1>1, <1>2, <1>3, <1>4, <1>5, <1>6 DEF TypeOK
<1>8. Phases /\ Reconfiguring /\ Requested
  BY <1>1, <1>2, <1>3, <1>4 DEF Phases, InInbox, Reconfiguring, Requested
<1>9. QED BY <1>7, <1>8 DEF TypeInv

LEMMA TypesStep ==
  ASSUME TypeInv, [Next]_vars
  PROVE  TypeInv'
<1>1. CASE UNCHANGED vars
  BY <1>1 DEF vars, TypeInv, TypeOK, Phases, InInbox, Reconfiguring, Requested
<1>2. CASE Next
  BY <1>2, FrontendTypes, ManagerTypes, MessageTypes, ReconfigureTypes DEF Next
<1>3. QED BY <1>1, <1>2

(* Whatever fails and whatever is called when, the manager, the frontend, the  *)
(* engine core, the workers, the calls and the requests keep their types.      *)
THEOREM SwitchTypes == Spec => []TypeOK
<1>1. Init => TypeInv
  BY InitialTypes
<1>2. TypeInv /\ [Next]_vars => TypeInv'
  BY TypesStep
<1>3. TypeInv => TypeOK
  BY DEF TypeInv
<1>4. QED BY <1>1, <1>2, <1>3, PTL DEF Spec

-----------------------------------------------------------------------------
(* One model: what the operations that move runners do to a worker.            *)
LEMMA UnloadMoves ==
  ASSUME Recoverable, NEW w \in WorkerType, ByKey(w), NEW m \in Models, Means(w, m)
  PROVE  ByKey(unload_model(w)) /\ HasStashed(unload_model(w), m)
<1>1. w.runner.model = m /\ m # NONE
  BY SwitchAssumption DEF Means
<1>2. \E s : s.runner = w.runner /\ unload_model(w).stash = [w.stash EXCEPT ![KeyOf[m]] = s]
  BY <1>1, Unloads
<1>3. PICK s : s.runner = w.runner /\ unload_model(w).stash = [w.stash EXCEPT ![KeyOf[m]] = s]
  BY <1>2
<1>4. w.stash \in [Keys -> StashType] /\ \A n \in Models : KeyOf[n] \in Keys
  BY DEF WorkerType, Keys
<1>5. \A n \in Models : unload_model(w).stash[KeyOf[n]] = IF n = m THEN s ELSE w.stash[KeyOf[n]]
  BY <1>3, <1>4 DEF Recoverable
<1>6. QED BY <1>1, <1>3, <1>5 DEF ByKey, HasStashed

(* What leaves the stash under m's key is m's.                                 *)
LEMMA TakenOut ==
  ASSUME Recoverable, NEW w \in WorkerType, ByKey(w), NEW m \in Models,
         NEW v \in WorkerType, v.stash = [w.stash EXCEPT ![KeyOf[m]] = NoStash] \/ v.stash = w.stash
  PROVE  ByKey(v) /\ \A n \in Models \ {m} : HasStashed(w, n) => HasStashed(v, n)
<1>1. w.stash \in [Keys -> StashType] /\ \A n \in Models : KeyOf[n] \in Keys
  BY DEF WorkerType, Keys
<1>2. \A n \in Models : v.stash[KeyOf[n]] = w.stash[KeyOf[n]] \/ (n = m /\ v.stash[KeyOf[n]] = NoStash)
  BY <1>1 DEF Recoverable
<1>3. NoStash.runner.model = NONE
  BY DEF NoStash, NoRunner
<1>4. QED BY <1>2, <1>3 DEF ByKey, HasStashed

LEMMA LoadMoves ==
  ASSUME Recoverable, NEW w \in WorkerType, ByKey(w), NEW m \in Models
  PROVE  /\ ByKey(load_model(w, m)) /\ Means(load_model(w, m), m)
         /\ \A n \in Models \ {m} : HasStashed(w, n) => HasStashed(load_model(w, m), n)
<1> DEFINE v == load_model(w, m)
<1>1. Stashed(w, m) => w.stash[KeyOf[m]].runner.model = m
  BY DEF ByKey, Stashed
<1>2. /\ v \in WorkerType /\ v.config = v.runner.model
      /\ v.config = IF Stashed(w, m) THEN w.stash[KeyOf[m]].runner.model ELSE m
      /\ v.stash = [w.stash EXCEPT ![KeyOf[m]] = NoStash] \/ v.stash = w.stash
  BY LoadKeeps
<1> HIDE DEF v
<1>3. v.config = m
  BY <1>1, <1>2
<1>4. ByKey(v) /\ Means(v, m) /\ \A n \in Models \ {m} : HasStashed(w, n) => HasStashed(v, n)
  BY <1>2, <1>3, TakenOut DEF Means
<1>5. QED BY <1>4 DEF v

LEMMA LoadFailedMoves ==
  ASSUME Recoverable, NEW w \in WorkerType, ByKey(w), NEW m \in Models, NEW built \in BOOLEAN
  PROVE  /\ ByKey(LoadFailed(w, m, built))
         /\ \A n \in Models \ {m} : HasStashed(w, n) => HasStashed(LoadFailed(w, m, built), n)
<1> DEFINE v == LoadFailed(w, m, built)
<1>1. v \in WorkerType /\ (v.stash = [w.stash EXCEPT ![KeyOf[m]] = NoStash] \/ v.stash = w.stash)
  BY LoadFailedKeeps, Zenon
<1> HIDE DEF v
<1>2. ByKey(v) /\ \A n \in Models \ {m} : HasStashed(w, n) => HasStashed(v, n)
  BY <1>1, TakenOut
<1>3. QED BY <1>2 DEF v

LEMMA RestoreMoves ==
  ASSUME Recoverable, NEW w \in WorkerType, ByKey(w), NEW m \in Models, HasStashed(w, m)
  PROVE  ByKey(restore_stashed_model(w, m, TRUE)) /\ Means(restore_stashed_model(w, m, TRUE), m)
<1> DEFINE v == restore_stashed_model(w, m, TRUE)
<1>1. w.stash[KeyOf[m]].runner.model = m /\ Stashed(w, m)
  BY SwitchAssumption DEF HasStashed, Stashed
<1>2. /\ v \in WorkerType /\ v.stash = [w.stash EXCEPT ![KeyOf[m]] = NoStash]
      /\ v.config = w.stash[KeyOf[m]].runner.model /\ v.runner.model = w.stash[KeyOf[m]].runner.model
  BY <1>1, RestoreKeeps, Zenon
<1> HIDE DEF v
<1>3. ByKey(v) /\ Means(v, m)
  BY <1>1, <1>2, TakenOut DEF Means
<1>4. QED BY <1>3 DEF v

-----------------------------------------------------------------------------
(* The steps that leave the models where they are.                             *)
SameModels(v, w) == v.config = w.config /\ v.runner.model = w.runner.model /\ v.stash = w.stash

LEMMA AgreeKept ==
  ASSUME AgreeInv, TypeInv', UNCHANGED <<manager.current, manager.sleeping, frontend.config>>,
         core.reply = "ok" => UNCHANGED manager.target,
         UNCHANGED <<core.config, core.scheduler, core.reply, core.pc>>,
         core.pc # "ready" => UNCHANGED core,
         \A w \in Workers : SameModels(worker'[w], worker[w])
  PROVE  AgreeInv'
<1>1. StashedByKey'
  BY DEF AgreeInv, StashedByKey, ByKey, SameModels
<1>2. Settled'
  BY DEF AgreeInv, Settled, Served, Means, SameModels
<1>3. Underway'
  BY SMTT(30) DEF AgreeInv, Underway, Means, HasStashed, SameModels
<1>4. OneServed'
  BY DEF AgreeInv, OneServed
<1>5. QED BY <1>1, <1>2, <1>3, <1>4 DEF AgreeInv

LEMMA AgreeFrontend ==
  ASSUME AgreeInv, TypeInv',
         \/ \E q \in Requests : Submit(q) \/ Deliver(q) \/ Execute(q)
         \/ SleepEndpoint \/ \E tags \in WakeTags : WakeEndpoint(tags)
  PROVE  AgreeInv'
<1>1. UNCHANGED <<manager.current, manager.sleeping, manager.target, frontend, core, worker>>
  BY DEF Submit, Deliver, Execute, SleepEndpoint, WakeEndpoint, AgreeInv, TypeInv, TypeOK, ManagerType
<1>2. QED BY <1>1, AgreeKept DEF SameModels

LEMMA AgreeMessages ==
  ASSUME AgreeInv, TypeInv', Messages
  PROVE  AgreeInv'
<1>1. core \in CoreType /\ worker \in [Workers -> WorkerType]
  BY DEF AgreeInv, TypeInv, TypeOK
<1>2. UNCHANGED <<manager, frontend>> /\ core.pc = "ready"
  BY DEF Messages, TakeRequest, TakeSleep, TakeWakeUp, TakeResume, Takes
<1>3. UNCHANGED <<core.config, core.scheduler, core.reply, core.pc>>
  <2>1. CASE TakeWakeUp
    <3>1. core' = core \/ \E t, p : core' = [core EXCEPT !.sleeping_tags = t, !.paused = p]
      BY <2>1 DEF TakeWakeUp
    <3>2. QED BY <1>1, <3>1 DEF CoreType
  <2>2. CASE ~TakeWakeUp
    BY <1>1, <2>2 DEF Messages, TakeRequest, TakeSleep, TakeResume, CoreType
  <2>3. QED BY <2>1, <2>2
<1>4. ASSUME NEW w \in Workers
      PROVE  SameModels(worker'[w], worker[w])
  <2>1. CASE TakeSleep
    <3>1. worker' = worker \/ worker' = [v \in Workers |-> sleep(worker[v])]
      BY <2>1 DEF TakeSleep
    <3>2. QED BY <1>1, <3>1, SleepKeeps DEF SameModels
  <2>2. CASE TakeWakeUp
    <3>1. worker' = worker \/ \E tags : worker' = [v \in Workers |-> wake_up(worker[v], tags)]
      BY <2>2 DEF TakeWakeUp
    <3>2. QED BY <1>1, <3>1, WakeKeeps DEF SameModels
  <2>3. CASE UNCHANGED worker
    BY <2>3 DEF SameModels
  <2>4. QED BY <2>1, <2>2, <2>3 DEF Messages, TakeRequest, TakeResume
<1>5. QED BY <1>2, <1>3, <1>4, AgreeKept

LEMMA AgreeManager ==
  ASSUME Recoverable, AgreeInv, TypeInv', (\E m \in Models : StartSwitch(m)) \/ Manager
  PROVE  AgreeInv'
<1>0. /\ manager \in ManagerType /\ core \in CoreType /\ TypeInv /\ Phases /\ NONE \notin {"ok", "error"}
      /\ StashedByKey /\ Settled /\ Underway /\ OneServed
  BY SwitchAssumption DEF AgreeInv, TypeInv, TypeOK
<1>1. ASSUME NEW m \in Models, StartSwitch(m)
      PROVE  AgreeInv'
  <2>1. /\ UNCHANGED <<manager.current, manager.sleeping, frontend, core, worker>>
        /\ manager.phase = "idle"
    BY <1>0, <1>1 DEF StartSwitch, ManagerType
  <2>2. core.reply = NONE
    BY <1>0, <2>1 DEF Phases
  <2>3. QED BY <1>0, <2>1, <2>2, AgreeKept DEF SameModels
<1>2. CASE Drained \/ Recovered
  <2>1. /\ UNCHANGED <<manager.current, frontend, core, worker>>
        /\ manager.phase \in {"drain", "recover"}
        /\ manager'.sleeping = manager.sleeping \/
             manager'.sleeping = [manager.sleeping EXCEPT ![manager.current] = "no"]
    BY <1>0, <1>2 DEF Drained, Recovered, ManagerType
  <2>2. UNCHANGED manager.sleeping
    <3>1. manager.sleeping[manager.current] = "no" /\ manager.sleeping \in [Models -> {"unset", "no", "yes"}]
      BY <1>0 DEF OneServed, ManagerType
    <3>2. QED BY <2>1, <3>1
  <2>3. core.reply = NONE
    BY <1>0, <2>1 DEF Phases
  <2>4. QED BY <1>0, <2>1, <2>2, <2>3, AgreeKept DEF SameModels
<1>3. CASE Refresh
  <2>1. /\ manager.phase = "reconfigure" /\ core.reply = "ok" /\ UNCHANGED worker
        /\ frontend' = [config |-> manager.target, processor |-> frontend.processor + 1]
        /\ manager' = [manager EXCEPT !.current = manager.target, !.phase = "idle", !.target = NONE,
                         !.sleeping[manager.current] = "yes", !.sleeping[manager.target] = "no"]
        /\ core' = [core EXCEPT !.reply = NONE]
    BY <1>3 DEF Refresh
  <2>2. manager.target \in Models /\ manager.target # manager.current /\ core.pc = "ready"
    BY <1>0, <2>1 DEF TypeInv, TypeOK, ManagerType, Phases
  <2>3. /\ manager'.current = manager.target
        /\ manager'.sleeping = [manager.sleeping EXCEPT ![manager.current] = "yes", ![manager.target] = "no"]
    BY <1>0, <2>1 DEF ManagerType
  <2>4. core'.reply = NONE /\ UNCHANGED <<core.pc, core.config, core.scheduler>>
    BY <1>0, <2>1 DEF CoreType
  <2>5. Settled'
    BY <1>0, <2>1, <2>2, <2>3, <2>4 DEF Settled, Served, Means
  <2>6. StashedByKey' /\ Underway'
    BY <1>0, <2>1, <2>2, <2>4 DEF StashedByKey, Underway
  <2>7. OneServed'
    <3>1. frontend'.config = manager'.current
      BY <2>1, <2>3
    <3>2. manager.sleeping \in [Models -> {"unset", "no", "yes"}] /\ manager.current \in Models
      BY <1>0 DEF ManagerType
    <3>3. \A m \in Models : manager.sleeping[m] = "no" <=> m = manager.current
      BY <1>0, <3>2 DEF OneServed
    <3>4. \A m \in Models : manager'.sleeping[m] = "no" <=> m = manager.target
      BY <2>2, <2>3, <3>2, <3>3
    <3>5. QED BY <2>2, <2>3, <3>1, <3>4 DEF OneServed
  <2>8. QED BY <2>5, <2>6, <2>7 DEF AgreeInv
<1>4. CASE RefreshFails
  BY <1>4 DEF RefreshFails, Recoverable
<1>5. CASE ReconfigureFailed
  <2>1. /\ manager.phase = "reconfigure" /\ core.reply = "error" /\ UNCHANGED <<frontend, worker>>
        /\ UNCHANGED <<manager.current, manager.sleeping>>
    BY <1>0, <1>5 DEF ReconfigureFailed, Recover, ManagerType
  <2>2. core'.reply = NONE /\ UNCHANGED <<core.pc, core.config, core.scheduler>>
    BY <1>0, <1>5 DEF ReconfigureFailed, Recover, CoreType
  <2>3. core.pc = "ready"
    BY <1>0, <2>1 DEF Phases
  <2>4. Settled'
    BY <1>0, <2>1, <2>2 DEF Settled, Served, Means
  <2>5. StashedByKey' /\ Underway' /\ OneServed'
    BY <1>0, <2>1, <2>2, <2>3 DEF StashedByKey, Underway, OneServed
  <2>6. QED BY <2>4, <2>5 DEF AgreeInv
<1>6. QED BY <1>1, <1>2, <1>3, <1>4, <1>5 DEF Manager

LEMMA AgreeReconfigure ==
  ASSUME Recoverable, AgreeInv, TypeInv', Reconfigure
  PROVE  AgreeInv'
<1>0. /\ manager \in ManagerType /\ core \in CoreType /\ worker \in [Workers -> WorkerType] /\ TypeInv
      /\ Phases /\ Reconfiguring /\ StashedByKey /\ Settled /\ Underway /\ OneServed
      /\ NONE \notin {"ok", "error"}
  BY SwitchAssumption DEF AgreeInv, TypeInv, TypeOK
<1>a. UNCHANGED <<manager, frontend>>
  BY DEF Reconfigure, TakeReconfigure, Normalize, PauseScheduler, Sleep, Unload, Load,
         InitializeKVCaches, Rebuild, ResumeScheduler, Rollback
<1>b. OneServed'
  BY <1>0, <1>a DEF OneServed
<1>c. core.pc # "ready" =>
        /\ core.new \in Models /\ core.previous \in Models /\ core.new # core.previous
        /\ core.new = manager.target /\ core.previous = manager.current /\ core.reply = NONE
  <2>1. core.pc # "ready" => manager.phase = "reconfigure" /\ core.reply = NONE
    BY <1>0 DEF Phases
  <2>2. manager.phase = "reconfigure" => manager.target \in Models /\ manager.target # manager.current
    BY <1>0 DEF TypeInv, TypeOK, ManagerType, Phases
  <2>3. QED BY <1>0, <2>1, <2>2 DEF Reconfiguring, Underway
(* What remains to be shown is about the workers and the engine core.          *)
<1>d. SUFFICES StashedByKey' /\ Settled' /\ Underway'
  BY <1>b DEF AgreeInv
<1>1. CASE TakeReconfigure
  <2>1. /\ core.pc = "ready" /\ Head(inbox).call = "reconfigure" /\ inbox # <<>> /\ UNCHANGED worker
        /\ core' = [core EXCEPT !.pc = "normalize", !.new = manager.target, !.previous = core.config,
                                !.stash_created = FALSE]
    BY <1>1 DEF TakeReconfigure, Takes
  <2>2. InInbox("reconfigure")
    <3>1. inbox \in Seq(CallType)
      BY <1>0 DEF TypeInv, TypeOK
    <3>2. QED BY <2>1, <3>1, Taken DEF InInbox
  <2>3. core.config = manager.current /\ core.scheduler = manager.current
        /\ \A w \in Workers : Means(worker[w], manager.current)
    BY <1>0, <2>1, <2>2 DEF Phases, Settled, Served
  <2>4. core'.pc = "normalize" /\ core'.previous = core.config /\ core'.scheduler = core.scheduler
        /\ core'.stash_created = FALSE
    BY <1>0, <2>1 DEF CoreType
  <2>5. QED BY <1>0, <1>a, <2>1, <2>3, <2>4 DEF StashedByKey, Settled, Underway
<1>2. CASE Normalize \/ PauseScheduler \/ Sleep
  <2>1. core.pc \in {"normalize", "pause", "sleep"} /\ core.pc # "ready"
    BY <1>2 DEF Normalize, PauseScheduler, Sleep, At
  <2>2. core'.pc \in {"pause", "sleep", "unload", "rollback"}
        /\ UNCHANGED <<core.config, core.scheduler, core.new, core.previous, core.stash_created>>
    <3>1. CASE Normalize \/ PauseScheduler
      BY <1>0, <3>1 DEF Normalize, PauseScheduler, Then, CoreType
    <3>2. CASE Sleep
      <4>1. core' = [core EXCEPT !.pc = "unload"] \/ core' = [core EXCEPT !.pc = "unload", !.sleeping_tags = Tags]
        BY <3>2 DEF Sleep, Then
      <4>2. QED BY <1>0, <4>1 DEF CoreType
    <3>3. QED BY <1>2, <3>1, <3>2
  <2>3. \A w \in Workers : SameModels(worker'[w], worker[w])
    <3>1. worker' = worker \/ \E ok : worker' = [w \in Workers |-> IF w \in ok THEN sleep(worker[w]) ELSE worker[w]]
      <4>1. worker' = [w \in Workers |-> sleep(worker[w])] =>
              worker' = [w \in Workers |-> IF w \in Workers THEN sleep(worker[w]) ELSE worker[w]]
        OBVIOUS
      <4>2. QED BY <1>2, <4>1 DEF Normalize, PauseScheduler, Sleep
    <3>2. QED BY <1>0, <3>1, SleepKeeps DEF SameModels
  <2>4. StashedByKey'
    BY <1>0, <2>3 DEF StashedByKey, ByKey, SameModels
  <2>5. Underway'
    BY <1>0, <1>a, <2>1, <2>2, <2>3 DEF Underway, Means, SameModels
  <2>6. QED BY <2>2, <2>4, <2>5 DEF Settled
<1>3. CASE Unload
  <2>1. core.pc = "unload"
    BY <1>3 DEF Unload, At
  <2>2. worker' = [w \in Workers |-> unload_model(worker[w])]
        /\ core' = [core EXCEPT !.pc = "load", !.stash_created = TRUE]
    BY <1>3 DEF Unload, MayFail, Recoverable
  <2>3. core'.pc = "load" /\ core'.stash_created = TRUE /\ UNCHANGED <<core.scheduler, core.previous>>
    BY <1>0, <2>2 DEF CoreType
  <2>4. \A w \in Workers : Means(worker[w], core.previous) /\ ByKey(worker[w]) /\ worker[w] \in WorkerType
    BY <1>0, <2>1 DEF Underway, StashedByKey
  <2>5. \A w \in Workers : ByKey(worker'[w]) /\ HasStashed(worker'[w], core.previous)
    BY <1>c, <2>1, <2>2, <2>4, UnloadMoves
  <2>6. QED BY <1>0, <1>a, <2>1, <2>3, <2>5 DEF StashedByKey, Settled, Underway
<1>4. CASE Load
  <2>1. core.pc = "load"
    BY <1>4 DEF Load, At
  <2>2. \A w \in Workers : HasStashed(worker[w], core.previous) /\ ByKey(worker[w]) /\ worker[w] \in WorkerType
    BY <1>0, <2>1 DEF Underway, StashedByKey
  <2>3. \A w \in Workers : /\ ByKey(load_model(worker[w], core.new)) /\ Means(load_model(worker[w], core.new), core.new)
                           /\ HasStashed(load_model(worker[w], core.new), core.previous)
    BY <1>c, <2>1, <2>2, LoadMoves
  <2>4. \A w \in Workers, built \in BOOLEAN :
          /\ ByKey(LoadFailed(worker[w], core.new, built))
          /\ HasStashed(LoadFailed(worker[w], core.new, built), core.previous)
    <3>1. core.new \in Models /\ core.previous \in Models \ {core.new}
      BY <1>c, <2>1
    <3>2. QED BY <2>2, <3>1, LoadFailedMoves, Zenon
  <2>5. CASE worker' = [w \in Workers |-> load_model(worker[w], core.new)] /\ Then("kv")
    <3>1. core'.pc = "kv" /\ UNCHANGED <<core.scheduler, core.previous, core.new, core.stash_created>>
      BY <1>0, <2>5 DEF Then, CoreType
    <3>2. \A w \in Workers : ByKey(worker'[w]) /\ Means(worker'[w], core.new) /\ HasStashed(worker'[w], core.previous)
      BY <2>3, <2>5
    <3>3. QED BY <1>0, <1>a, <2>1, <3>1, <3>2 DEF StashedByKey, Settled, Underway
  <2>6. ASSUME NEW ok \in SUBSET Workers, NEW built \in BOOLEAN, Then("rollback"),
               worker' = [w \in Workers |->
                 IF w \in ok THEN load_model(worker[w], core.new) ELSE LoadFailed(worker[w], core.new, built)]
        PROVE  StashedByKey' /\ Settled' /\ Underway'
    <3>1. core'.pc = "rollback" /\ UNCHANGED <<core.scheduler, core.previous, core.stash_created>>
      BY <1>0, <2>6 DEF Then, CoreType
    <3>2. \A w \in Workers : /\ ByKey(LoadFailed(worker[w], core.new, built))
                             /\ HasStashed(LoadFailed(worker[w], core.new, built), core.previous)
      BY <2>4, Zenon
    <3>3. \A w \in Workers : worker'[w] = load_model(worker[w], core.new) \/ worker'[w] = LoadFailed(worker[w], core.new, built)
      BY <2>6, Zenon
    <3>4. \A w \in Workers : ByKey(worker'[w]) /\ HasStashed(worker'[w], core.previous)
      BY <2>3, <3>2, <3>3, Zenon
    <3>5. QED BY <1>0, <1>a, <2>1, <3>1, <3>4 DEF StashedByKey, Settled, Underway
  <2>7. QED BY <1>4, <2>5, <2>6, Zenon DEF Load
<1>5. CASE InitializeKVCaches
  <2>1. core.pc = "kv"
    BY <1>5 DEF InitializeKVCaches, At
  <2>2. /\ core' = [core EXCEPT !.pc = "rebuild", !.config = core.new]
           \/ core' = [core EXCEPT !.pc = "rollback", !.config = core.new]
        /\ \E ok : worker' = [w \in Workers |->
             IF w \in ok THEN initialize_from_config(worker[w], core.new) ELSE worker[w]]
    <3>1. worker' = [w \in Workers |-> initialize_from_config(worker[w], core.new)] =>
            worker' = [w \in Workers |->
              IF w \in Workers THEN initialize_from_config(worker[w], core.new) ELSE worker[w]]
      OBVIOUS
    <3>2. QED BY <1>5, <3>1 DEF InitializeKVCaches
  <2>3. /\ core'.pc \in {"rebuild", "rollback"} /\ core'.config = core.new
        /\ UNCHANGED <<core.scheduler, core.previous, core.new, core.stash_created>>
    BY <1>0, <2>2 DEF CoreType
  <2>4. core.new \in Models
    BY <1>c, <2>1
  <2>5. \A w \in Workers : SameModels(worker'[w], worker[w])
    BY <1>0, <2>2, <2>4, InitializeKeeps DEF SameModels
  <2>6. StashedByKey'
    BY <1>0, <2>5 DEF StashedByKey, ByKey, SameModels
  <2>7. Underway'
    BY <1>0, <1>a, <2>1, <2>3, <2>5 DEF Underway, Means, HasStashed, SameModels
  <2>8. QED BY <2>3, <2>6, <2>7 DEF Settled
<1>6. CASE Rebuild
  <2>1. core.pc = "rebuild" /\ UNCHANGED worker
    BY <1>6 DEF Rebuild, At
  <2>2. core' = [core EXCEPT !.pc = "resume", !.scheduler = core.new]
    BY <1>6 DEF Rebuild, MayFail, Recoverable
  <2>3. /\ core'.pc = "resume" /\ core'.scheduler = core.new
        /\ UNCHANGED <<core.config, core.previous, core.new, core.stash_created>>
    BY <1>0, <2>2 DEF CoreType
  <2>4. QED BY <1>0, <1>a, <2>1, <2>3 DEF StashedByKey, Settled, Underway
<1>7. CASE ResumeScheduler
  <2>1. /\ core.pc = "resume" /\ UNCHANGED worker
        /\ core' = [core EXCEPT !.pc = "ready", !.sleeping_tags = {}, !.paused = FALSE, !.reply = "ok"]
    BY <1>7 DEF ResumeScheduler, At
  <2>2. core'.pc = "ready" /\ core'.reply = "ok" /\ UNCHANGED <<core.config, core.scheduler>>
    BY <1>0, <2>1 DEF CoreType
  <2>3. core.config = core.new /\ core.scheduler = core.new /\ \A w \in Workers : Means(worker[w], core.new)
    BY <1>0, <2>1 DEF Underway
  <2>4. Served' = core.new
    BY <1>a, <1>c, <2>1, <2>2 DEF Served
  <2>5. QED BY <1>0, <2>1, <2>2, <2>3, <2>4 DEF StashedByKey, Settled, Underway
<1>8. CASE Rollback
  <2>1. core.pc = "rollback" /\ core.previous \in Models
    BY <1>8, <1>c DEF Rollback, At
  <2>2. worker' = [w \in Workers |->
          IF core.stash_created THEN restore_stashed_model(worker[w], core.previous, TRUE) ELSE worker[w]]
    <3>1. PICK ok \in {Workers} : worker' = [w \in Workers |->
            IF core.stash_created /\ w \in ok
              THEN restore_stashed_model(worker[w], core.previous, TRUE) ELSE worker[w]]
      BY <1>8 DEF Rollback, MayFail, Recoverable
    <3>2. QED BY <3>1
  <2>3. core' = [core EXCEPT !.pc = "ready", !.config = core.previous, !.paused = FALSE, !.reply = "error"]
    BY <1>8 DEF Rollback
  <2>4. core'.pc = "ready" /\ core'.config = core.previous /\ core'.reply = "error" /\ UNCHANGED core.scheduler
    BY <1>0, <2>3 DEF CoreType
  <2>5. Served' = core.previous
    BY <1>a, <1>c, <2>1, <2>4 DEF Served
  <2>6. \A w \in WorkerType : ByKey(w) /\ HasStashed(w, core.previous) =>
          /\ ByKey(restore_stashed_model(w, core.previous, TRUE))
          /\ Means(restore_stashed_model(w, core.previous, TRUE), core.previous)
    BY <2>1, RestoreMoves, Zenon
  <2>7. \A w \in Workers : ByKey(worker[w]) /\ worker[w] \in WorkerType /\
          IF core.stash_created THEN HasStashed(worker[w], core.previous) ELSE Means(worker[w], core.previous)
    BY <1>0, <2>1 DEF StashedByKey, Underway
  <2>8. \A w \in Workers : ByKey(worker'[w]) /\ Means(worker'[w], core.previous)
    BY <2>2, <2>6, <2>7
  <2>9. core.scheduler = core.previous
    BY <1>0, <2>1 DEF Underway
  <2>10. QED BY <2>4, <2>5, <2>8, <2>9 DEF StashedByKey, Settled, Underway
<1>9. QED BY <1>1, <1>2, <1>3, <1>4, <1>5, <1>6, <1>7, <1>8 DEF Reconfigure

LEMMA InitialAgreement ==
  ASSUME Init
  PROVE  AgreeInv
<1>1. TypeInv
  BY InitialTypes
<1>2. core.pc = "ready" /\ core.reply = NONE /\ core.config = Default /\ core.scheduler = Default
      /\ manager.current = Default /\ frontend.config = Default
  BY DEF Init
<1>3. \A w \in Workers : Means(worker[w], Default) /\ ByKey(worker[w])
  BY DEF Init, Means, ByKey, Keys, NoStash, NoRunner
<1>4. StashedByKey /\ Settled /\ Underway
  BY <1>2, <1>3, SwitchAssumption DEF StashedByKey, Settled, Underway, Served
<1>5. OneServed
  <2>1. manager.sleeping = [m \in Models |-> IF m = Default THEN "no" ELSE "unset"]
    BY DEF Init
  <2>2. \A m \in Models : manager.sleeping[m] = "no" <=> m = Default
    BY <2>1
  <2>3. QED BY <1>2, <2>2, SwitchAssumption DEF OneServed
<1>6. QED BY <1>1, <1>4, <1>5 DEF AgreeInv

LEMMA AgreeStep ==
  ASSUME Recoverable, AgreeInv, [Next]_vars
  PROVE  AgreeInv'
<1>1. TypeInv'
  BY TypesStep DEF AgreeInv
<1>2. CASE UNCHANGED vars
  BY <1>1, <1>2, AgreeKept DEF vars, SameModels
<1>3. CASE Next
  BY <1>1, <1>3, AgreeFrontend, AgreeManager, AgreeMessages, AgreeReconfigure DEF Next
<1>4. QED BY <1>2, <1>3

LEMMA AgreeSuffices ==
  ASSUME AgreeInv
  PROVE  Agreement
<1>1. manager.phase = "idle" => core.pc = "ready" /\ core.reply = NONE
  BY DEF AgreeInv, TypeInv, Phases
<1>2. manager.phase = "idle" =>
        /\ frontend.config = manager.current /\ core.config = manager.current
        /\ core.scheduler = manager.current
        /\ \A w \in Workers : Means(worker[w], manager.current)
  BY <1>1, SwitchAssumption DEF AgreeInv, Settled, Served, OneServed
<1>3. QED BY <1>2 DEF Agreement, AgreeInv, OneServed, Means

(* For any failures of five steps out of nine, on any workers, with requests   *)
(* and calls of the endpoints at any time: between switches everyone means one *)
(* model, whether the last switch succeeded or was rolled back.                *)
THEOREM AgreementHolds ==
  ASSUME Recoverable
  PROVE  PartSpec => []Agreed
<1> DEFINE Inv == part = "contained" => AgreeInv
<1>1. PartInit => Inv
  BY InitialAgreement DEF PartInit, Contained
<1>2. Inv /\ [PartNext]_partVars => Inv'
  <2>1. CASE UNCHANGED partVars
    BY <2>1, AgreeStep DEF partVars
  <2>2. CASE PartNext
    BY <2>2, AgreeStep DEF PartNext, Contained
  <2>3. QED BY <2>1, <2>2
<1>3. Inv => Agreed
  BY AgreeSuffices DEF Agreed, Contained
<1>4. QED BY <1>1, <1>2, <1>3, PTL DEF PartSpec

-----------------------------------------------------------------------------
(* Device state: what the operations do to a worker awake or asleep.           *)
LEMMA FallsAsleep ==
  ASSUME NEW w \in WorkerType, NEW m \in Models, Awake(w, m)
  PROVE  IsAsleep(sleep(w), m)
<1> DEFINE v == SleepModel(w)
<1>1. m # NONE
  BY SwitchAssumption
<1>2. v = [w EXCEPT !.runner.on_hpu = FALSE, !.model_sleeping = TRUE]
  BY <1>1 DEF SleepModel, Awake
<1>3. /\ v.runner.model = m /\ ~v.runner.on_hpu /\ v.model_sleeping
      /\ ~v.kv_cache_sleeping /\ v.kv_cache_config = m /\ v \in WorkerType
  <2>1. /\ v.runner = [w.runner EXCEPT !.on_hpu = FALSE] /\ v.model_sleeping
        /\ ~v.kv_cache_sleeping /\ v.kv_cache_config = m
    BY <1>2 DEF Awake, WorkerType
  <2>2. w.runner \in RunnerType /\ w.runner.model = m
    BY DEF Awake, WorkerType
  <2>3. v.runner.model = m /\ ~v.runner.on_hpu
    BY <2>1, <2>2 DEF RunnerType
  <2>4. v \in WorkerType
    BY <1>2 DEF WorkerType, RunnerType
  <2>5. QED BY <2>1, <2>3, <2>4
<1> HIDE DEF v
<1>4. SleepCache(v) = [v EXCEPT !.runner.kv_caches = NONE, !.runner.defragmenter = FALSE,
                                !.kv_cache_sleeping = TRUE]
  BY <1>1, <1>3 DEF SleepCache
<1>5. IsAsleep(SleepCache(v), m)
  <2>1. /\ SleepCache(v).runner = [v.runner EXCEPT !.kv_caches = NONE, !.defragmenter = FALSE]
        /\ SleepCache(v).kv_cache_sleeping /\ SleepCache(v).model_sleeping
        /\ SleepCache(v).kv_cache_config = m
    BY <1>3, <1>4 DEF WorkerType
  <2>2. v.runner \in RunnerType
    BY <1>3 DEF WorkerType
  <2>3. QED BY <1>3, <2>1, <2>2 DEF IsAsleep, RunnerType
<1>6. QED BY <1>5 DEF sleep, v

LEMMA ModelWakes ==
  ASSUME NEW w \in WorkerType, NEW m \in Models, IsAsleep(w, m)
  PROVE  /\ WakeModel(w) \in WorkerType
         /\ WakeModel(w).runner.model = m /\ WakeModel(w).runner.on_hpu /\ ~WakeModel(w).model_sleeping
         /\ WakeModel(w).kv_cache_sleeping /\ WakeModel(w).kv_cache_config = m
<1>1. m # NONE
  BY SwitchAssumption
<1>2. WakeModel(w) = [w EXCEPT !.runner.on_hpu = TRUE, !.model_sleeping = FALSE]
  BY <1>1 DEF WakeModel, IsAsleep
<1>3. w.runner \in RunnerType /\ w.runner.model = m
  BY DEF IsAsleep, WorkerType
<1>4. /\ WakeModel(w).runner = [w.runner EXCEPT !.on_hpu = TRUE] /\ ~WakeModel(w).model_sleeping
      /\ WakeModel(w).kv_cache_sleeping /\ WakeModel(w).kv_cache_config = m
  BY <1>2 DEF IsAsleep, WorkerType
<1>5. QED BY <1>3, <1>4, WakeModelKeeps DEF RunnerType

LEMMA CacheWakes ==
  ASSUME NEW v \in WorkerType, NEW m \in Models, v.runner.model = m, v.runner.on_hpu, ~v.model_sleeping,
         v.kv_cache_sleeping, v.kv_cache_config = m
  PROVE  Awake(WakeCache(v), m)
<1>1. m # NONE
  BY SwitchAssumption
<1>2. WakeCache(v) = [v EXCEPT !.runner.kv_caches = v.kv_cache_config, !.runner.defragmenter = TRUE,
                               !.kv_cache_sleeping = FALSE]
  BY <1>1 DEF WakeCache
<1>3. /\ WakeCache(v).runner = [v.runner EXCEPT !.kv_caches = m, !.defragmenter = TRUE]
      /\ ~WakeCache(v).kv_cache_sleeping /\ ~WakeCache(v).model_sleeping
      /\ WakeCache(v).kv_cache_config = m
  BY <1>2 DEF WorkerType
<1>4. v.runner \in RunnerType
  BY DEF WorkerType
<1>5. QED BY <1>3, <1>4 DEF Awake, RunnerType

LEMMA WakesUp ==
  ASSUME NEW w \in WorkerType, NEW m \in Models, IsAsleep(w, m) \/ Awake(w, m)
  PROVE  Awake(wake_up(w, Tags), m)
<1>1. wake_up(w, Tags) = WakeCache(WakeModel(w))
  BY DEF wake_up, Tags
<1>2. CASE IsAsleep(w, m)
  BY <1>1, <1>2, ModelWakes, CacheWakes
<1>3. CASE Awake(w, m)
  <2>1. WakeModel(w) = w /\ WakeCache(w) = w
    BY <1>3 DEF WakeModel, WakeCache, Awake
  <2>2. QED BY <1>1, <1>3, <2>1
<1>4. QED BY <1>2, <1>3

LEMMA UnloadsAsleep ==
  ASSUME Recoverable, NEW w \in WorkerType, NEW m \in Models, IsAsleep(w, m), KeptAsleep(w)
  PROVE  KeptAsleep(unload_model(w)) /\ ~unload_model(w).model_sleeping /\ ~unload_model(w).kv_cache_sleeping
<1> DEFINE s == [runner |-> w.runner, model_sleeping |-> w.model_sleeping,
                 kv_cache_sleeping |-> w.kv_cache_sleeping, kv_cache_config |-> w.kv_cache_config]
<1>1. w.runner.model = m /\ m # NONE
  BY SwitchAssumption DEF IsAsleep
<1>2. unload_model(w).stash = [w.stash EXCEPT ![KeyOf[m]] = s]
      /\ ~unload_model(w).model_sleeping /\ ~unload_model(w).kv_cache_sleeping
  BY <1>1, Unloads
<1>3. IsAsleep(s, m)
  BY DEF IsAsleep
<1> HIDE DEF s
<1>4. w.stash \in [Keys -> StashType] /\ \A n \in Models : KeyOf[n] \in Keys
  BY DEF WorkerType, Keys
<1>5. \A n \in Models : unload_model(w).stash[KeyOf[n]] = IF n = m THEN s ELSE w.stash[KeyOf[n]]
  BY <1>2, <1>4 DEF Recoverable
<1>6. QED BY <1>2, <1>3, <1>5 DEF KeptAsleep

LEMMA StashThinned ==
  ASSUME Recoverable, NEW w \in WorkerType, KeptAsleep(w), NEW m \in Models,
         NEW v, v.stash = [w.stash EXCEPT ![KeyOf[m]] = NoStash] \/ v.stash = w.stash
  PROVE  KeptAsleep(v)
<1>1. w.stash \in [Keys -> StashType] /\ \A n \in Models : KeyOf[n] \in Keys
  BY DEF WorkerType, Keys
<1>2. \A n \in Models : v.stash[KeyOf[n]] = w.stash[KeyOf[n]] \/ v.stash[KeyOf[n]] = NoStash
  BY <1>1
<1>3. QED BY <1>2 DEF KeptAsleep

(* A runner that comes out of the stash was put there asleep.                  *)
LEMMA Unstashes ==
  ASSUME NEW w \in WorkerType, KeptAsleep(w), NEW m \in Models, Stashed(w, m)
  PROVE  Unstashed(w, KeyOf[m]) \in WorkerType /\ IsAsleep(Unstashed(w, KeyOf[m]), m)
<1>1. KeyOf[m] \in Keys /\ w.stash[KeyOf[m]].runner.model # NONE
  BY DEF Keys, Stashed
<1>2. IsAsleep(w.stash[KeyOf[m]], m)
  BY <1>1 DEF KeptAsleep, NoStash, NoRunner
<1>3. Unstashed(w, KeyOf[m]) \in WorkerType
  BY <1>1, UnstashedFacts
<1>4. IsAsleep(Unstashed(w, KeyOf[m]), m)
  <2>1. w.stash[KeyOf[m]] \in StashType
    BY <1>1 DEF WorkerType
  <2> DEFINE s == w.stash[KeyOf[m]]
  <2>2. Unstashed(w, KeyOf[m]) =
          [w EXCEPT !.runner = s.runner, !.stash[KeyOf[m]] = NoStash, !.config = s.runner.model,
                    !.model_sleeping = s.model_sleeping, !.kv_cache_sleeping = s.kv_cache_sleeping,
                    !.kv_cache_config = s.kv_cache_config]
    BY DEF Unstashed
  <2> HIDE DEF s
  <2>3. QED BY <1>2, <2>2 DEF IsAsleep, WorkerType, s
<1>5. QED BY <1>3, <1>4

LEMMA LoadsAwake ==
  ASSUME Recoverable, NEW w \in WorkerType, KeptAsleep(w), NEW m \in Models
  PROVE  /\ KeptAsleep(load_model(w, m)) /\ load_model(w, m).runner.on_hpu
         /\ ~load_model(w, m).model_sleeping /\ ~load_model(w, m).kv_cache_sleeping
<1>1. KeptAsleep(load_model(w, m))
  BY LoadKeeps, StashThinned
<1>2. CASE Stashed(w, m)
  <2> DEFINE v == [w EXCEPT !.config = m]
             u == Unstashed(v, KeyOf[m])
  <2>1. v \in WorkerType /\ v.stash = w.stash
    BY DEF WorkerType
  <2>2. Stashed(v, m) /\ KeptAsleep(v)
    BY <1>2, <2>1 DEF Stashed, KeptAsleep
  <2>3. load_model(w, m) = [WakeModel(u) EXCEPT !.kv_cache_sleeping = FALSE]
    <3>1. load_model(w, m) = restore_stashed_model(v, m, FALSE)
      BY <1>2 DEF load_model
    <3>2. QED BY <2>2, <3>1 DEF restore_stashed_model
  <2> HIDE DEF v
  <2>4. u \in WorkerType /\ IsAsleep(u, m)
    BY <2>1, <2>2, Unstashes
  <2> HIDE DEF u
  <2>5. WakeModel(u) \in WorkerType /\ WakeModel(u).runner.on_hpu /\ ~WakeModel(u).model_sleeping
    BY <2>4, ModelWakes
  <2>6. QED BY <1>1, <2>3, <2>5 DEF WorkerType
<1>3. CASE ~Stashed(w, m)
  <2>1. load_model(w, m) =
          [w EXCEPT !.config = m, !.runner = [NoRunner EXCEPT !.model = m, !.on_hpu = TRUE],
                    !.model_sleeping = FALSE, !.kv_cache_sleeping = FALSE]
    BY <1>3 DEF load_model
  <2>2. [NoRunner EXCEPT !.model = m, !.on_hpu = TRUE].on_hpu
    BY DEF NoRunner
  <2>3. QED BY <1>1, <2>1, <2>2 DEF WorkerType
<1>4. QED BY <1>2, <1>3

LEMMA LaidOut ==
  ASSUME NEW w \in WorkerType, NEW m \in Models, w.runner.model = m, w.runner.on_hpu, ~w.model_sleeping
  PROVE  Awake(initialize_from_config(w, m), m)
BY DEF initialize_from_config, Awake, WorkerType, RunnerType

LEMMA RestoresAwake ==
  ASSUME Recoverable, NEW w \in WorkerType, KeptAsleep(w), NEW m \in Models, HasStashed(w, m)
  PROVE  KeptAsleep(restore_stashed_model(w, m, TRUE)) /\ Awake(restore_stashed_model(w, m, TRUE), m)
<1>1. Stashed(w, m)
  BY SwitchAssumption DEF Stashed, HasStashed
<1> DEFINE u == Unstashed(w, KeyOf[m])
<1>2. restore_stashed_model(w, m, TRUE) = WakeCache(WakeModel(u))
  BY <1>1 DEF restore_stashed_model
<1>3. u \in WorkerType /\ IsAsleep(u, m)
  BY <1>1, Unstashes
<1>4. restore_stashed_model(w, m, TRUE).stash = [w.stash EXCEPT ![KeyOf[m]] = NoStash]
  BY <1>1, RestoreKeeps, Zenon
<1> HIDE DEF u
<1>5. Awake(WakeCache(WakeModel(u)), m)
  BY <1>3, ModelWakes, CacheWakes
<1>6. KeptAsleep(restore_stashed_model(w, m, TRUE))
  BY <1>4, StashThinned
<1>7. QED BY <1>2, <1>5, <1>6

-----------------------------------------------------------------------------
(* The steps that leave the workers alone.                                     *)
LEMMA DeviceKept ==
  ASSUME DeviceState, Behind => Behind',
         UNCHANGED <<worker, core.pc, core.scheduler, core.sleeping_tags, core.paused, core.new,
                     core.previous, core.stash_created>>
  PROVE  DeviceState'
BY DEF DeviceState

LEMMA ReadySent ==
  ASSUME ReadyInv, AgreeInv', UNCHANGED <<core, worker>>, Behind => Behind', NEW c \in CallType,
         c.call # "resume", c.call = "wake_up" => c.tags = Tags, inbox' = Append(inbox, c)
  PROVE  ReadyInv'
<1>1. inbox \in Seq(CallType)
  BY DEF ReadyInv, AgreeInv, TypeInv, TypeOK
<1>2. /\ DOMAIN inbox = 1..Len(inbox) /\ Len(inbox) \in Nat /\ DOMAIN inbox' = 1..(Len(inbox) + 1)
      /\ \A i \in DOMAIN inbox : inbox'[i] = inbox[i]
      /\ inbox'[Len(inbox) + 1] = c
  BY <1>1, Sent
<1>3. StashAsleep' /\ DeviceState'
  BY DeviceKept DEF ReadyInv, StashAsleep
<1>4. TagsTogether'
  BY <1>2 DEF ReadyInv, TagsTogether
<1>5. WakesFirst'
  <2>1. ASSUME NEW i \in DOMAIN inbox', inbox'[i].call = "resume"
        PROVE  IF i = 1 THEN core.sleeping_tags = {} ELSE inbox'[i - 1].call = "wake_up"
    <3>1. i \in DOMAIN inbox /\ inbox[i].call = "resume"
      BY <1>2, <2>1
    <3>2. i # 1 => i - 1 \in DOMAIN inbox
      BY <1>2, <3>1
    <3>3. QED BY <1>2, <3>1, <3>2 DEF ReadyInv, WakesFirst
  <2>2. QED BY <2>1 DEF WakesFirst
<1>6. QED BY <1>3, <1>4, <1>5 DEF ReadyInv

LEMMA ReadyFrontend ==
  ASSUME Undisturbed, ReadyInv, AgreeInv',
         \/ \E q \in Requests : Submit(q) \/ Deliver(q) \/ Execute(q)
         \/ SleepEndpoint \/ \E tags \in WakeTags : WakeEndpoint(tags)
  PROVE  ReadyInv'
<1>0. manager \in ManagerType /\ inbox \in Seq(CallType)
  BY DEF ReadyInv, AgreeInv, TypeInv, TypeOK
<1>1. ASSUME NEW c \in CallType, inbox' = Append(inbox, c), UNCHANGED <<manager.phase, core>>
      PROVE  Behind => Behind'
  <2>1. DOMAIN inbox \subseteq DOMAIN inbox' /\ \A i \in DOMAIN inbox : inbox'[i] = inbox[i]
    BY <1>0, <1>1, Sent
  <2>2. QED BY <1>1, <2>1 DEF Behind, InInbox
<1>2. ASSUME NEW q \in Requests, Submit(q)
      PROVE  ReadyInv'
  <2> DEFINE c == [Call("add_request") EXCEPT !.req = q]
  <2>1. c \in CallType /\ c.call = "add_request"
    BY CallTypes
  <2> HIDE DEF c
  <2>2. inbox' = Append(inbox, c) /\ UNCHANGED <<manager, core, worker>>
    BY <1>2 DEF Submit, c
  <2>3. QED BY <1>1, <2>1, <2>2, ReadySent
<1>3. ASSUME NEW q \in Requests, Deliver(q) \/ Execute(q)
      PROVE  ReadyInv'
  <2>1. UNCHANGED <<manager, core, inbox, worker>>
    BY <1>3 DEF Deliver, Execute
  <2>2. QED BY <2>1 DEF ReadyInv, StashAsleep, TagsTogether, WakesFirst, DeviceState, Behind, InInbox
<1>4. CASE SleepEndpoint
  <2>1. Call("sleep") \in CallType /\ Call("sleep").call = "sleep"
    BY CallTypes
  <2>2. inbox' = Append(inbox, Call("sleep")) /\ UNCHANGED <<manager.phase, core, worker>>
    BY <1>0, <1>4 DEF SleepEndpoint, ManagerType
  <2>3. QED BY <1>1, <2>1, <2>2, ReadySent
<1>5. ASSUME NEW tags \in WakeTags, WakeEndpoint(tags)
      PROVE  ReadyInv'
  <2>1. tags = Tags
    BY DEF Undisturbed
  <2>2. WakeCall(tags) \in CallType /\ WakeCall(tags).call = "wake_up" /\ WakeCall(tags).tags = Tags
    BY <2>1, CallTypes
  <2>3. inbox' = Append(inbox, WakeCall(tags)) /\ UNCHANGED <<manager, core, worker>>
    BY <1>5 DEF WakeEndpoint
  <2>4. QED BY <1>1, <2>2, <2>3, ReadySent
<1>6. QED BY <1>2, <1>3, <1>4, <1>5

LEMMA ReadyManager ==
  ASSUME Recoverable, ReadyInv, AgreeInv', (\E m \in Models : StartSwitch(m)) \/ Manager
  PROVE  ReadyInv'
<1>0. /\ manager \in ManagerType /\ core \in CoreType /\ inbox \in Seq(CallType) /\ Phases
      /\ NONE \notin {"ok", "error"} /\ StashAsleep /\ TagsTogether /\ WakesFirst /\ DeviceState
  BY SwitchAssumption DEF ReadyInv, AgreeInv, TypeInv, TypeOK
<1>1. ASSUME NEW m \in Models, StartSwitch(m)
      PROVE  ReadyInv'
  <2>1. UNCHANGED <<core, inbox, worker>> /\ manager.phase = "idle"
    BY <1>1 DEF StartSwitch
  <2>2. QED BY <1>0, <2>1 DEF ReadyInv, StashAsleep, TagsTogether, WakesFirst, DeviceState, Behind
<1>2. CASE Drained
  <2>1. Call("reconfigure") \in CallType /\ Call("reconfigure").call = "reconfigure"
    BY CallTypes
  <2>2. inbox' = Append(inbox, Call("reconfigure")) /\ UNCHANGED <<core, worker>> /\ manager.phase = "drain"
    BY <1>2 DEF Drained
  <2>3. ~Behind
    BY <2>2 DEF Behind
  <2>4. QED BY <2>1, <2>2, <2>3, ReadySent
<1>3. CASE Refresh
  <2>1. core.reply = "ok" /\ core' = [core EXCEPT !.reply = NONE] /\ UNCHANGED <<inbox, worker>>
        /\ manager.phase = "reconfigure"
    BY <1>3 DEF Refresh
  <2>2. UNCHANGED <<core.pc, core.scheduler, core.sleeping_tags, core.paused, core.new, core.previous,
                    core.stash_created>>
    BY <1>0, <2>1 DEF CoreType
  <2>3. ~Behind
    BY <2>1 DEF Behind
  <2>4. DeviceState'
    BY <1>0, <2>1, <2>2, <2>3, DeviceKept
  <2>5. StashAsleep' /\ TagsTogether' /\ WakesFirst'
    BY <1>0, <2>1, <2>2 DEF StashAsleep, TagsTogether, WakesFirst
  <2>6. QED BY <2>4, <2>5 DEF ReadyInv
<1>4. CASE RefreshFails
  BY <1>4 DEF RefreshFails, Recoverable
<1>5. CASE ReconfigureFailed
  <2>1. /\ core.reply = "error" /\ core' = [core EXCEPT !.reply = NONE] /\ UNCHANGED worker
        /\ manager.phase = "reconfigure"
        /\ inbox' = inbox \o <<WakeCall(Tags), Call("resume")>>
        /\ manager' = [manager EXCEPT !.phase = "recover"]
    BY <1>5 DEF ReconfigureFailed, Recover
  <2>2. /\ UNCHANGED <<core.pc, core.scheduler, core.sleeping_tags, core.paused, core.new, core.previous,
                       core.stash_created>>
        /\ manager'.phase = "recover"
    BY <1>0, <2>1 DEF CoreType, ManagerType
  <2>3. /\ WakeCall(Tags) \in CallType /\ WakeCall(Tags).call = "wake_up" /\ WakeCall(Tags).tags = Tags
        /\ Call("resume") \in CallType /\ Call("resume").call = "resume"
    BY CallTypes
  <2>4. /\ DOMAIN inbox = 1..Len(inbox) /\ Len(inbox) \in Nat /\ DOMAIN inbox' = 1..(Len(inbox) + 2)
        /\ \A i \in DOMAIN inbox : inbox'[i] = inbox[i]
        /\ inbox'[Len(inbox) + 1] = WakeCall(Tags) /\ inbox'[Len(inbox) + 2] = Call("resume")
    <3> DEFINE wake == WakeCall(Tags)
               resume == Call("resume")
    <3>1. inbox' = inbox \o <<wake, resume>> /\ wake \in CallType /\ resume \in CallType
      BY <2>1, <2>3
    <3> HIDE DEF wake, resume
    <3>2. /\ DOMAIN inbox = 1..Len(inbox) /\ Len(inbox) \in Nat /\ DOMAIN inbox' = 1..(Len(inbox) + 2)
          /\ \A i \in DOMAIN inbox : inbox'[i] = inbox[i]
          /\ inbox'[Len(inbox) + 1] = wake /\ inbox'[Len(inbox) + 2] = resume
      BY <1>0, <3>1
    <3>3. QED BY <3>2 DEF wake, resume
  <2>5. Behind'
    BY <2>2, <2>3, <2>4 DEF Behind, InInbox
  <2>6. ~InInbox("resume")
    BY <1>0, <2>1 DEF Phases
  <2>7. WakesFirst'
    <3>1. ASSUME NEW i \in DOMAIN inbox', inbox'[i].call = "resume"
          PROVE  i = Len(inbox) + 2
      BY <2>3, <2>4, <2>6, <3>1 DEF InInbox
    <3>2. QED BY <2>3, <2>4, <3>1 DEF WakesFirst
  <2>8. TagsTogether'
    <3>1. ASSUME NEW i \in DOMAIN inbox', inbox'[i].call = "wake_up"
          PROVE  inbox'[i].tags = Tags
      <4>1. i \in DOMAIN inbox \/ i = Len(inbox) + 1 \/ i = Len(inbox) + 2
        BY <2>4
      <4>2. CASE i \in DOMAIN inbox
        BY <1>0, <2>4, <3>1, <4>2 DEF TagsTogether
      <4>3. CASE i \notin DOMAIN inbox
        BY <2>3, <2>4, <3>1, <4>1, <4>3
      <4>4. QED BY <4>2, <4>3
    <3>2. QED BY <1>0, <2>2, <3>1 DEF TagsTogether
  <2>9. DeviceState'
    BY <1>0, <2>1, <2>2, <2>5, DeviceKept
  <2>10. StashAsleep'
    BY <1>0, <2>1 DEF StashAsleep
  <2>11. QED BY <2>7, <2>8, <2>9, <2>10 DEF ReadyInv
<1>6. CASE Recovered
  <2>1. UNCHANGED <<core, inbox, worker>> /\ manager.phase = "recover" /\ ~InInbox("resume")
    BY <1>6 DEF Recovered, InInbox
  <2>2. ~Behind
    BY <2>1 DEF Behind
  <2>3. QED BY <1>0, <2>1, <2>2, DeviceKept DEF ReadyInv, StashAsleep, TagsTogether, WakesFirst
<1>7. QED BY <1>1, <1>2, <1>3, <1>4, <1>5, <1>6 DEF Manager

(* A call is taken: the rest of the inbox keeps what is known of it.           *)
LEMMA RestOfInbox ==
  ASSUME ReadyInv, inbox # <<>>, inbox' = Tail(inbox), core'.sleeping_tags \in {{}, Tags},
         Head(inbox).call = "wake_up" => core'.sleeping_tags = {}
  PROVE  TagsTogether' /\ WakesFirst'
<1>1. inbox \in Seq(CallType) /\ TagsTogether /\ WakesFirst
  BY DEF ReadyInv, AgreeInv, TypeInv, TypeOK
<1>2. /\ DOMAIN inbox = 1..Len(inbox) /\ Len(inbox) \in Nat \ {0} /\ Head(inbox) = inbox[1]
      /\ DOMAIN inbox' = 1..(Len(inbox) - 1)
      /\ \A i \in DOMAIN inbox' : inbox'[i] = inbox[i + 1] /\ i + 1 \in DOMAIN inbox
  BY <1>1, Taken
<1>3. TagsTogether'
  BY <1>1, <1>2 DEF TagsTogether
<1>4. ASSUME NEW i \in DOMAIN inbox', inbox'[i].call = "resume"
      PROVE  IF i = 1 THEN core'.sleeping_tags = {} ELSE inbox'[i - 1].call = "wake_up"
  <2>1. i \in Nat /\ i + 1 \in DOMAIN inbox /\ inbox[i + 1].call = "resume" /\ i + 1 # 1 /\ i + 1 - 1 = i
    BY <1>2, <1>4
  <2>2. inbox[i].call = "wake_up"
    <3>1. PICK j \in DOMAIN inbox : j = i + 1
      BY <2>1
    <3>2. inbox[j].call = "resume" /\ j # 1 /\ j - 1 = i
      BY <2>1, <3>1
    <3>3. inbox[j - 1].call = "wake_up"
      BY <1>1, <3>2 DEF WakesFirst
    <3>4. QED BY <3>2, <3>3
  <2>3. i # 1 => i - 1 \in DOMAIN inbox' /\ inbox'[i - 1] = inbox[i]
    BY <1>2, <2>1
  <2>4. QED BY <1>2, <2>2, <2>3
<1>5. QED BY <1>3, <1>4 DEF WakesFirst

LEMMA ReadyMessages ==
  ASSUME ReadyInv, AgreeInv', Messages
  PROVE  ReadyInv'
<1>0. /\ core \in CoreType /\ worker \in [Workers -> WorkerType] /\ inbox \in Seq(CallType)
      /\ StashAsleep /\ TagsTogether /\ WakesFirst /\ DeviceState
  BY DEF ReadyInv, AgreeInv, TypeInv, TypeOK
<1>1. core.pc = "ready" /\ inbox # <<>> /\ inbox' = Tail(inbox) /\ UNCHANGED manager
  BY DEF Messages, TakeRequest, TakeSleep, TakeWakeUp, TakeResume, Takes
<1>2. /\ DOMAIN inbox = 1..Len(inbox) /\ Len(inbox) \in Nat \ {0} /\ Head(inbox) = inbox[1]
      /\ \A i \in DOMAIN inbox' : inbox'[i] = inbox[i + 1]
      /\ DOMAIN inbox' = 1..(Len(inbox) - 1)
  BY <1>0, <1>1, Taken
<1>3. Head(inbox).call # "resume" /\ core'.reply = core.reply /\ Behind => Behind'
  <2>1. ASSUME InInbox("resume"), Head(inbox).call # "resume"
        PROVE  InInbox("resume")'
    <3>1. PICK i \in DOMAIN inbox : inbox[i].call = "resume"
      BY <2>1 DEF InInbox
    <3>2. i - 1 \in DOMAIN inbox' /\ inbox'[i - 1] = inbox[i]
      BY <1>2, <2>1, <3>1
    <3>3. QED BY <3>1, <3>2 DEF InInbox
  <2>2. QED BY <1>1, <2>1 DEF Behind
<1>4. core.scheduler \in Models
  BY <1>0 DEF CoreType
<1>5. CASE TakeRequest
  <2>1. Head(inbox).call = "add_request" /\ UNCHANGED <<core, worker>>
    BY <1>5 DEF TakeRequest, Takes
  <2>2. DeviceState'
    BY <1>0, <1>3, <2>1, DeviceKept
  <2>3. StashAsleep'
    BY <1>0, <2>1 DEF StashAsleep
  <2>4. TagsTogether' /\ WakesFirst'
    BY <1>0, <1>1, <2>1, RestOfInbox DEF TagsTogether
  <2>5. QED BY <2>2, <2>3, <2>4 DEF ReadyInv
<1>6. CASE TakeSleep
  <2>1. /\ Head(inbox).call = "sleep" /\ core' = [core EXCEPT !.paused = TRUE, !.sleeping_tags = Tags]
        /\ worker' = IF core.sleeping_tags # {} THEN worker ELSE [w \in Workers |-> sleep(worker[w])]
    BY <1>6 DEF TakeSleep, Takes
  <2>2. core'.paused /\ core'.sleeping_tags = Tags /\ UNCHANGED <<core.pc, core.scheduler, core.reply>>
    BY <1>0, <2>1 DEF CoreType
  <2>3. TagsTogether' /\ WakesFirst'
    BY <1>1, <2>1, <2>2, RestOfInbox
  <2>4. StashAsleep'
    BY <1>0, <2>1, SleepKeeps DEF StashAsleep, KeptAsleep
  <2>5. Tags # {}
    BY DEF Tags
  <2>6. CASE core.sleeping_tags = {}
    <3>1. \A w \in Workers : Awake(worker[w], core.scheduler)
      BY <1>0, <1>1, <2>5, <2>6 DEF DeviceState
    <3>2. \A w \in Workers : IsAsleep(worker'[w], core.scheduler)
      BY <1>0, <1>4, <2>1, <2>6, <3>1, FallsAsleep
    <3>3. DeviceState'
      BY <1>1, <2>2, <3>2 DEF DeviceState
    <3>4. QED BY <2>3, <2>4, <3>3 DEF ReadyInv
  <2>7. CASE core.sleeping_tags = Tags
    <3>1. Behind => Behind'
      BY <1>3, <2>1, <2>2
    <3>2. UNCHANGED worker
      BY <2>1, <2>5, <2>7
    <3>3. DeviceState'
      BY <1>0, <1>1, <2>2, <2>5, <2>7, <3>1, <3>2 DEF DeviceState
    <3>4. QED BY <2>3, <2>4, <3>3 DEF ReadyInv
  <2>8. QED BY <1>0, <2>6, <2>7 DEF TagsTogether
<1>7. CASE TakeWakeUp
  <2>1. Head(inbox).call = "wake_up" /\ Head(inbox).tags = Tags
    BY <1>0, <1>2, <1>7 DEF TakeWakeUp, Takes, TagsTogether
  <2>2. /\ core'.sleeping_tags = {} /\ UNCHANGED <<core.pc, core.scheduler>>
        /\ \/ worker' = worker /\ core.sleeping_tags = {}
           \/ worker' = [w \in Workers |-> wake_up(worker[w], Tags)] /\ core.sleeping_tags = Tags
    <3>1. Tags # {}
      BY DEF Tags
    <3>2. CASE core.sleeping_tags = {}
      <4>1. ~(Head(inbox).tags \subseteq core.sleeping_tags)
        BY <2>1, <3>1, <3>2
      <4>2. UNCHANGED <<worker, core>>
        BY <1>7, <4>1, Zenon DEF TakeWakeUp
      <4>3. QED BY <3>2, <4>2
    <3>3. CASE core.sleeping_tags = Tags
      <4>1. /\ worker' = [w \in Workers |-> wake_up(worker[w], Tags)]
            /\ \E p : core' = [core EXCEPT !.sleeping_tags = {}, !.paused = p]
        <5>1. Head(inbox).tags \subseteq core.sleeping_tags /\ core.sleeping_tags \ Head(inbox).tags = {}
          BY <2>1, <3>3
        <5>2. /\ worker' = [w \in Workers |-> wake_up(worker[w], Head(inbox).tags)]
              /\ core' = [core EXCEPT !.sleeping_tags = core.sleeping_tags \ Head(inbox).tags,
                            !.paused = core.paused /\ core.sleeping_tags \ Head(inbox).tags # {}]
          BY <1>7, <5>1 DEF TakeWakeUp
        <5>3. QED BY <2>1, <5>1, <5>2, Zenon
      <4>2. QED BY <1>0, <3>3, <4>1 DEF CoreType
    <3>4. QED BY <1>0, <3>2, <3>3 DEF TagsTogether
  <2>3. TagsTogether' /\ WakesFirst'
    BY <1>1, <2>2, RestOfInbox
  <2>4. StashAsleep'
    BY <1>0, <2>2, WakeKeeps DEF StashAsleep, KeptAsleep
  <2>5. Tags # {}
    BY DEF Tags
  <2>6. \A w \in Workers : Awake(worker[w], core.scheduler) \/ IsAsleep(worker[w], core.scheduler)
    BY <1>0, <1>1 DEF DeviceState
  <2>7. \A w \in Workers : Awake(worker'[w], core.scheduler)
    <3>1. CASE core.sleeping_tags = {} /\ worker' = worker
      BY <1>0, <1>1, <2>5, <3>1 DEF DeviceState
    <3>2. CASE worker' = [w \in Workers |-> wake_up(worker[w], Tags)]
      BY <1>0, <1>4, <2>6, <3>2, WakesUp
    <3>3. QED BY <2>2, <3>1, <3>2
  <2>8. DeviceState'
    BY <1>1, <2>2, <2>7 DEF DeviceState
  <2>9. QED BY <2>3, <2>4, <2>8 DEF ReadyInv
<1>8. CASE TakeResume
  <2>1. Head(inbox).call = "resume" /\ core' = [core EXCEPT !.paused = FALSE] /\ UNCHANGED worker
    BY <1>8 DEF TakeResume, Takes
  <2>2. core.sleeping_tags = {}
    <3>1. 1 \in DOMAIN inbox /\ inbox[1].call = "resume"
      BY <1>2, <2>1
    <3>2. QED BY <1>0, <3>1 DEF WakesFirst
  <2>3. core'.sleeping_tags = {} /\ UNCHANGED <<core.pc, core.scheduler>>
    BY <1>0, <2>1, <2>2 DEF CoreType
  <2>4. TagsTogether' /\ WakesFirst'
    BY <1>1, <2>3, RestOfInbox
  <2>5. Tags # {}
    BY DEF Tags
  <2>6. DeviceState'
    BY <1>0, <1>1, <2>1, <2>2, <2>3, <2>5 DEF DeviceState
  <2>7. StashAsleep'
    BY <1>0, <2>1 DEF StashAsleep
  <2>8. QED BY <2>4, <2>6, <2>7 DEF ReadyInv
<1>9. QED BY <1>5, <1>6, <1>7, <1>8 DEF Messages

LEMMA ReadyReconfigure ==
  ASSUME Recoverable, Undisturbed, ReadyInv, AgreeInv', Reconfigure
  PROVE  ReadyInv'
<1>0. /\ core \in CoreType /\ worker \in [Workers -> WorkerType] /\ inbox \in Seq(CallType)
      /\ Phases /\ Reconfiguring /\ StashedByKey /\ Underway /\ TypeInv
      /\ StashAsleep /\ TagsTogether /\ WakesFirst /\ DeviceState
      /\ NONE \notin {"ok", "error"} /\ Tags # {}
  BY SwitchAssumption DEF ReadyInv, AgreeInv, TypeInv, TypeOK, Tags
<1>a. manager.phase = "reconfigure" /\ core.reply = NONE /\ ~InInbox("resume")' /\ TagsTogether' /\ ~Behind
  <2>1. CASE TakeReconfigure
    <3>1. inbox # <<>> /\ inbox' = Tail(inbox) /\ Head(inbox).call = "reconfigure"
          /\ core' = [core EXCEPT !.pc = "normalize", !.new = manager.target, !.previous = core.config,
                                  !.stash_created = FALSE]
      BY <2>1 DEF TakeReconfigure, Takes
    <3>2. /\ 1 \in DOMAIN inbox /\ inbox[1].call = "reconfigure"
          /\ \A i \in DOMAIN inbox' : inbox'[i] = inbox[i + 1] /\ i + 1 \in DOMAIN inbox
      BY <1>0, <3>1, Taken
    <3>3. InInbox("reconfigure")
      BY <3>2 DEF InInbox
    <3>4. core'.sleeping_tags = core.sleeping_tags
      BY <1>0, <3>1 DEF CoreType
    <3>5. QED BY <1>0, <3>2, <3>3, <3>4 DEF Phases, InInbox, TagsTogether, Behind
  <2>2. CASE ~TakeReconfigure
    <3>1. core.pc # "ready" /\ UNCHANGED inbox
      BY <2>2 DEF Reconfigure, Normalize, PauseScheduler, Sleep, Unload, Load,
                  InitializeKVCaches, Rebuild, ResumeScheduler, Rollback, At
    <3>2. core'.sleeping_tags \in {core.sleeping_tags, {}, Tags}
      <4>1. CASE Sleep
        <5>1. core' = [core EXCEPT !.pc = "unload"] \/ core' = [core EXCEPT !.pc = "unload", !.sleeping_tags = Tags]
          BY <4>1 DEF Sleep, Then
        <5>2. QED BY <1>0, <5>1 DEF CoreType
      <4>2. CASE Normalize \/ PauseScheduler \/ Load \/ InitializeKVCaches \/ Rebuild \/ ResumeScheduler \/ Rollback
        BY <1>0, <4>2 DEF Normalize, PauseScheduler, Load, InitializeKVCaches, Rebuild, ResumeScheduler,
                          Rollback, Then, CoreType
      <4>3. CASE Unload
        <5>1. \E created : core' = [core EXCEPT !.pc = "load", !.stash_created = created]
          BY <4>3 DEF Unload, MayFail, Recoverable
        <5>2. QED BY <1>0, <5>1 DEF CoreType
      <4>4. QED BY <2>2, <4>1, <4>2, <4>3 DEF Reconfigure
    <3>3. QED BY <1>0, <3>1, <3>2 DEF Phases, InInbox, TagsTogether, Behind
  <2>3. QED BY <2>1, <2>2
<1>b. WakesFirst'
  BY <1>a DEF WakesFirst, InInbox
<1>c. core.pc # "ready" => core.new \in Models /\ core.previous \in Models
  <2>1. manager.target \in Models
    BY <1>0, <1>a DEF TypeInv, TypeOK, ManagerType
  <2>2. QED BY <1>0, <2>1 DEF Reconfiguring
<1>d. UNCHANGED manager
  BY DEF Reconfigure, TakeReconfigure, Normalize, PauseScheduler, Sleep, Unload, Load,
         InitializeKVCaches, Rebuild, ResumeScheduler, Rollback
<1>e. SUFFICES StashAsleep' /\ DeviceState'
  BY <1>a, <1>b DEF ReadyInv
<1>1. CASE TakeReconfigure \/ Normalize \/ PauseScheduler
  <2>1. /\ core.pc \in {"ready", "normalize", "pause"} /\ UNCHANGED worker
        /\ core'.pc \in {"normalize", "pause", "sleep"}
        /\ core'.paused = core.paused \/ core'.paused = TRUE
        /\ UNCHANGED <<core.scheduler, core.sleeping_tags>>
    <3>1. CASE TakeReconfigure
      BY <1>0, <3>1 DEF TakeReconfigure, Takes, CoreType
    <3>2. CASE Normalize
      BY <1>0, <3>2 DEF Normalize, At, Then, MayFail, Undisturbed, CoreType
    <3>3. CASE PauseScheduler
      BY <1>0, <3>3 DEF PauseScheduler, At, Then, CoreType
    <3>4. QED BY <1>1, <3>1, <3>2, <3>3
  <2>2. StashAsleep'
    BY <1>0, <2>1 DEF StashAsleep
  <2>3. DeviceState'
    BY <1>0, <1>a, <2>1 DEF DeviceState
  <2>4. QED BY <2>2, <2>3
<1>2. CASE Sleep
  <2>1. core.pc = "sleep" /\ core.scheduler = core.previous /\ core.scheduler \in Models
    BY <1>0, <1>2 DEF Sleep, At, Underway, CoreType
  <2>2. ~MayFail("sleep")
    BY DEF MayFail, Undisturbed
  <2>3. CASE core.sleeping_tags # {}
    <3>1. core.sleeping_tags = Tags
      BY <1>0, <2>3 DEF TagsTogether
    <3>2. core' = [core EXCEPT !.pc = "unload"] /\ UNCHANGED worker
      BY <1>2, <2>3 DEF Sleep, Then
    <3>3. core'.pc = "unload" /\ core'.sleeping_tags = Tags /\ UNCHANGED core.previous
      BY <1>0, <3>1, <3>2 DEF CoreType
    <3>4. \A w \in Workers : IsAsleep(worker[w], core.previous)
      BY <1>0, <1>a, <2>1, <2>3 DEF DeviceState
    <3>5. QED BY <1>0, <3>2, <3>3, <3>4 DEF StashAsleep, DeviceState
  <2>4. CASE core.sleeping_tags = {}
    <3>1. worker' = [w \in Workers |-> sleep(worker[w])]
          /\ core' = [core EXCEPT !.pc = "unload", !.sleeping_tags = Tags]
      BY <1>2, <2>2, <2>4 DEF Sleep
    <3>2. core'.pc = "unload" /\ core'.sleeping_tags = Tags /\ UNCHANGED core.previous
      BY <1>0, <3>1 DEF CoreType
    <3>3. \A w \in Workers : Awake(worker[w], core.previous)
      BY <1>0, <2>1, <2>4 DEF DeviceState
    <3>4. \A w \in Workers : IsAsleep(worker'[w], core.previous)
      BY <1>0, <2>1, <3>1, <3>3, FallsAsleep
    <3>5. StashAsleep'
      BY <1>0, <3>1, SleepKeeps DEF StashAsleep, KeptAsleep
    <3>6. QED BY <3>2, <3>4, <3>5 DEF DeviceState
  <2>5. QED BY <2>3, <2>4
<1>3. CASE Unload
  <2>1. core.pc = "unload"
    BY <1>3 DEF Unload, At
  <2>2. worker' = [w \in Workers |-> unload_model(worker[w])]
        /\ core' = [core EXCEPT !.pc = "load", !.stash_created = TRUE]
    BY <1>3 DEF Unload, MayFail, Recoverable
  <2>3. core'.pc = "load" /\ core'.sleeping_tags = core.sleeping_tags
    BY <1>0, <2>2 DEF CoreType
  <2>4. \A w \in Workers : IsAsleep(worker[w], core.previous) /\ KeptAsleep(worker[w])
    BY <1>0, <2>1 DEF DeviceState, StashAsleep
  <2>5. \A w \in Workers : /\ KeptAsleep(worker'[w])
                           /\ ~worker'[w].model_sleeping /\ ~worker'[w].kv_cache_sleeping
    BY <1>0, <1>c, <2>1, <2>2, <2>4, UnloadsAsleep
  <2>6. QED BY <1>0, <2>1, <2>3, <2>5 DEF StashAsleep, DeviceState
<1>4. CASE Load
  <2>1. core.pc = "load" /\ core.new \in Models /\ core.stash_created
    BY <1>0, <1>4, <1>c DEF Load, At, Underway
  <2>2. \A w \in Workers : KeptAsleep(worker[w])
    BY <1>0 DEF StashAsleep
  <2>3. \A w \in Workers : LET v == load_model(worker[w], core.new) IN
          KeptAsleep(v) /\ v.runner.on_hpu /\ ~v.model_sleeping /\ ~v.kv_cache_sleeping
    BY <1>0, <2>1, <2>2, LoadsAwake
  <2>4. CASE worker' = [w \in Workers |-> load_model(worker[w], core.new)] /\ Then("kv")
    <3>1. core'.pc = "kv" /\ core'.sleeping_tags = core.sleeping_tags
      BY <1>0, <2>4 DEF Then, CoreType
    <3>2. QED BY <1>0, <2>1, <2>3, <2>4, <3>1 DEF StashAsleep, DeviceState
  <2>5. ASSUME NEW ok \in SUBSET Workers, NEW built \in BOOLEAN, Then("rollback"),
               worker' = [w \in Workers |->
                 IF w \in ok THEN load_model(worker[w], core.new) ELSE LoadFailed(worker[w], core.new, built)]
        PROVE  StashAsleep' /\ DeviceState'
    <3>1. core'.pc = "rollback" /\ UNCHANGED <<core.sleeping_tags, core.stash_created>>
      BY <1>0, <2>5 DEF Then, CoreType
    <3>2. ASSUME NEW w \in Workers
          PROVE  KeptAsleep(LoadFailed(worker[w], core.new, built))
      <4> DEFINE v == LoadFailed(worker[w], core.new, built)
      <4>1. worker[w] \in WorkerType /\ KeptAsleep(worker[w])
        BY <1>0, <2>2
      <4>2. v.stash = [worker[w].stash EXCEPT ![KeyOf[core.new]] = NoStash] \/ v.stash = worker[w].stash
        BY <2>1, <4>1, LoadFailedKeeps, Zenon
      <4> HIDE DEF v
      <4>3. KeptAsleep(v)
        BY <2>1, <4>1, <4>2, StashThinned
      <4>4. QED BY <4>3 DEF v
    <3>3. \A w \in Workers : worker'[w] = load_model(worker[w], core.new) \/ worker'[w] = LoadFailed(worker[w], core.new, built)
      BY <2>5, Zenon
    <3>4. \A w \in Workers : KeptAsleep(worker'[w])
      BY <2>3, <3>2, <3>3, Zenon
    <3>5. QED BY <1>0, <2>1, <3>1, <3>4 DEF StashAsleep, DeviceState
  <2>6. QED BY <1>4, <2>4, <2>5, Zenon DEF Load
<1>5. CASE InitializeKVCaches
  <2>1. core.pc = "kv" /\ core.new \in Models /\ core.stash_created
    BY <1>0, <1>5, <1>c DEF InitializeKVCaches, At, Underway
  <2>2. \A w \in Workers : /\ worker[w].runner.model = core.new /\ worker[w].runner.on_hpu
                           /\ ~worker[w].model_sleeping /\ worker[w] \in WorkerType
    BY <1>0, <2>1 DEF Underway, Means, DeviceState
  <2>3. \A w \in Workers : /\ Awake(initialize_from_config(worker[w], core.new), core.new)
                           /\ initialize_from_config(worker[w], core.new).stash = worker[w].stash
    BY <2>1, <2>2, LaidOut, InitializeKeeps
  <2>4. CASE /\ worker' = [w \in Workers |-> initialize_from_config(worker[w], core.new)]
             /\ core' = [core EXCEPT !.pc = "rebuild", !.config = core.new]
    <3>1. core'.pc = "rebuild" /\ UNCHANGED <<core.sleeping_tags, core.new>>
      BY <1>0, <2>4 DEF CoreType
    <3>2. StashAsleep'
      BY <1>0, <2>3, <2>4 DEF StashAsleep, KeptAsleep
    <3>3. QED BY <1>0, <2>1, <2>3, <2>4, <3>1, <3>2 DEF DeviceState
  <2>5. ASSUME NEW ok \in SUBSET Workers, core' = [core EXCEPT !.pc = "rollback", !.config = core.new],
               worker' = [w \in Workers |->
                 IF w \in ok THEN initialize_from_config(worker[w], core.new) ELSE worker[w]]
        PROVE  StashAsleep' /\ DeviceState'
    <3>1. core'.pc = "rollback" /\ UNCHANGED <<core.sleeping_tags, core.stash_created>>
      BY <1>0, <2>5 DEF CoreType
    <3>2. \A w \in Workers : worker'[w].stash = worker[w].stash
      BY <2>3, <2>5
    <3>3. QED BY <1>0, <2>1, <3>1, <3>2 DEF StashAsleep, KeptAsleep, DeviceState
  <2>6. QED BY <1>5, <2>4, <2>5 DEF InitializeKVCaches
<1>6. CASE Rebuild
  <2>1. core.pc = "rebuild" /\ UNCHANGED worker /\ core' = [core EXCEPT !.pc = "resume", !.scheduler = core.new]
    BY <1>6 DEF Rebuild, At, MayFail, Recoverable
  <2>2. core'.pc = "resume" /\ UNCHANGED <<core.sleeping_tags, core.new>>
    BY <1>0, <2>1 DEF CoreType
  <2>3. QED BY <1>0, <2>1, <2>2 DEF StashAsleep, DeviceState
<1>7. CASE ResumeScheduler
  <2>1. /\ core.pc = "resume" /\ UNCHANGED worker
        /\ core' = [core EXCEPT !.pc = "ready", !.sleeping_tags = {}, !.paused = FALSE, !.reply = "ok"]
    BY <1>7 DEF ResumeScheduler, At
  <2>2. core'.pc = "ready" /\ core'.sleeping_tags = {} /\ core'.scheduler = core.new
    BY <1>0, <2>1 DEF CoreType, Underway
  <2>3. QED BY <1>0, <2>1, <2>2 DEF StashAsleep, DeviceState
<1>8. CASE Rollback
  <2>1. core.pc = "rollback" /\ core.previous \in Models /\ core.stash_created
        /\ core.scheduler = core.previous /\ core.sleeping_tags = Tags
        /\ \A w \in Workers : HasStashed(worker[w], core.previous) /\ KeptAsleep(worker[w])
    BY <1>0, <1>8, <1>c DEF Rollback, At, Underway, DeviceState, StashAsleep
  <2>2. worker' = [w \in Workers |-> restore_stashed_model(worker[w], core.previous, TRUE)]
    <3>1. PICK ok \in {Workers} : worker' = [w \in Workers |->
            IF core.stash_created /\ w \in ok
              THEN restore_stashed_model(worker[w], core.previous, TRUE) ELSE worker[w]]
      BY <1>8 DEF Rollback, MayFail, Recoverable
    <3>2. QED BY <2>1, <3>1
  <2>3. core' = [core EXCEPT !.pc = "ready", !.config = core.previous, !.paused = FALSE, !.reply = "error"]
    BY <1>8 DEF Rollback
  <2>4. core'.pc = "ready" /\ core'.reply = "error" /\ UNCHANGED <<core.scheduler, core.sleeping_tags>>
    BY <1>0, <2>3 DEF CoreType
  <2>5. Behind'
    BY <1>a, <1>d, <2>4 DEF Behind
  <2>6. \A w \in WorkerType : KeptAsleep(w) /\ HasStashed(w, core.previous) =>
          /\ KeptAsleep(restore_stashed_model(w, core.previous, TRUE))
          /\ Awake(restore_stashed_model(w, core.previous, TRUE), core.previous)
    BY <2>1, RestoresAwake, Zenon
  <2>7. \A w \in Workers : KeptAsleep(worker'[w]) /\ Awake(worker'[w], core.previous)
    BY <1>0, <2>1, <2>2, <2>6
  <2>8. QED BY <2>1, <2>4, <2>5, <2>7 DEF StashAsleep, DeviceState
<1>9. QED BY <1>1, <1>2, <1>3, <1>4, <1>5, <1>6, <1>7, <1>8 DEF Reconfigure

LEMMA InitialReady ==
  ASSUME Init
  PROVE  ReadyInv
<1>1. AgreeInv
  BY InitialAgreement
<1>2. core.pc = "ready" /\ core.sleeping_tags = {} /\ core.scheduler = Default /\ DOMAIN inbox = {}
  BY DEF Init
<1>3. \A w \in Workers : Awake(worker[w], Default) /\ KeptAsleep(worker[w])
  BY DEF Init, Awake, KeptAsleep, Keys
<1>4. StashAsleep /\ TagsTogether /\ WakesFirst /\ DeviceState
  BY <1>2, <1>3 DEF StashAsleep, TagsTogether, WakesFirst, DeviceState
<1>5. QED BY <1>1, <1>4 DEF ReadyInv

LEMMA ReadyStep ==
  ASSUME Recoverable, Undisturbed, ReadyInv, [Next]_vars
  PROVE  ReadyInv'
<1>1. AgreeInv'
  BY AgreeStep DEF ReadyInv
<1>2. CASE UNCHANGED vars
  BY <1>1, <1>2 DEF vars, ReadyInv, StashAsleep, TagsTogether, WakesFirst, DeviceState, Behind, InInbox
<1>3. CASE Next
  BY <1>1, <1>3, ReadyFrontend, ReadyManager, ReadyMessages, ReadyReconfigure DEF Next
<1>4. QED BY <1>2, <1>3

LEMMA ReadySuffices ==
  ASSUME ReadyInv
  PROVE  WorkersReady
<1>0. /\ core \in CoreType /\ worker \in [Workers -> WorkerType] /\ Phases
      /\ StashAsleep /\ TagsTogether /\ DeviceState /\ NONE \notin Models
  BY SwitchAssumption DEF ReadyInv, AgreeInv, TypeInv, TypeOK
<1>1. ServesAwake
  BY <1>0 DEF ServesAwake, DeviceState, Awake
<1>2. StashOnCpu
  <2>1. ASSUME NEW w \in Workers, NEW k \in Keys
        PROVE  ~worker[w].stash[k].runner.on_hpu /\ worker[w].stash[k].runner.kv_caches = NONE
    <3>1. PICK m \in Models : k = KeyOf[m]
      BY DEF Keys
    <3>2. worker[w].stash[k] = NoStash \/ IsAsleep(worker[w].stash[k], m)
      BY <1>0, <3>1 DEF StashAsleep, KeptAsleep
    <3>3. QED BY <3>2 DEF NoStash, NoRunner, IsAsleep
  <2>2. QED BY <2>1 DEF StashOnCpu
<1>3. SleepTagsMatch
  <2>1. ASSUME manager.phase = "idle", NEW w \in Workers
        PROVE  /\ "weights" \in core.sleeping_tags <=> worker[w].model_sleeping
               /\ "kv_cache" \in core.sleeping_tags <=> worker[w].kv_cache_sleeping
               /\ worker[w].model_sleeping <=> ~worker[w].runner.on_hpu
               /\ worker[w].kv_cache_sleeping <=> worker[w].runner.kv_caches = NONE
    <3>1. core.pc = "ready" /\ ~Behind /\ core.scheduler \in Models
      BY <1>0, <2>1 DEF Phases, Behind, CoreType
    <3>2. \/ core.sleeping_tags = {} /\ Awake(worker[w], core.scheduler)
          \/ core.sleeping_tags = Tags /\ IsAsleep(worker[w], core.scheduler)
      BY <1>0, <3>1 DEF DeviceState
    <3>3. QED BY <1>0, <3>1, <3>2 DEF Tags, Awake, IsAsleep
  <2>2. QED BY <2>1 DEF SleepTagsMatch
<1>4. QED BY <1>1, <1>2, <1>3 DEF WorkersReady

(* With failures of the load, of the KV cache and of the pause, and the wake-up *)
(* endpoint called for both tags: whenever the engine core may run a step its  *)
(* workers are awake with the scheduler's model, a stash holds no device memory,*)
(* and the executor's tags say what is asleep.                                 *)
THEOREM WorkersStayReady ==
  ASSUME Recoverable, Undisturbed
  PROVE  PartSpec => []Ready
<1> DEFINE Inv == part = "contained" => ReadyInv
<1>1. PartInit => Inv
  BY InitialReady DEF PartInit, Contained
<1>2. Inv /\ [PartNext]_partVars => Inv'
  <2>1. CASE UNCHANGED partVars
    BY <2>1, ReadyStep DEF partVars
  <2>2. CASE PartNext
    BY <2>2, ReadyStep DEF PartNext, Contained
  <2>3. QED BY <2>1, <2>2
<1>3. Inv => Ready
  BY ReadySuffices DEF Ready, Contained
<1>4. QED BY <1>1, <1>2, <1>3, PTL DEF PartSpec

-----------------------------------------------------------------------------
(* Requests: the steps that take none and send none.                           *)
LEMMA OwnKept ==
  ASSUME OwnInv, AgreeInv', inbox' = inbox, UNCHANGED <<manager.current, ran, core.scheduler>>,
         manager.phase \in {"idle", "drain"} => manager'.phase \in {"idle", "drain"},
         \A q \in Requests : /\ req'[q].model = req[q].model
                             /\ req'[q].at = "scheduled" => req[q].at = "scheduled"
                             /\ req'[q].at = "client" <=> req[q].at = "client"
  PROVE  OwnInv'
<1>1. \A i \in DOMAIN inbox : inbox[i].call = "add_request" => inbox[i].req \in Requests
  BY DEF OwnInv, AgreeInv, TypeInv, Requested
<1>2. QueuedInTime'
  BY <1>1 DEF OwnInv, QueuedInTime
<1>3. ScheduledOwn' /\ RanOnOwnModel'
  BY DEF OwnInv, ScheduledOwn, RanOnOwnModel
<1>4. QED BY <1>2, <1>3 DEF OwnInv

LEMMA OwnSent ==
  ASSUME OwnInv, AgreeInv', UNCHANGED <<manager.current, core, req, ran>>, NEW c \in CallType,
         c.call # "add_request", inbox' = Append(inbox, c),
         manager.phase \in {"idle", "drain"} => manager'.phase \in {"idle", "drain"} \/ c.call = "reconfigure"
  PROVE  OwnInv'
<1>1. inbox \in Seq(CallType)
  BY DEF OwnInv, AgreeInv, TypeInv, TypeOK
<1>2. /\ DOMAIN inbox = 1..Len(inbox) /\ Len(inbox) \in Nat /\ DOMAIN inbox' = 1..(Len(inbox) + 1)
      /\ \A i \in DOMAIN inbox : inbox'[i] = inbox[i]
      /\ inbox'[Len(inbox) + 1] = c
  BY <1>1, Sent
<1>3. QueuedInTime'
  <2>1. ASSUME NEW i \in DOMAIN inbox', inbox'[i].call = "add_request"
        PROVE  /\ req[inbox'[i].req].at # "client" /\ req[inbox'[i].req].model = manager.current
               /\ \/ manager'.phase \in {"idle", "drain"}
                  \/ \E j \in DOMAIN inbox' : i < j /\ inbox'[j].call = "reconfigure"
    <3>1. i \in DOMAIN inbox /\ inbox'[i] = inbox[i] /\ i < Len(inbox) + 1 /\ Len(inbox) + 1 \in DOMAIN inbox'
      BY <1>2, <2>1
    <3>2. /\ req[inbox[i].req].at # "client" /\ req[inbox[i].req].model = manager.current
          /\ \/ manager.phase \in {"idle", "drain"}
             \/ \E j \in DOMAIN inbox : i < j /\ inbox[j].call = "reconfigure"
      BY <2>1, <3>1 DEF OwnInv, QueuedInTime
    <3>3. CASE manager.phase \in {"idle", "drain"}
      BY <1>2, <3>1, <3>2, <3>3
    <3>4. CASE \E j \in DOMAIN inbox : i < j /\ inbox[j].call = "reconfigure"
      <4>1. PICK j \in DOMAIN inbox : i < j /\ inbox[j].call = "reconfigure"
        BY <3>4
      <4>2. j \in DOMAIN inbox' /\ inbox'[j] = inbox[j]
        BY <1>2
      <4>3. QED BY <3>1, <3>2, <4>1, <4>2
    <3>5. QED BY <3>2, <3>3, <3>4
  <2>2. QED BY <2>1 DEF QueuedInTime
<1>4. ScheduledOwn' /\ RanOnOwnModel'
  BY DEF OwnInv, ScheduledOwn, RanOnOwnModel
<1>5. QED BY <1>3, <1>4 DEF OwnInv

LEMMA AbortKeeps ==
  ASSUME req \in [Requests -> RequestType], req' = Aborted
  PROVE  \A q \in Requests : /\ req'[q].model = req[q].model
                             /\ req'[q].at # "scheduled"
                             /\ req'[q].at = "client" <=> req[q].at = "client"
<1>1. \A r \in RequestType : LET s == [r EXCEPT !.at = "output"] IN s.model = r.model /\ s.at = "output"
  BY DEF RequestType
<1>2. QED BY <1>1 DEF Aborted

LEMMA OwnFrontend ==
  ASSUME ~MayArrive, OwnInv, AgreeInv',
         \/ \E q \in Requests : Submit(q) \/ Deliver(q) \/ Execute(q)
         \/ SleepEndpoint \/ \E tags \in WakeTags : WakeEndpoint(tags)
  PROVE  OwnInv'
<1>0. /\ manager \in ManagerType /\ inbox \in Seq(CallType) /\ core \in CoreType
      /\ req \in [Requests -> RequestType] /\ ran \in [Requests -> Models \union {NONE}]
      /\ Requested /\ OneServed /\ QueuedInTime /\ ScheduledOwn /\ RanOnOwnModel
  BY DEF OwnInv, AgreeInv, TypeInv, TypeOK
<1>1. ASSUME NEW q \in Requests, Submit(q)
      PROVE  OwnInv'
  <2> DEFINE c == [Call("add_request") EXCEPT !.req = q]
             r == [at |-> "inbox", model |-> frontend.config, processor |-> frontend.processor]
  <2>1. c \in CallType /\ c.call = "add_request" /\ c.req = q
    BY CallTypes
  <2>2. r.at = "inbox" /\ r.model = manager.current
    BY <1>0 DEF OneServed
  <2> HIDE DEF c, r
  <2>3. /\ inbox' = Append(inbox, c) /\ UNCHANGED <<manager, frontend, core, worker, ran>>
        /\ req[q].at = "client" /\ manager.phase = "idle" /\ req' = [req EXCEPT ![q] = r]
    BY <1>1 DEF Submit, c, r
  <2>4. /\ \A i \in DOMAIN inbox' : inbox'[i] = c \/ (i \in DOMAIN inbox /\ inbox'[i] = inbox[i])
    BY <1>0, <2>1, <2>3, Sent
  <2>5. \A p \in Requests : req'[p] = IF p = q THEN r ELSE req[p]
    BY <1>0, <2>3
  <2>6. QueuedInTime'
    <3>1. ASSUME NEW i \in DOMAIN inbox', inbox'[i].call = "add_request"
          PROVE  req'[inbox'[i].req].at # "client" /\ req'[inbox'[i].req].model = manager.current
      <4>1. CASE inbox'[i] = c
        BY <2>1, <2>2, <2>5, <4>1
      <4>2. CASE i \in DOMAIN inbox /\ inbox'[i] = inbox[i]
        <5>1. inbox[i].req \in Requests /\ inbox[i].call = "add_request"
          BY <1>0, <3>1, <4>2 DEF Requested
        <5>2. req[inbox[i].req].at # "client" /\ req[inbox[i].req].model = manager.current
          BY <1>0, <4>2, <5>1 DEF QueuedInTime
        <5>3. QED BY <2>3, <2>5, <4>2, <5>1, <5>2
      <4>3. QED BY <2>4, <4>1, <4>2
    <3>2. QED BY <2>3, <3>1 DEF QueuedInTime
  <2>7. ScheduledOwn'
    BY <1>0, <2>2, <2>3, <2>5 DEF ScheduledOwn
  <2>8. RanOnOwnModel'
    BY <1>0, <2>3, <2>5 DEF ScheduledOwn, RanOnOwnModel
  <2>9. QED BY <2>6, <2>7, <2>8 DEF OwnInv
<1>2. ASSUME NEW q \in Requests, Deliver(q)
      PROVE  OwnInv'
  <2>1. /\ UNCHANGED <<manager, inbox, ran, core>> /\ req[q].at = "output"
        /\ \E a \in {"answered", "lost"} : req' = [req EXCEPT ![q].at = a]
    BY <1>2 DEF Deliver
  <2>2. PICK a \in {"answered", "lost"} : req' = [req EXCEPT ![q].at = a]
    BY <2>1
  <2>3. \A p \in Requests : /\ req'[p].model = req[p].model
                            /\ req'[p].at = IF p = q THEN a ELSE req[p].at
    BY <1>0, <2>2 DEF RequestType
  <2>4. QED BY <2>1, <2>3, OwnKept
<1>3. ASSUME NEW q \in Requests, Execute(q)
      PROVE  OwnInv'
  <2>1. /\ UNCHANGED <<manager, core, inbox>> /\ req[q].at = "scheduled"
        /\ req' = [req EXCEPT ![q].at = "output"] /\ ran' = [ran EXCEPT ![q] = core.scheduler]
    BY <1>3 DEF Execute
  <2>2. \A p \in Requests : /\ req'[p].model = req[p].model
                            /\ req'[p].at = IF p = q THEN "output" ELSE req[p].at
                            /\ ran'[p] = IF p = q THEN core.scheduler ELSE ran[p]
    BY <1>0, <2>1 DEF RequestType
  <2>3. ScheduledOwn' /\ RanOnOwnModel'
    BY <1>0, <2>1, <2>2 DEF ScheduledOwn, RanOnOwnModel
  <2>4. QueuedInTime'
    BY <1>0, <2>1, <2>2 DEF QueuedInTime, Requested
  <2>5. QED BY <2>3, <2>4 DEF OwnInv
<1>4. CASE SleepEndpoint
  <2>1. Call("sleep") \in CallType /\ Call("sleep").call = "sleep"
    BY CallTypes
  <2>2. inbox' = Append(inbox, Call("sleep")) /\ UNCHANGED <<manager.phase, manager.current, core, req, ran>>
    BY <1>0, <1>4 DEF SleepEndpoint, ManagerType
  <2>3. QED BY <2>1, <2>2, OwnSent
<1>5. ASSUME NEW tags \in WakeTags, WakeEndpoint(tags)
      PROVE  OwnInv'
  <2>1. tags \in SUBSET Tags
    BY SwitchAssumption
  <2>2. WakeCall(tags) \in CallType /\ WakeCall(tags).call = "wake_up"
    BY <2>1, CallTypes
  <2>3. inbox' = Append(inbox, WakeCall(tags)) /\ UNCHANGED <<manager, core, req, ran>>
    BY <1>5 DEF WakeEndpoint
  <2>4. QED BY <2>2, <2>3, OwnSent
<1>6. QED BY <1>1, <1>2, <1>3, <1>4, <1>5

(* Once the engine core has taken the call, no request is on its way to it.    *)
LEMMA NoneOnItsWay ==
  ASSUME OwnInv, manager.phase \notin {"idle", "drain"}, ~InInbox("reconfigure")
  PROVE  ~InInbox("add_request")
BY DEF OwnInv, QueuedInTime, InInbox

LEMMA OwnManager ==
  ASSUME Recoverable, OwnInv, AgreeInv', (\E m \in Models : StartSwitch(m)) \/ Manager
  PROVE  OwnInv'
<1>0. /\ manager \in ManagerType /\ core \in CoreType /\ inbox \in Seq(CallType) /\ Phases
      /\ NONE \notin {"ok", "error"} /\ ScheduledOwn /\ RanOnOwnModel
  BY SwitchAssumption DEF OwnInv, AgreeInv, TypeInv, TypeOK
<1>1. ASSUME NEW m \in Models, StartSwitch(m)
      PROVE  OwnInv'
  <2>1. UNCHANGED <<core, inbox, req, ran, manager.current>> /\ manager'.phase = "drain"
    BY <1>0, <1>1 DEF StartSwitch, ManagerType
  <2>2. QED BY <2>1, OwnKept
<1>2. CASE Drained
  <2>1. Call("reconfigure") \in CallType /\ Call("reconfigure").call = "reconfigure"
    BY CallTypes
  <2>2. inbox' = Append(inbox, Call("reconfigure")) /\ UNCHANGED <<core, req, ran, manager.current>>
    BY <1>0, <1>2 DEF Drained, ManagerType
  <2>3. QED BY <2>1, <2>2, OwnSent
<1>3. ASSUME ~InInbox("add_request")', UNCHANGED <<core.scheduler, req, ran>>
      PROVE  OwnInv'
  <2>1. QueuedInTime'
    BY <1>3 DEF QueuedInTime, InInbox
  <2>2. ScheduledOwn' /\ RanOnOwnModel'
    BY <1>0, <1>3 DEF ScheduledOwn, RanOnOwnModel
  <2>3. QED BY <2>1, <2>2 DEF OwnInv
<1>4. CASE Refresh
  <2>1. /\ manager.phase = "reconfigure" /\ core.reply = "ok" /\ UNCHANGED <<inbox, req, ran>>
        /\ core' = [core EXCEPT !.reply = NONE]
    BY <1>4 DEF Refresh
  <2>2. ~InInbox("add_request")
    BY <1>0, <2>1, NoneOnItsWay DEF Phases
  <2>3. QED BY <1>0, <1>3, <2>1, <2>2 DEF CoreType, InInbox
<1>5. CASE RefreshFails
  BY <1>5 DEF RefreshFails, Recoverable
<1>6. CASE ReconfigureFailed
  <2>1. /\ manager.phase = "reconfigure" /\ core.reply = "error" /\ UNCHANGED <<req, ran>>
        /\ core' = [core EXCEPT !.reply = NONE]
        /\ inbox' = inbox \o <<WakeCall(Tags), Call("resume")>>
    BY <1>6 DEF ReconfigureFailed, Recover
  <2>2. ~InInbox("add_request")
    BY <1>0, <2>1, NoneOnItsWay DEF Phases
  <2>3. /\ WakeCall(Tags) \in CallType /\ WakeCall(Tags).call = "wake_up"
        /\ Call("resume") \in CallType /\ Call("resume").call = "resume"
    BY CallTypes
  <2>4. \A i \in DOMAIN inbox' : \/ inbox'[i] = WakeCall(Tags) \/ inbox'[i] = Call("resume")
                                 \/ i \in DOMAIN inbox /\ inbox'[i] = inbox[i]
    BY <1>0, <2>1, <2>3
  <2>5. ~InInbox("add_request")'
    BY <2>2, <2>3, <2>4 DEF InInbox
  <2>6. QED BY <1>0, <1>3, <2>1, <2>5 DEF CoreType
<1>7. CASE Recovered
  <2>1. manager.phase = "recover" /\ UNCHANGED <<core, inbox, req, ran>>
    BY <1>7 DEF Recovered
  <2>2. ~InInbox("add_request")
    BY <1>0, <2>1, NoneOnItsWay DEF Phases
  <2>3. QED BY <1>3, <2>1, <2>2 DEF InInbox
<1>8. QED BY <1>1, <1>2, <1>4, <1>5, <1>6, <1>7 DEF Manager

LEMMA OwnMessages ==
  ASSUME OwnInv, AgreeInv', Messages
  PROVE  OwnInv'
<1>0. /\ manager \in ManagerType /\ core \in CoreType /\ inbox \in Seq(CallType) /\ Phases /\ Settled
      /\ req \in [Requests -> RequestType] /\ Requested /\ NONE \notin {"ok", "error"}
      /\ QueuedInTime /\ ScheduledOwn /\ RanOnOwnModel
  BY SwitchAssumption DEF OwnInv, AgreeInv, TypeInv, TypeOK
<1>1. core.pc = "ready" /\ inbox # <<>> /\ inbox' = Tail(inbox) /\ UNCHANGED <<manager, ran>>
      /\ Head(inbox).call # "reconfigure"
  BY DEF Messages, TakeRequest, TakeSleep, TakeWakeUp, TakeResume, Takes
<1>2. /\ DOMAIN inbox = 1..Len(inbox) /\ Len(inbox) \in Nat \ {0} /\ Head(inbox) = inbox[1]
      /\ \A i \in DOMAIN inbox' : inbox'[i] = inbox[i + 1] /\ i + 1 \in DOMAIN inbox
      /\ DOMAIN inbox' = 1..(Len(inbox) - 1)
  BY <1>0, <1>1, Taken
<1>3. ASSUME \A q \in Requests : req'[q].model = req[q].model /\ (req'[q].at = "client" => req[q].at = "client")
      PROVE  QueuedInTime'
  <2>1. ASSUME NEW i \in DOMAIN inbox', inbox'[i].call = "add_request"
        PROVE  /\ req'[inbox'[i].req].at # "client" /\ req'[inbox'[i].req].model = manager.current
               /\ \/ manager.phase \in {"idle", "drain"}
                  \/ \E j \in DOMAIN inbox' : i < j /\ inbox'[j].call = "reconfigure"
    <3>1. i + 1 \in DOMAIN inbox /\ inbox'[i] = inbox[i + 1] /\ inbox[i + 1].req \in Requests
      BY <1>0, <1>2, <2>1 DEF Requested
    <3>2. /\ req[inbox[i + 1].req].at # "client" /\ req[inbox[i + 1].req].model = manager.current
          /\ \/ manager.phase \in {"idle", "drain"}
             \/ \E j \in DOMAIN inbox : i + 1 < j /\ inbox[j].call = "reconfigure"
      BY <1>0, <2>1, <3>1 DEF QueuedInTime
    <3>3. ASSUME NEW j \in DOMAIN inbox, i + 1 < j, inbox[j].call = "reconfigure"
          PROVE  \E k \in DOMAIN inbox' : i < k /\ inbox'[k].call = "reconfigure"
      <4>1. j - 1 \in DOMAIN inbox' /\ (j - 1) + 1 = j /\ i < j - 1
        BY <1>2, <3>3
      <4>2. inbox'[j - 1] = inbox[j]
        BY <1>2, <4>1
      <4>3. QED BY <3>3, <4>1, <4>2
    <3>4. QED BY <1>3, <3>1, <3>2, <3>3
  <2>2. QED BY <1>1, <2>1 DEF QueuedInTime
<1>4. CASE TakeRequest
  <2>1. Head(inbox).call = "add_request" /\ UNCHANGED core
        /\ req' = [req EXCEPT ![Head(inbox).req].at = "scheduled"]
    BY <1>4 DEF TakeRequest, Takes
  <2> DEFINE q == Head(inbox).req
  <2>2. 1 \in DOMAIN inbox /\ inbox[1].call = "add_request" /\ inbox[1].req = q
    BY <1>2, <2>1
  <2>3. q \in Requests /\ req[q].model = manager.current /\ req[q].at # "client"
    BY <1>0, <2>2 DEF Requested, QueuedInTime
  <2>4. core.scheduler = manager.current
    <3>1. manager.phase \in {"idle", "drain"} \/ InInbox("reconfigure")
      BY <1>0, <2>2 DEF QueuedInTime, InInbox
    <3>2. core.reply = NONE
      BY <1>0, <3>1 DEF Phases
    <3>3. QED BY <1>0, <1>1, <3>2 DEF Settled, Served
  <2> HIDE DEF q
  <2>5. \A p \in Requests : /\ req'[p].model = req[p].model
                            /\ req'[p].at = IF p = q THEN "scheduled" ELSE req[p].at
    BY <1>0, <2>1, <2>3 DEF RequestType, q
  <2>6. QueuedInTime'
    BY <1>3, <2>5
  <2>7. ScheduledOwn' /\ RanOnOwnModel'
    BY <1>0, <1>1, <2>1, <2>3, <2>4, <2>5 DEF ScheduledOwn, RanOnOwnModel
  <2>8. QED BY <2>6, <2>7 DEF OwnInv
<1>5. CASE ~TakeRequest
  <2>1. \A p \in Requests : /\ req'[p].model = req[p].model
                            /\ req'[p].at = "scheduled" => req[p].at = "scheduled"
                            /\ req'[p].at = "client" <=> req[p].at = "client"
    <3>1. CASE TakeSleep
      BY <1>0, <3>1, AbortKeeps DEF TakeSleep
    <3>2. CASE UNCHANGED req
      BY <3>2
    <3>3. QED BY <1>5, <3>1, <3>2 DEF Messages, TakeWakeUp, TakeResume
  <2>2. UNCHANGED core.scheduler
    <3>1. CASE TakeWakeUp
      <4>1. core' = core \/ \E t, p : core' = [core EXCEPT !.sleeping_tags = t, !.paused = p]
        BY <3>1 DEF TakeWakeUp
      <4>2. QED BY <1>0, <4>1 DEF CoreType
    <3>2. CASE TakeSleep \/ TakeResume
      BY <1>0, <3>2 DEF TakeSleep, TakeResume, CoreType
    <3>3. QED BY <1>5, <3>1, <3>2 DEF Messages
  <2>3. QueuedInTime'
    BY <1>3, <2>1
  <2>4. ScheduledOwn' /\ RanOnOwnModel'
    BY <1>0, <1>1, <2>1, <2>2 DEF ScheduledOwn, RanOnOwnModel
  <2>5. QED BY <2>3, <2>4 DEF OwnInv
<1>6. QED BY <1>4, <1>5

LEMMA OwnReconfigure ==
  ASSUME OwnInv, AgreeInv', Reconfigure
  PROVE  OwnInv'
<1>0. /\ manager \in ManagerType /\ core \in CoreType /\ inbox \in Seq(CallType) /\ Phases
      /\ req \in [Requests -> RequestType] /\ QueuedInTime /\ ScheduledOwn /\ RanOnOwnModel
  BY DEF OwnInv, AgreeInv, TypeInv, TypeOK
<1>1. CASE TakeReconfigure
  <2>1. /\ inbox # <<>> /\ inbox' = Tail(inbox) /\ Head(inbox).call = "reconfigure"
        /\ UNCHANGED <<manager, req, ran>>
        /\ core' = [core EXCEPT !.pc = "normalize", !.new = manager.target, !.previous = core.config,
                                !.stash_created = FALSE]
    BY <1>1 DEF TakeReconfigure, Takes
  <2>2. /\ 1 \in DOMAIN inbox /\ inbox[1].call = "reconfigure" /\ DOMAIN inbox \subseteq Nat \ {0}
        /\ \A i \in DOMAIN inbox' : inbox'[i] = inbox[i + 1] /\ i + 1 \in DOMAIN inbox
    BY <1>0, <2>1, Taken
  <2>3. manager.phase = "reconfigure"
    BY <1>0, <2>2 DEF Phases, InInbox
  <2>4. ~InInbox("add_request")
    <3>1. \A j \in DOMAIN inbox : inbox[j].call = "reconfigure" => j = 1
      BY <1>0, <2>2 DEF Phases
    <3>2. QED BY <1>0, <2>2, <2>3, <3>1 DEF QueuedInTime, InInbox
  <2>5. QueuedInTime'
    BY <2>2, <2>4 DEF QueuedInTime, InInbox
  <2>6. core'.scheduler = core.scheduler
    BY <1>0, <2>1 DEF CoreType
  <2>7. ScheduledOwn' /\ RanOnOwnModel'
    BY <1>0, <2>1, <2>6 DEF ScheduledOwn, RanOnOwnModel
  <2>8. QED BY <2>5, <2>7 DEF OwnInv
<1>2. CASE Rebuild
  <2>1. /\ UNCHANGED <<manager, inbox, ran>>
        /\ req' = [q \in Requests |-> IF req[q].at = "scheduled" THEN [req[q] EXCEPT !.at = "lost"] ELSE req[q]]
    BY <1>2 DEF Rebuild
  <2>2. \A r \in RequestType : LET s == [r EXCEPT !.at = "lost"] IN s.model = r.model /\ s.at = "lost"
    BY DEF RequestType
  <2>3. \A q \in Requests : /\ req'[q].model = req[q].model /\ req'[q].at # "scheduled"
                            /\ req'[q].at = "client" <=> req[q].at = "client"
    BY <1>0, <2>1, <2>2
  <2>4. \A i \in DOMAIN inbox : inbox[i].call = "add_request" => inbox[i].req \in Requests
    BY DEF OwnInv, AgreeInv, TypeInv, Requested
  <2>5. QueuedInTime'
    BY <1>0, <2>1, <2>3, <2>4 DEF QueuedInTime
  <2>6. ScheduledOwn' /\ RanOnOwnModel'
    BY <1>0, <2>1, <2>3 DEF ScheduledOwn, RanOnOwnModel
  <2>7. QED BY <2>5, <2>6 DEF OwnInv
<1>3. CASE ~TakeReconfigure /\ ~Rebuild
  <2>1. UNCHANGED <<manager, inbox, ran>>
    BY <1>3 DEF Reconfigure, Normalize, PauseScheduler, Sleep, Unload, Load,
                InitializeKVCaches, ResumeScheduler, Rollback
  <2>2. UNCHANGED core.scheduler
    <3>1. CASE Sleep
      <4>1. core' = [core EXCEPT !.pc = "unload"] \/ core' = [core EXCEPT !.pc = "unload", !.sleeping_tags = Tags]
        BY <3>1 DEF Sleep, Then
      <4>2. QED BY <1>0, <4>1 DEF CoreType
    <3>2. CASE Unload
      <4>1. \/ core' = [core EXCEPT !.pc = "rollback"]
            \/ \E created : core' = [core EXCEPT !.pc = "load", !.stash_created = created]
        BY <3>2 DEF Unload, Then
      <4>2. QED BY <1>0, <4>1 DEF CoreType
    <3>3. CASE Normalize \/ PauseScheduler \/ Load \/ InitializeKVCaches \/ ResumeScheduler \/ Rollback
      BY <1>0, <3>3 DEF Normalize, PauseScheduler, Load, InitializeKVCaches, ResumeScheduler,
                        Rollback, Then, CoreType
    <3>4. QED BY <1>3, <3>1, <3>2, <3>3 DEF Reconfigure
  <2>3. \A q \in Requests : /\ req'[q].model = req[q].model
                            /\ req'[q].at = "scheduled" => req[q].at = "scheduled"
                            /\ req'[q].at = "client" <=> req[q].at = "client"
    <3>1. UNCHANGED req \/ req' = Aborted
      BY <1>3 DEF Reconfigure, Normalize, PauseScheduler, Sleep, Unload, Load,
                  InitializeKVCaches, ResumeScheduler, Rollback
    <3>2. QED BY <1>0, <3>1, AbortKeeps
  <2>4. QED BY <2>1, <2>2, <2>3, OwnKept
<1>4. QED BY <1>1, <1>2, <1>3

LEMMA OwnStep ==
  ASSUME Recoverable, ~MayArrive, OwnInv, [Next]_vars
  PROVE  OwnInv'
<1>1. AgreeInv'
  BY AgreeStep DEF OwnInv
<1>2. CASE UNCHANGED vars
  BY <1>1, <1>2, OwnKept DEF vars
<1>3. CASE Next
  BY <1>1, <1>3, OwnFrontend, OwnManager, OwnMessages, OwnReconfigure DEF Next
<1>4. QED BY <1>2, <1>3

(* If requests arrive only between switches, though some may still be queued   *)
(* or running when one starts, every request is executed by the model whose    *)
(* tokenizer made its prompt.                                                  *)
THEOREM RunOnOwnModel ==
  ASSUME Recoverable, ~MayArrive
  PROVE  PartSpec => []RanOnOwn
<1> DEFINE Inv == part = "contained" => OwnInv
<1>1. Init => OwnInv
  BY InitialAgreement DEF Init, OwnInv, QueuedInTime, ScheduledOwn, RanOnOwnModel
<1>2. PartInit => Inv
  BY <1>1 DEF PartInit, Contained
<1>3. Inv /\ [PartNext]_partVars => Inv'
  <2>1. CASE UNCHANGED partVars
    BY <2>1, OwnStep DEF partVars
  <2>2. CASE PartNext
    BY <2>2, OwnStep DEF PartNext, Contained
  <2>3. QED BY <2>1, <2>2
<1>4. Inv => RanOnOwn
  BY DEF RanOnOwn, Contained, OwnInv
<1>5. QED BY <1>2, <1>3, <1>4, PTL DEF PartSpec
=============================================================================
