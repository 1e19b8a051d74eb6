----------------------------- MODULE ModelSwitch -----------------------------
(* Switching the served model inside one process: MultiModelAsyncLLM (the      *)
(* manager and the request frontend), EngineCore.gaudi_reconfigure_engine and  *)
(* the HPUWorkers that sleep, stash, load and restore model runners.           *)
(*                                                                             *)
(* The engine core is one thread that takes requests and calls from its inbox  *)
(* in order; a reconfiguration is a sequence of steps of that thread, during   *)
(* which only the frontend runs. Each step may fail, on some workers or all.   *)
EXTENDS Naturals, Sequences, FiniteSets

CONSTANTS
  Models,       \* the names of model_configs
  Default,      \* the model initialize() loads
  Workers,      \* the HPUWorkers behind collective_rpc
  Requests,     \* requests clients may send
  KeyOf,        \* KeyOf[m]: _runner_stash_key of m's config
  FailAt,       \* the steps that may fail
  Marked,       \* the values stash_created may get from the workers' reports
  MaxSwitches,  \* bound on the switches that are started
  MaxSleeps,    \* bound on calls of the sleep endpoint
  WakeTags,     \* the tag sets the wake_up endpoint is called with
  MayArrive,    \* may requests arrive while a switch is under way?
  NONE

Steps == {"normalize", "pause", "sleep", "unload", "load", "kv", "rebuild", "restore", "refresh"}
Tags == {"weights", "kv_cache"}
Keys == {KeyOf[m] : m \in Models}

ASSUME SwitchAssumption ==
  /\ Default \in Models /\ NONE \notin Models /\ NONE \notin Workers /\ NONE \notin {"ok", "error"}
  /\ DOMAIN KeyOf = Models
  /\ FailAt \subseteq Steps /\ Marked \subseteq BOOLEAN /\ Marked # {}
  /\ MaxSwitches \in Nat /\ MaxSleeps \in Nat
  /\ WakeTags \subseteq SUBSET Tags
  /\ MayArrive \in BOOLEAN

VARIABLES
  manager,   \* _current_model_name, _sleeping, and the switch that holds _switching_lock
  frontend,  \* AsyncLLM: the model its processors are for, and which OutputProcessor it has
  core,      \* EngineCore: vllm_config, scheduler, executor tags, step of the reconfiguration
  inbox,     \* requests and calls on their way to the engine core
  worker,    \* the state of each HPUWorker
  req,       \* each request: where it is, the model it was tokenized for, its OutputProcessor
  ran        \* ran[q]: the model q was executed on

vars == <<manager, frontend, core, inbox, worker, req, ran>>

-----------------------------------------------------------------------------
(* HPUWorker. A model runner has its weights on the HPU or on the CPU, a KV    *)
(* cache laid out for some model, compiled graphs and a defragmenter.          *)
NoRunner == [model |-> NONE, on_hpu |-> FALSE, kv_caches |-> NONE, graphed |-> FALSE, defragmenter |-> FALSE]
NoStash == [runner |-> NoRunner, model_sleeping |-> FALSE, kv_cache_sleeping |-> FALSE, kv_cache_config |-> NONE]

SleepModel(w) ==
  IF w.model_sleeping \/ w.runner.model = NONE THEN w
  ELSE [w EXCEPT !.runner.on_hpu = FALSE, !.model_sleeping = TRUE]

SleepCache(w) ==
  IF w.kv_cache_sleeping \/ w.kv_cache_config = NONE \/ w.runner.model = NONE THEN w
  ELSE [w EXCEPT !.runner.kv_caches = NONE, !.runner.defragmenter = FALSE, !.kv_cache_sleeping = TRUE]

sleep(w) == SleepCache(SleepModel(w))

WakeModel(w) ==
  IF ~w.model_sleeping \/ w.runner.model = NONE THEN w
  ELSE [w EXCEPT !.runner.on_hpu = TRUE, !.model_sleeping = FALSE]

WakeCache(w) ==
  IF ~w.kv_cache_sleeping \/ w.kv_cache_config = NONE THEN w
  ELSE [w EXCEPT !.runner.kv_caches = w.kv_cache_config, !.runner.defragmenter = TRUE,
                 !.kv_cache_sleeping = FALSE]

wake_up(w, tags) ==
  LET v == IF "weights" \in tags THEN WakeModel(w) ELSE w
  IN  IF "kv_cache" \in tags THEN WakeCache(v) ELSE v

(* The runner goes to the stash, under the key of its own config, with the     *)
(* flags of the moment.                                                        *)
unload_model(w) ==
  LET stashed == [runner |-> w.runner, model_sleeping |-> w.model_sleeping,
                  kv_cache_sleeping |-> w.kv_cache_sleeping, kv_cache_config |-> w.kv_cache_config]
      v == IF w.runner.model = NONE THEN w
           ELSE [w EXCEPT !.stash[KeyOf[w.runner.model]] = stashed, !.runner = NoRunner]
  IN  [v EXCEPT !.model_sleeping = FALSE, !.kv_cache_sleeping = FALSE]

(* The stashed runner, its config and its flags become the worker's own.       *)
Unstashed(w, k) ==
  LET s == w.stash[k]
  IN  [w EXCEPT !.runner = s.runner, !.stash[k] = NoStash, !.config = s.runner.model,
                !.model_sleeping = s.model_sleeping, !.kv_cache_sleeping = s.kv_cache_sleeping,
                !.kv_cache_config = s.kv_cache_config]

Stashed(w, m) == w.stash[KeyOf[m]].runner.model # NONE

(* Mutant: a rollback wakes the weights only.                                  *)
restore_weights_only(w, m, restore_kv_cache) ==
  IF ~Stashed(w, m) THEN w ELSE [WakeModel(Unstashed(w, KeyOf[m])) EXCEPT !.kv_cache_sleeping = FALSE]

restore_stashed_model(w, m, restore_kv_cache) ==
  LET v == WakeModel(Unstashed(w, KeyOf[m]))
  IN  IF ~Stashed(w, m) THEN w
      ELSE IF restore_kv_cache THEN WakeCache(v) ELSE [v EXCEPT !.kv_cache_sleeping = FALSE]

load_model(w, m) ==
  IF Stashed(w, m)
    THEN restore_stashed_model([w EXCEPT !.config = m], m, FALSE)
    ELSE [w EXCEPT !.config = m, !.runner = [NoRunner EXCEPT !.model = m, !.on_hpu = TRUE],
                   !.model_sleeping = FALSE, !.kv_cache_sleeping = FALSE]

(* A load that raises has applied the config. A runner from the stash is left  *)
(* unwoken; a new one exists, without its weights, or does not exist yet.      *)
LoadFailed(w, m, built) ==
  IF Stashed(w, m) THEN Unstashed(w, KeyOf[m])
  ELSE [w EXCEPT !.config = m, !.runner = IF built THEN [NoRunner EXCEPT !.model = m] ELSE NoRunner]

(* The KV cache is laid out anew; graphs are warmed up, and the defragmenter   *)
(* is made, only if the runner has no graphs yet.                              *)
initialize_from_config(w, m) ==
  [w EXCEPT !.kv_cache_config = m, !.runner.kv_caches = m, !.kv_cache_sleeping = FALSE,
            !.runner.graphed = TRUE, !.runner.defragmenter = @ \/ ~w.runner.graphed]

-----------------------------------------------------------------------------
Init ==
  /\ manager = [current |-> Default, sleeping |-> [m \in Models |-> IF m = Default THEN "no" ELSE "unset"], phase |-> "idle", target |-> NONE,
                switches |-> 0, sleeps |-> 0]
  /\ frontend = [config |-> Default, processor |-> 0]
  /\ core = [config |-> Default, scheduler |-> Default, paused |-> FALSE, sleeping_tags |-> {},
             pc |-> "ready", new |-> NONE, previous |-> NONE, stash_created |-> FALSE, reply |-> NONE]
  /\ inbox = <<>>
  /\ worker = [w \in Workers |->
       [config |-> Default, model_sleeping |-> FALSE, kv_cache_sleeping |-> FALSE,
        kv_cache_config |-> Default, stash |-> [k \in Keys |-> NoStash],
        runner |-> [model |-> Default, on_hpu |-> TRUE, kv_caches |-> Default,
                    graphed |-> TRUE, defragmenter |-> TRUE]]]
  /\ req = [q \in Requests |-> [at |-> "client", model |-> NONE, processor |-> 0]]
  /\ ran = [q \in Requests |-> NONE]

-----------------------------------------------------------------------------
Call(name) == [call |-> name, req |-> NONE, tags |-> {}]
WakeCall(tags) == [Call("wake_up") EXCEPT !.tags = tags]

(* Frontend: AsyncLLM.add_request tokenizes with the processors of the moment. *)
Submit(q) ==
  /\ req[q].at = "client"
  /\ manager.phase = "idle" \/ MayArrive
  /\ req' = [req EXCEPT ![q] = [at |-> "inbox", model |-> frontend.config, processor |-> frontend.processor]]
  /\ inbox' = Append(inbox, [Call("add_request") EXCEPT !.req = q])
  /\ UNCHANGED <<manager, frontend, core, worker, ran>>

(* The output handler passes an output on if its OutputProcessor knows the     *)
(* request, and drops it otherwise.                                            *)
Deliver(q) ==
  /\ req[q].at = "output"
  /\ req' = [req EXCEPT ![q].at = IF req[q].processor = frontend.processor THEN "answered" ELSE "lost"]
  /\ UNCHANGED <<manager, frontend, core, inbox, worker, ran>>

SleepEndpoint ==
  /\ manager.sleeps < MaxSleeps
  /\ manager' = [manager EXCEPT !.sleeps = @ + 1]
  /\ inbox' = Append(inbox, Call("sleep"))
  /\ UNCHANGED <<frontend, core, worker, req, ran>>

WakeEndpoint(tags) ==
  /\ core.sleeping_tags # {}
  /\ tags \in WakeTags
  /\ \A i \in DOMAIN inbox : inbox[i].call # "wake_up"
  /\ inbox' = Append(inbox, WakeCall(tags))
  /\ UNCHANGED <<manager, frontend, core, worker, req, ran>>

-----------------------------------------------------------------------------
(* MultiModelAsyncLLM.switch_model. The lock is held in every phase but idle.  *)
StartSwitch(m) ==
  /\ manager.phase = "idle"
  /\ manager.switches < MaxSwitches
  /\ m # manager.current
  /\ manager' = [manager EXCEPT !.phase = "drain", !.target = m, !.switches = @ + 1]
  /\ UNCHANGED <<frontend, core, inbox, worker, req, ran>>

(* The wait ends when no request is left or when it times out, that is at any  *)
(* time; the engine core is called either way.                                 *)
Drained ==
  /\ manager.phase = "drain"
  /\ manager' = [manager EXCEPT !.phase = "reconfigure"]
  /\ inbox' = Append(inbox, Call("reconfigure"))
  /\ UNCHANGED <<frontend, core, worker, req, ran>>

(* Mutant: the frontend keeps the tokenizer of the model before.               *)
RefreshKeepsConfig ==
  /\ manager.phase = "reconfigure" /\ core.reply = "ok"
  /\ \A q \in Requests : req[q].at # "output"
  /\ frontend' = [frontend EXCEPT !.processor = @ + 1]
  /\ manager' = [manager EXCEPT !.current = manager.target, !.phase = "idle", !.target = NONE,
                                !.sleeping[manager.current] = "yes", !.sleeping[manager.target] = "no"]
  /\ core' = [core EXCEPT !.reply = NONE]
  /\ UNCHANGED <<inbox, worker, req, ran>>

(* Outputs the core sent before its reply were handled before it.              *)
Refresh ==
  /\ manager.phase = "reconfigure" /\ core.reply = "ok"
  /\ \A q \in Requests : req[q].at # "output"
  /\ frontend' = [config |-> manager.target, processor |-> frontend.processor + 1]
  /\ manager' = [manager EXCEPT !.current = manager.target, !.phase = "idle", !.target = NONE,
                                !.sleeping[manager.current] = "yes", !.sleeping[manager.target] = "no"]
  /\ core' = [core EXCEPT !.reply = NONE]
  /\ UNCHANGED <<inbox, worker, req, ran>>

Recover ==
  /\ manager' = [manager EXCEPT !.phase = "recover"]
  /\ inbox' = inbox \o <<WakeCall(Tags), Call("resume")>>
  /\ core' = [core EXCEPT !.reply = NONE]
  /\ UNCHANGED <<worker, req, ran>>

(* The frontend's model_config is set before its processors are rebuilt.       *)
RefreshFails ==
  /\ "refresh" \in FailAt
  /\ manager.phase = "reconfigure" /\ core.reply = "ok"
  /\ frontend' = [frontend EXCEPT !.config = manager.target]
  /\ Recover

ReconfigureFailed ==
  /\ manager.phase = "reconfigure" /\ core.reply = "error"
  /\ UNCHANGED frontend
  /\ Recover

Recovered ==
  /\ manager.phase = "recover"
  /\ \A i \in DOMAIN inbox : inbox[i].call # "resume"
  /\ manager' = [manager EXCEPT !.phase = "idle", !.target = NONE, !.sleeping[manager.current] = "no"]
  /\ UNCHANGED <<frontend, core, inbox, worker, req, ran>>

-----------------------------------------------------------------------------
(* EngineCore (external): one message of the inbox, or a step of the model, at *)
(* a time; abort mode ends every scheduled request with an error output.       *)
Takes(name) == core.pc = "ready" /\ inbox # <<>> /\ Head(inbox).call = name /\ inbox' = Tail(inbox)
Aborted == [q \in Requests |-> IF req[q].at = "scheduled" THEN [req[q] EXCEPT !.at = "output"] ELSE req[q]]

TakeRequest ==
  /\ Takes("add_request")
  /\ req' = [req EXCEPT ![Head(inbox).req].at = "scheduled"]
  /\ UNCHANGED <<manager, frontend, core, worker, ran>>

Execute(q) ==
  /\ core.pc = "ready" /\ ~core.paused
  /\ req[q].at = "scheduled"
  /\ req' = [req EXCEPT ![q].at = "output"]
  /\ ran' = [ran EXCEPT ![q] = core.scheduler]
  /\ UNCHANGED <<manager, frontend, core, inbox, worker>>

TakeSleep ==
  /\ Takes("sleep")
  /\ req' = Aborted
  /\ core' = [core EXCEPT !.paused = TRUE, !.sleeping_tags = Tags]
  /\ worker' = IF core.sleeping_tags # {} THEN worker ELSE [w \in Workers |-> sleep(worker[w])]
  /\ UNCHANGED <<manager, frontend, ran>>

(* The executor ignores tags that are not asleep, all of the call's with them. *)
TakeWakeUp ==
  LET tags == Head(inbox).tags
      left == core.sleeping_tags \ tags
  IN  /\ Takes("wake_up")
      /\ IF tags \subseteq core.sleeping_tags
           THEN /\ worker' = [w \in Workers |-> wake_up(worker[w], tags)]
                /\ core' = [core EXCEPT !.sleeping_tags = left, !.paused = @ /\ left # {}]
           ELSE UNCHANGED <<worker, core>>
      /\ UNCHANGED <<manager, frontend, req, ran>>

TakeResume ==
  /\ Takes("resume")
  /\ core' = [core EXCEPT !.paused = FALSE]
  /\ UNCHANGED <<manager, frontend, worker, req, ran>>

-----------------------------------------------------------------------------
(* gaudi_reconfigure_engine, one action per step.                              *)
At(step) == core.pc = step
MayFail(step) == step \in FailAt
Then(step) == core' = [core EXCEPT !.pc = step]

TakeReconfigure ==
  /\ Takes("reconfigure")
  /\ core' = [core EXCEPT !.pc = "normalize", !.new = manager.target, !.previous = core.config,
                          !.stash_created = FALSE]
  /\ UNCHANGED <<manager, frontend, worker, req, ran>>

Normalize ==
  /\ At("normalize")
  /\ \/ Then("pause")
     \/ MayFail("normalize") /\ Then("rollback")
  /\ UNCHANGED <<manager, frontend, inbox, worker, req, ran>>

(* Failures to pause and to sleep are logged, and the reconfiguration goes on. *)
PauseScheduler ==
  /\ At("pause")
  /\ \/ req' = Aborted /\ core' = [core EXCEPT !.pc = "sleep", !.paused = TRUE]
     \/ MayFail("pause") /\ UNCHANGED req /\ Then("sleep")
  /\ UNCHANGED <<manager, frontend, inbox, worker, ran>>

Sleep ==
  /\ At("sleep")
  /\ IF core.sleeping_tags # {} THEN Then("unload") /\ UNCHANGED worker
     ELSE \/ /\ worker' = [w \in Workers |-> sleep(worker[w])]
             /\ core' = [core EXCEPT !.pc = "unload", !.sleeping_tags = Tags]
          \/ /\ MayFail("sleep")
             /\ \E ok \in SUBSET Workers :
                  worker' = [w \in Workers |-> IF w \in ok THEN sleep(worker[w]) ELSE worker[w]]
             /\ Then("unload")
  /\ UNCHANGED <<manager, frontend, inbox, req, ran>>

(* stash_created tells only whether a worker reported its memory.              *)
Unload ==
  /\ At("unload")
  /\ \/ /\ worker' = [w \in Workers |-> unload_model(worker[w])]
        /\ \E created \in Marked : core' = [core EXCEPT !.pc = "load", !.stash_created = created]
     \/ /\ MayFail("unload")
        /\ \E ok \in SUBSET Workers \ {Workers} :
             worker' = [w \in Workers |-> IF w \in ok THEN unload_model(worker[w]) ELSE worker[w]]
        /\ Then("rollback")
  /\ UNCHANGED <<manager, frontend, inbox, req, ran>>

Load ==
  /\ At("load")
  /\ \/ worker' = [w \in Workers |-> load_model(worker[w], core.new)] /\ Then("kv")
     \/ /\ MayFail("load")
        /\ \E ok \in SUBSET Workers \ {Workers}, built \in BOOLEAN :
             worker' = [w \in Workers |->
               IF w \in ok THEN load_model(worker[w], core.new) ELSE LoadFailed(worker[w], core.new, built)]
        /\ Then("rollback")
  /\ UNCHANGED <<manager, frontend, inbox, req, ran>>

InitializeKVCaches ==
  /\ At("kv")
  /\ \/ /\ worker' = [w \in Workers |-> initialize_from_config(worker[w], core.new)]
        /\ core' = [core EXCEPT !.pc = "rebuild", !.config = core.new]
     \/ /\ MayFail("kv")
        /\ \E ok \in SUBSET Workers \ {Workers} :
             worker' = [w \in Workers |->
               IF w \in ok THEN initialize_from_config(worker[w], core.new) ELSE worker[w]]
        /\ core' = [core EXCEPT !.pc = "rollback", !.config = core.new]
  /\ UNCHANGED <<manager, frontend, inbox, req, ran>>

(* The new scheduler knows no request. What follows it may still fail.         *)
Rebuild ==
  /\ At("rebuild")
  /\ req' = [q \in Requests |-> IF req[q].at = "scheduled" THEN [req[q] EXCEPT !.at = "lost"] ELSE req[q]]
  /\ \/ core' = [core EXCEPT !.pc = "resume", !.scheduler = core.new]
     \/ MayFail("rebuild") /\ core' = [core EXCEPT !.pc = "rollback", !.scheduler = core.new]
  /\ UNCHANGED <<manager, frontend, inbox, worker, ran>>

(* Mutant: the pause outlives the switch.                                      *)
ResumeForgetsPause ==
  /\ At("resume")
  /\ core' = [core EXCEPT !.pc = "ready", !.sleeping_tags = {}, !.reply = "ok"]
  /\ UNCHANGED <<manager, frontend, inbox, worker, req, ran>>

ResumeScheduler ==
  /\ At("resume")
  /\ core' = [core EXCEPT !.pc = "ready", !.sleeping_tags = {}, !.paused = FALSE, !.reply = "ok"]
  /\ UNCHANGED <<manager, frontend, inbox, worker, req, ran>>

(* Mutant: the rolled-back engine core keeps the new model's config.           *)
RollbackKeepsConfig ==
  /\ At("rollback")
  /\ worker' = [w \in Workers |->
       IF core.stash_created THEN restore_stashed_model(worker[w], core.previous, TRUE) ELSE worker[w]]
  /\ core' = [core EXCEPT !.pc = "ready", !.paused = FALSE, !.reply = "error"]
  /\ UNCHANGED <<manager, frontend, inbox, req, ran>>

Rollback ==
  /\ At("rollback")
  /\ \E ok \in (IF MayFail("restore") THEN SUBSET Workers ELSE {Workers}) :
       worker' = [w \in Workers |->
         IF core.stash_created /\ w \in ok
           THEN restore_stashed_model(worker[w], core.previous, TRUE) ELSE worker[w]]
  /\ core' = [core EXCEPT !.pc = "ready", !.config = core.previous, !.paused = FALSE, !.reply = "error"]
  /\ UNCHANGED <<manager, frontend, inbox, req, ran>>

-----------------------------------------------------------------------------
Reconfigure ==
  \/ TakeReconfigure \/ Normalize \/ PauseScheduler \/ Sleep \/ Unload \/ Load
  \/ InitializeKVCaches \/ Rebuild \/ ResumeScheduler \/ Rollback

Manager == Drained \/ Refresh \/ RefreshFails \/ ReconfigureFailed \/ Recovered
Messages == TakeRequest \/ TakeSleep \/ TakeWakeUp \/ TakeResume

Next ==
  \/ \E q \in Requests : Submit(q) \/ Deliver(q) \/ Execute(q)
  \/ SleepEndpoint \/ (\E tags \in WakeTags : WakeEndpoint(tags))
  \/ (\E m \in Models : StartSwitch(m))
  \/ Manager \/ Messages \/ Reconfigure

Spec == Init /\ [][Next]_vars

(* The engine core's loop takes every message and finishes every call; drains  *)
(* time out; the event loop runs the output handler and the switch coroutine.  *)
Fairness ==
  /\ WF_vars(Manager) /\ WF_vars(Messages) /\ WF_vars(Reconfigure)
  /\ \A q \in Requests : WF_vars(Deliver(q)) /\ WF_vars(Execute(q))

LiveSpec == Spec /\ Fairness

-----------------------------------------------------------------------------
RunnerType == [model : Models \union {NONE}, on_hpu : BOOLEAN, kv_caches : Models \union {NONE},
               graphed : BOOLEAN, defragmenter : BOOLEAN]
StashType == [runner : RunnerType, model_sleeping : BOOLEAN, kv_cache_sleeping : BOOLEAN,
              kv_cache_config : Models \union {NONE}]

ManagerType == [current : Models, sleeping : [Models -> {"unset", "no", "yes"}],
                phase : {"idle", "drain", "reconfigure", "recover"}, target : Models \union {NONE},
                switches : 0..MaxSwitches, sleeps : 0..MaxSleeps]
CoreType == [config : Models, scheduler : Models, paused : BOOLEAN, sleeping_tags : SUBSET Tags,
             pc : {"ready", "pause", "resume", "rollback"} \union Steps,
             new : Models \union {NONE}, previous : Models \union {NONE},
             stash_created : BOOLEAN, reply : {NONE, "ok", "error"}]
CallType == [call : {"add_request", "sleep", "wake_up", "resume", "reconfigure"},
             req : Requests \union {NONE}, tags : SUBSET Tags]
WorkerType == [config : Models, model_sleeping : BOOLEAN, kv_cache_sleeping : BOOLEAN,
               kv_cache_config : Models \union {NONE}, stash : [Keys -> StashType],
               runner : RunnerType]
RequestType == [at : {"client", "inbox", "scheduled", "output", "answered", "lost"},
                model : Models \union {NONE}, processor : 0..MaxSwitches]

TypeOK ==
  /\ manager \in ManagerType
  /\ manager.phase \in {"idle", "recover"} \/ manager.target # NONE
  /\ frontend \in [config : Models, processor : 0..MaxSwitches]
  /\ core \in CoreType
  /\ inbox \in Seq(CallType)
  /\ worker \in [Workers -> WorkerType]
  /\ req \in [Requests -> RequestType]
  /\ ran \in [Requests -> Models \union {NONE}]

(* Between switches, whether the last one succeeded or was rolled back, the    *)
(* manager, the frontend, the engine core and every worker mean one model.     *)
Agreement ==
  manager.phase = "idle" =>
    /\ {frontend.config, core.config, core.scheduler} = {manager.current}
    /\ \A w \in Workers : {worker[w].config, worker[w].runner.model} = {manager.current}
    /\ {m \in Models : manager.sleeping[m] = "no"} = {manager.current}

(* Whenever the engine core may run a step, each worker has the runner of the  *)
(* scheduler's model, with its weights on the HPU and its KV cache laid out.   *)
ServesAwake ==
  core.pc = "ready" /\ ~core.paused =>
    \A w \in Workers : LET r == worker[w].runner IN
      r.model = core.scheduler /\ r.on_hpu /\ r.kv_caches = core.scheduler

(* A stashed runner holds no device memory: its weights are on the CPU and its *)
(* KV cache is gone, so switching never piles models up on the HPU.            *)
StashOnCpu ==
  \A w \in Workers : \A k \in Keys :
    LET r == worker[w].stash[k].runner IN ~r.on_hpu /\ r.kv_caches = NONE

(* Between switches the executor's sleeping tags say what the workers' flags   *)
(* and their runners say: a wake-up call reaches exactly what is asleep.       *)
SleepTagsMatch ==
  manager.phase = "idle" => \A w \in Workers :
    /\ "weights" \in core.sleeping_tags <=> worker[w].model_sleeping
    /\ "kv_cache" \in core.sleeping_tags <=> worker[w].kv_cache_sleeping
    /\ worker[w].model_sleeping <=> ~worker[w].runner.on_hpu
    /\ worker[w].kv_cache_sleeping <=> worker[w].runner.kv_caches = NONE

(* The workers are ready for whatever the engine core may ask of them next: to *)
(* serve, to switch away, to sleep or to wake up.                              *)
WorkersReady == ServesAwake /\ StashOnCpu /\ SleepTagsMatch

(* A request is executed by the model whose tokenizer made its prompt.         *)
RanOnOwnModel == \A q \in Requests : ran[q] \in {NONE, req[q].model}

(* Every model the manager counts as sleeping is in the stash of every worker, *)
(* so that switching back to it finds its compiled graphs.                     *)
SleepingIsStashed ==
  \A m \in Models : manager.phase = "idle" /\ manager.sleeping[m] = "yes" =>
    \A w \in Workers : worker[w].stash[KeyOf[m]].runner.model = m /\ worker[w].stash[KeyOf[m]].runner.graphed

(* A runner that serves has the defragmenter that warm-up and wake_up give it. *)
DefragmenterReady ==
  core.pc = "ready" /\ ~core.paused => \A w \in Workers : worker[w].runner.defragmenter

(* Put to sleep by its clients, not by a switch.                               *)
Asleep == manager.phase = "idle" /\ core.sleeping_tags # {}

(* Each switch ends, and the scheduler is never left paused by one.            *)
SwitchEnds ==
  /\ (manager.phase # "idle") ~> (manager.phase = "idle")
  /\ core.paused ~> (~core.paused \/ Asleep)
=============================================================================
