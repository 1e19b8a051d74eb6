---------------------------- MODULE MCModelSwitch ----------------------------
(* Instances of ModelSwitch for TLC, in one run: with the failures from which  *)
(* the code recovers, as the configuration names them, and with all of them at *)
(* any time.  The second case has no requests and a switch less.               *)
EXTENDS ModelSwitch

VARIABLE part

Any == INSTANCE ModelSwitch WITH
  Requests <- {}, FailAt <- Steps, Marked <- BOOLEAN, MaxSwitches <- 2, MaxSleeps <- 0, MayArrive <- TRUE

OwnKeys == [m \in Models |-> m]
BothTags == {Tags}
-----------------------------------------------------------------------------
Contained == part = "contained"
partVars == <<part, vars>>

PartInit == \/ Contained /\ Init
            \/ part = "any" /\ Any!Init
PartNext == \/ Contained /\ Next /\ UNCHANGED part
            \/ part = "any" /\ Any!Next /\ UNCHANGED part
PartSpec == PartInit /\ [][PartNext]_partVars

\* The fairness of ModelSwitch, of whichever case it is.
Either(action, inAny) ==
  /\ (Contained /\ action) \/ (part = "any" /\ inAny)
  /\ UNCHANGED part
PartFairness ==
  /\ WF_partVars(Either(Manager, Any!Manager))
  /\ WF_partVars(Either(Messages, Any!Messages))
  /\ WF_partVars(Either(Reconfigure, Any!Reconfigure))
  /\ \A q \in Requests :
       WF_partVars(Either(Deliver(q), FALSE)) /\ WF_partVars(Either(Execute(q), FALSE))
LivePartSpec == PartSpec /\ PartFairness
-----------------------------------------------------------------------------
\* Between switches, whether the last one succeeded or was rolled back, the
\* manager, the frontend, the engine core and every worker mean one model.
Agreed == Contained => Agreement

\* The workers are ready for whatever the engine core may ask of them next.
Ready == Contained => WorkersReady

\* A request is executed by the model whose tokenizer made its prompt.
RanOnOwn == Contained => RanOnOwnModel

\* The stash has every model that sleeps, and what serves can defragment.
StashComplete == Contained => SleepingIsStashed
Defragments == Contained => DefragmenterReady

\* Every accepted request is answered, unless the engine is put to sleep for
\* good; and whatever fails, each switch ends and none leaves the scheduler
\* paused.
Answered ==
  /\ \A q \in Requests :
       (Contained /\ req[q].at = "inbox") ~> (~Contained \/ req[q].at = "answered" \/ Asleep)
  /\ SwitchEnds
=============================================================================
