----------------------------- MODULE MatcherRun -----------------------------
(***************************************************************************)
(* Which threads run the matching of one pair.  A thread is started for    *)
(* the pair when the process boots and whenever an administrator switches  *)
(* the pair on.  It returns at once when the run key is there; otherwise   *)
(* it works in rounds, each of which reads the switch and sets the key     *)
(* again for 30 seconds.  Switch and key are in Redis and outlive the      *)
(* process.                                                                *)
(*                                                                         *)
(* What a round does is in Matcher, which allows any number of matchers.   *)
(***************************************************************************)
EXTENDS Naturals, FiniteSets

CONSTANTS
    Runners,      \* threads the process may start
    MaxSwitches,  \* bound on the uses of the switch
    MaxCrashes    \* bound on the restarts of the process

ASSUME RunAssumption == MaxSwitches \in Nat /\ MaxCrashes \in Nat

VARIABLES
    tradeSwitch,  \* KEY_TRADE_SWITCH is on
    lastTime,     \* KEY_TRADE_LASTTIME is there
    runner,       \* where each thread is; "none": not started, or returned
    booted,       \* the process is up and has started its thread
    pausing,      \* the switch has been set off, the key not deleted yet
    switches, crashes   \* how much of each bound is used

runVars == <<tradeSwitch, lastTime, runner, booted, pausing, switches, crashes>>

RunInit ==
    /\ tradeSwitch \in BOOLEAN /\ lastTime = FALSE
    /\ runner = [m \in Runners |-> "none"]
    /\ booted = FALSE /\ pausing = FALSE
    /\ switches = 0 /\ crashes = 0

\* One more thread calls request().
StartThread == \E m \in Runners : /\ runner[m] = "none"
                                  /\ runner' = [runner EXCEPT ![m] = "enter"]

GoesTo(m, from, to) == /\ runner[m] = from
                       /\ runner' = [runner EXCEPT ![m] = to]

-----------------------------------------------------------------------------
Boot ==
    /\ ~booted
    /\ StartThread
    /\ booted' = TRUE
    /\ UNCHANGED <<tradeSwitch, lastTime, pausing, switches, crashes>>

SwitchOn ==
    /\ booted /\ ~pausing /\ switches < MaxSwitches
    /\ switches' = switches + 1
    /\ tradeSwitch' = TRUE
    /\ StartThread
    /\ UNCHANGED <<lastTime, booted, pausing, crashes>>

SwitchOff ==
    /\ booted /\ ~pausing /\ switches < MaxSwitches
    /\ switches' = switches + 1
    /\ tradeSwitch' = FALSE
    /\ pausing' = TRUE
    /\ UNCHANGED <<lastTime, runner, booted, crashes>>

DeleteKey ==
    /\ pausing
    /\ lastTime' = FALSE
    /\ pausing' = FALSE
    /\ UNCHANGED <<tradeSwitch, runner, booted, switches, crashes>>

\* request() returns when the run key says that a thread is running.
Enter(m) ==
    /\ GoesTo(m, "enter", IF lastTime THEN "none" ELSE "loop")
    /\ UNCHANGED <<tradeSwitch, lastTime, booted, pausing, switches, crashes>>

\* (Mutant.)  The switch is not read again.
LoopOn(m) ==
    /\ GoesTo(m, "loop", "setKey")
    /\ UNCHANGED <<tradeSwitch, lastTime, booted, pausing, switches, crashes>>

\* The loop ends when the switch is off.
ReadSwitch(m) ==
    /\ GoesTo(m, "loop", IF tradeSwitch THEN "setKey" ELSE "none")
    /\ UNCHANGED <<tradeSwitch, lastTime, booted, pausing, switches, crashes>>

SetKey(m) ==
    /\ GoesTo(m, "setKey", "round")
    /\ lastTime' = TRUE
    /\ UNCHANGED <<tradeSwitch, booted, pausing, switches, crashes>>

\* The round is over: it matched, it slept, or it failed, which is caught.
EndRound(m) ==
    /\ GoesTo(m, "round", "loop")
    /\ UNCHANGED <<tradeSwitch, lastTime, booted, pausing, switches, crashes>>

\* A round waits for locks as long as it takes: its key may expire.
KeyExpires ==
    /\ lastTime
    /\ lastTime' = FALSE
    /\ UNCHANGED <<tradeSwitch, runner, booted, pausing, switches, crashes>>

Crash ==
    /\ crashes < MaxCrashes
    /\ crashes' = crashes + 1
    /\ runner' = [m \in Runners |-> "none"]
    /\ booted' = FALSE /\ pausing' = FALSE
    /\ UNCHANGED <<tradeSwitch, lastTime, switches>>

RunnerStep(m) == Enter(m) \/ ReadSwitch(m) \/ SetKey(m) \/ EndRound(m)

RunNext ==
    \/ Boot \/ SwitchOn \/ SwitchOff \/ DeleteKey
    \/ \E m \in Runners : RunnerStep(m)
    \/ KeyExpires \/ Crash

RunSpec == RunInit /\ [][RunNext]_runVars

\* The process is started again after a crash, its threads are scheduled, and
\* a request that has begun ends.  The key need not expire: it may be set again
\* before it does.
FairRunSpec ==
    /\ RunSpec
    /\ WF_runVars(Boot) /\ WF_runVars(DeleteKey)
    /\ \A m \in Runners : WF_runVars(RunnerStep(m))

-----------------------------------------------------------------------------
Running(m) == runner[m] \in {"loop", "setKey", "round"}

\* A pause takes effect: when the pair stays switched off, every thread ends,
\* those included that were past reading the switch or set the key again after
\* it was deleted.
PauseTakesEffect == <>[]~tradeSwitch => <>[](\A m \in Runners : runner[m] = "none")

\* request(): only one thread is allowed to run.
AtMostOneRuns == Cardinality({m \in Runners : Running(m)}) <= 1

\* TradeRunnerImpl: the matching runs once the project has been started (and
\* the pair is switched on).
StartedRuns == <>[](booted /\ tradeSwitch) => <>[](\E m \in Runners : Running(m))
=============================================================================
