-------------------------- MODULE CommandCollector --------------------------
(***************************************************************************)
(* The collectors that run a command (host_monitor/collectors.py):         *)
(* NvidiaGpuCollector runs nvidia-smi to its end, TegrastatsCollector      *)
(* starts tegrastats, reads one line and stops it again.  One thread calls *)
(* them, one call at a time.  A command that never worked is given up;     *)
(* once it has, its exceptions are raised.                                 *)
(*                                                                         *)
(* Time passes only while the thread waits for its child, see Waiting.     *)
(***************************************************************************)
EXTENDS Integers

CONSTANTS
    Patience,       \* gpu_timeout_sec and tegrastats_timeout_sec, in ticks
    Grace           \* ticks a terminated tegrastats has to exit (0.1 s)

Tools == {"gpu", "tegrastats"}

ASSUME PatienceAssumption == Patience \in [Tools -> Nat \ {0}] /\ Grace \in Nat \ {0}

VARIABLES
    unsupported, hasSucceeded,  \* of each collector
    called,         \* the collector in its sample(), or "none"
    at,             \* where in sample() the thread is
    waited,         \* ticks in the present wait
    child,          \* the process started last: alive, and what it has written
    failure,        \* the exception under way, or "none"
    values,         \* the output read has values
    outcome,        \* how the last call ended, for the monitor to see
    reported,       \* history: whether each one has ever returned samples
    hung            \* history: time has passed in a wait without a limit

callVars == <<called, at, waited, child, failure, values>>
latchVars == <<unsupported, hasSucceeded>>
historyVars == <<outcome, reported, hung>>
commandVars == <<callVars, latchVars, historyVars>>

Failures == {"missing", "failed", "late", "other"}
Gone == [alive |-> FALSE, out |-> "nothing"]

CommandTypeOK ==
    /\ unsupported \in [Tools -> BOOLEAN] /\ hasSucceeded \in [Tools -> BOOLEAN]
    /\ called \in Tools \union {"none"}
    /\ at \in {"start", "select", "read", "finally", "terminated", "killed", "leave"}
    /\ waited \in Nat
    /\ child \in [alive : BOOLEAN, out : {"nothing", "part", "line"}]
    /\ failure \in Failures \union {"none"}
    /\ values \in BOOLEAN /\ hung \in BOOLEAN
    /\ outcome \in {"none", "empty", "samples", "raised"}
    /\ reported \in [Tools -> BOOLEAN]

CommandInit ==
    /\ unsupported = [t \in Tools |-> FALSE] /\ hasSucceeded = [t \in Tools |-> FALSE]
    /\ called = "none" /\ at = "start" /\ waited = 0
    /\ child = Gone
    /\ failure = "none" /\ values = FALSE /\ hung = FALSE
    /\ outcome = "none" /\ reported = [t \in Tools |-> FALSE]

-----------------------------------------------------------------------------
(* The thread in sample().                                                 *)

Ends(t, as) ==
    /\ called' = "none"
    /\ at' = "start"
    /\ outcome' = as
    /\ reported' = [reported EXCEPT ![t] = @ \/ as = "samples"]
    /\ UNCHANGED <<waited, child, failure, values, hung>>

(* A collector that was given up returns nothing at once.                  *)
SkipCall(t) == called = "none" /\ unsupported[t] /\ Ends(t, "empty") /\ UNCHANGED latchVars

Call(t) ==
    /\ called = "none"
    /\ ~unsupported[t]
    /\ called' = t
    /\ failure' = "none"
    /\ values' = FALSE
    /\ UNCHANGED <<at, waited, child, latchVars, historyVars>>

GoTo(where) == at' = where /\ waited' = 0
FailsWith(exception) == failure' = exception

(* The command starts; or it does not exist, or may not be executed.       *)
Start ==
    /\ called # "none" /\ at = "start"
    /\ \/ GoTo("select") /\ child' = [Gone EXCEPT !.alive = TRUE] /\ UNCHANGED failure
       \/ GoTo("leave") /\ child' = Gone /\ \E e \in {"missing", "other"} : FailsWith(e)
    /\ UNCHANGED <<called, values, latchVars, historyVars>>

(* subprocess.run: the command has exited, well or not.                    *)
GpuEnds ==
    /\ called = "gpu" /\ at = "select" /\ ~child.alive
    /\ GoTo("leave")
    /\ \/ values' \in BOOLEAN /\ UNCHANGED failure
       \/ (\E e \in {"failed", "other"} : FailsWith(e)) /\ UNCHANGED values
    /\ UNCHANGED <<called, child, latchVars, historyVars>>

(* subprocess.run kills a command that is late, and waits for it.          *)
GpuIsLate ==
    /\ called = "gpu" /\ at = "select" /\ child.alive /\ waited = Patience["gpu"]
    /\ GoTo("killed")
    /\ FailsWith("late")
    /\ UNCHANGED <<called, child, values, latchVars, historyVars>>

(* select: tegrastats has written something, or closed its output.         *)
Readable == child.out # "nothing" \/ ~child.alive

TegrastatsSelect ==
    /\ called = "tegrastats" /\ at = "select"
    /\ \/ Readable /\ GoTo("read") /\ UNCHANGED failure
       \/ ~Readable /\ waited = Patience["tegrastats"] /\ GoTo("finally") /\ FailsWith("late")
    /\ UNCHANGED <<called, child, values, latchVars, historyVars>>

(* readline returns a whole line, or what there is when the output ends.   *)
TegrastatsReadline ==
    /\ called = "tegrastats" /\ at = "read"
    /\ child.out = "line" \/ ~child.alive
    /\ \/ values' \in (IF child.out = "nothing" THEN {FALSE} ELSE BOOLEAN) /\ UNCHANGED failure
       \/ FailsWith("other") /\ UNCHANGED values
    /\ GoTo("finally")
    /\ UNCHANGED <<called, child, latchVars, historyVars>>

AfterPoll_OnlyIfRead == IF child.alive /\ failure = "none" THEN "terminated" ELSE "leave"
AfterPoll == IF child.alive THEN "terminated" ELSE "leave"

(* The finally block: a child that is alive is terminated ...              *)
TegrastatsPoll ==
    /\ at = "finally"
    /\ GoTo(AfterPoll)
    /\ UNCHANGED <<called, child, failure, values, latchVars, historyVars>>

AfterGrace_WaitsAgain == "terminated"
AfterGrace == "killed"

(* ... has a moment to exit, and is killed if it does not.                 *)
TegrastatsWait ==
    /\ at = "terminated"
    /\ \/ ~child.alive /\ GoTo("leave")
       \/ child.alive /\ waited = Grace /\ GoTo(AfterGrace)
    /\ UNCHANGED <<called, child, failure, values, latchVars, historyVars>>

Reap ==
    /\ at = "killed" /\ ~child.alive
    /\ GoTo("leave")
    /\ UNCHANGED <<called, child, failure, values, latchVars, historyVars>>

(* The failures a collector takes as a sign that its command is not there, *)
(* if it never was.                                                        *)
Absences == {"missing", "failed", "late"}

GivesUp_Always(t) == failure \in Absences
GivesUp(t) == failure \in Absences /\ ~hasSucceeded[t]

Succeeded_OnAnyAnswer(t) == [hasSucceeded EXCEPT ![t] = TRUE]
Succeeded(t) == [hasSucceeded EXCEPT ![t] = @ \/ values]

(* sample() returns or raises.                                             *)
Leave ==
    /\ at = "leave"
    /\ \/ /\ failure = "none"
          /\ Ends(called, IF values THEN "samples" ELSE "empty")
          /\ hasSucceeded' = Succeeded(called)
          /\ UNCHANGED unsupported
       \/ /\ GivesUp(called)
          /\ Ends(called, "empty")
          /\ unsupported' = [unsupported EXCEPT ![called] = TRUE]
          /\ UNCHANGED hasSucceeded
       \/ /\ failure # "none" /\ ~GivesUp(called)
          /\ Ends(called, "raised")
          /\ UNCHANGED latchVars

(* A step inside sample(), before it is left.                              *)
CommandStep ==
    \/ Start
    \/ GpuEnds \/ GpuIsLate
    \/ TegrastatsSelect \/ TegrastatsReadline \/ TegrastatsPoll \/ TegrastatsWait
    \/ Reap

-----------------------------------------------------------------------------
(* The child and time.                                                     *)

(* tegrastats writes its line in pieces of its own choosing; nvidia-smi's  *)
(* output is only looked at once it has exited.                            *)
ChildWrites ==
    /\ child.alive /\ called = "tegrastats"
    /\ child' = [child EXCEPT !.out = IF @ = "nothing" THEN "part" ELSE "line"]
    /\ UNCHANGED <<called, at, waited, failure, values, latchVars, historyVars>>

(* A child exits when it likes: a terminated or a killed one may not.      *)
ChildExits ==
    /\ child.alive
    /\ child' = [child EXCEPT !.alive = FALSE]
    /\ UNCHANGED <<called, at, waited, failure, values, latchVars, historyVars>>

(* Two of the waits have a limit, two have none: readline for the rest of  *)
(* a line, and wait for a child that was killed.                           *)
Limited ==
    /\ child.alive
    /\ \/ at = "select" /\ waited < Patience[called] /\ (called = "gpu" \/ ~Readable)
       \/ at = "terminated" /\ waited < Grace
Unlimited ==
    /\ child.alive
    /\ at = "killed" \/ (at = "read" /\ child.out = "part")
Waiting == Limited \/ Unlimited

CommandTick ==
    /\ Waiting
    /\ waited' = IF Limited THEN waited + 1 ELSE waited
    /\ hung' = (hung \/ Unlimited)
    /\ UNCHANGED <<called, at, child, failure, values, latchVars, outcome, reported>>

-----------------------------------------------------------------------------
(* Properties.                                                             *)

(* No command outlives the call that started it, however the call ends and *)
(* whatever signals the command ignores.                                   *)
NoChildSurvives == called = "none" => ~child.alive

(* The command is missing, fails or is late, and no call ever had samples  *)
(* of it.                                                                  *)
NeverThere == failure \in Absences /\ ~reported[called]

(* A call that an exception ends passes it on to the monitor, except that  *)
(* a command which never was there is given up, in silence and for good;   *)
(* one that has reported is not.  An answer without values is no           *)
(* exception: a tegrastats that exits before it has written its line, or a *)
(* nvidia-smi without a row, returns nothing, also after it has reported.  *)
RaisedOrGivenUp ==
    [][Leave =>
          /\ unsupported'[called] <=> NeverThere
          /\ failure # "none" => outcome' = IF NeverThere THEN "empty" ELSE "raised"]_commandVars
=============================================================================
