------------------------------ MODULE PmTimer ------------------------------
(***************************************************************************)
(* Sleep of the Zephyr applications on the QCC730: the PM timer service    *)
(* (pm_timer.c), whose hooks run in the idle thread before and after every *)
(* sleep, and the shell commands that allow sleep for a while              *)
(* (qpower_shell.c, qbmps_shell.c).  The idle thread runs when no thread   *)
(* is ready; timer callbacks are interrupts and come at any time.  Between *)
(* the two hooks interrupts are served and the threads they wake run.      *)
(***************************************************************************)
EXTENDS Integers, Sequences

CONSTANTS
  Managed,     \* k_timers that may be registered with the service
  Uart,        \* the one of the shell's UART, registered at boot
  Task,        \* names of the system's threads
  SlotOf,      \* SlotOf[k]: the slot str_hash gives the name k
  Defaults,    \* os_default_tasks[], in the order they enter the hash table
  MaxTicks,    \* bound: the longest a timer runs
  Times,       \* bound: times given to commands and timers
  CheckTicks,  \* pm_check_interval_ms
  MaxSleeps,   \* bound: the largest sleep count of s2ram
  MaxCommands, \* bound: shell commands
  MaxTouches   \* bound: changes of managed timers by their owners

Own == {"service", "s2ram", "bmps"}
Timer == Managed \cup Own
Ticks == 0 .. MaxTicks

ASSUME PmAssumption ==
  /\ Uart \in Managed /\ Managed \cap Own = {}
  /\ Defaults \in Seq(Task)
  /\ Task \subseteq DOMAIN SlotOf
  /\ MaxTicks \in Nat \ {0} /\ CheckTicks \in 1 .. MaxTicks
  /\ Times \subseteq Ticks /\ 0 \in Times
  /\ MaxSleeps \in Nat /\ MaxCommands \in Nat /\ MaxTouches \in Nat

VARIABLES
  auto,       \* CONFIG_QPM_AUTO_SLEEP
  phase,      \* "awake", or between the hooks: "idle" without sleep, "asleep" with
  timer,      \* timer[k]: queued or not, ticks left, period
  managed,    \* g_pm_timer_list
  saved,      \* saved[m]: remaining and period of the managed timers that was_running
  suspended,  \* threads suspended
  flag,       \* os_default_tasks_suspended
  locks,      \* count of locks that forbid PM_STATE_SUSPEND_TO_RAM
  busy,       \* pm_device_is_any_busy()
  slp_count,  \* what is left of the sleep count
  shell,      \* where the shell's command is
  args,       \* and the sleep time it was given
  commands,   \* commands given
  touches,    \* changes made by owners of managed timers
  before,     \* history: as the hook before sleep found the timers it manages
  touched,    \* history: managed timers changed by others between the hooks
  raced       \* history: the service took a lock away inside a command

vars == <<auto, phase, timer, managed, saved, suspended, flag, locks, busy, slp_count,
          shell, args, commands, touches, before, touched, raced>>
sleepVars == <<saved, suspended, flag, before>>
shellVars == <<shell, args, commands, slp_count>>
historyVars == <<touches, touched>>

Off == [on |-> FALSE, left |-> 0, period |-> 0]
Run(left, period) == [on |-> TRUE, left |-> left, period |-> period]
TimerState == [on : BOOLEAN, left : Ticks, period : Ticks]
Nothing == << >>
Lowest == -2   \* bound: a count below zero no longer changes what is done
Untouched == [m \in Managed |-> Off]

\* Whole values, and what ties them: a saved timer is managed and there is one
\* only between the hooks, threads are suspended only while the flag says so.
TypeOK ==
  /\ auto \in BOOLEAN /\ phase \in {"awake", "idle", "asleep"}
  /\ timer \in [Timer -> TimerState]
  /\ managed \subseteq Managed
  /\ DOMAIN saved \subseteq managed
  /\ \A m \in DOMAIN saved : saved[m] \in TimerState
  /\ suspended \subseteq Task /\ flag \in BOOLEAN
  /\ phase # "asleep" => DOMAIN saved = {} /\ suspended = {}
  /\ flag = (phase = "asleep")
  /\ locks \in Int /\ busy \in BOOLEAN
  /\ slp_count \in 0 .. MaxSleeps
  /\ shell \in {"idle", "timer", "check", "put"} /\ args \in Ticks
  /\ commands \in 0 .. MaxCommands /\ touches \in 0 .. MaxTouches
  /\ touched \subseteq Managed /\ raced \in BOOLEAN

-----------------------------------------------------------------------------
(* Boot: a lock keeps the system awake; the UART's timer is registered if  *)
(* the shell's UART is polled, others by whoever creates them.             *)

Init ==
  /\ auto \in BOOLEAN
  /\ managed \in SUBSET Managed
  /\ timer = [k \in Timer |->
       IF k = Uart /\ Uart \in managed THEN Run(MaxTicks, MaxTicks) ELSE Off]
  /\ phase = "awake"
  /\ saved = Nothing /\ suspended = {} /\ flag = FALSE
  /\ locks = 1 /\ busy = FALSE
  /\ slp_count = IF MaxSleeps = 0 THEN 0 ELSE 1
  /\ shell = "idle" /\ args = 0 /\ commands = 0
  /\ touches = 0 /\ before = Untouched /\ touched = {} /\ raced = FALSE

-----------------------------------------------------------------------------
(* The hash table of the default tasks: a later name takes the slot of an  *)
(* earlier one.                                                            *)

if_os_default_tasks(k) ==
  \E i \in DOMAIN Defaults :
    /\ Defaults[i] = k
    /\ \A j \in i + 1 .. Len(Defaults) : SlotOf[Defaults[j]] # SlotOf[k]

suspend_all_os_default_tasks ==
  /\ suspended' = suspended \cup {k \in Task : if_os_default_tasks(k)}
  /\ flag' = TRUE

\* Mutant: the flag is not cleared.
ResumeKeepsFlag ==
  /\ suspended' = suspended \ {k \in Task : if_os_default_tasks(k)}
  /\ flag' = flag

resume_all_os_default_tasks ==
  /\ suspended' = suspended \ {k \in Task : if_os_default_tasks(k)}
  /\ flag' = FALSE

-----------------------------------------------------------------------------
(* The hooks.                                                              *)

LockActive == locks # 0

Running == {m \in managed : timer[m].on}

\* Mutant: the service's own timer goes on.
SuspendTimersNotService ==
  /\ saved' = [m \in Running |-> timer[m]]
  /\ timer' = [k \in Timer |-> IF k \in Running THEN Off ELSE timer[k]]

\* The managed timers that run are noted and stopped, and the service's own.
SuspendTimers ==
  /\ saved' = [m \in Running |-> timer[m]]
  /\ timer' = [k \in Timer |->
       IF k \in Running \cup {"service"} THEN Off ELSE timer[k]]

\* Mutant: the service's timer is started whenever the system is idle.
StartServiceAgain ==
  timer' = IF auto THEN [timer EXCEPT !["service"] = Run(CheckTicks, 0)] ELSE timer

StartService ==
  timer' = IF auto /\ ~ timer["service"].on
             THEN [timer EXCEPT !["service"] = Run(CheckTicks, 0)] ELSE timer

\* The shell's command does not block between its check and its put.
on_idle_pre_sleep ==
  /\ phase = "awake" /\ shell = "idle"
  /\ \/ /\ ~ LockActive /\ ~ busy
        /\ suspend_all_os_default_tasks
        /\ SuspendTimers
        /\ phase' = "asleep"
        /\ before' = [m \in Managed |-> IF m \in managed THEN timer[m] ELSE Off]
     \/ /\ LockActive \/ busy
        /\ StartService
        /\ phase' = "idle"
        /\ UNCHANGED sleepVars
  /\ UNCHANGED <<auto, managed, locks, busy, shellVars, historyVars, raced>>

\* Mutant: was_running stays set.
ResumeTimersAgain ==
  /\ timer' = [k \in Timer |->
       IF k \in DOMAIN saved THEN Run(saved[k].left, saved[k].period) ELSE timer[k]]
  /\ saved' = saved

ResumeTimers ==
  /\ timer' = [k \in Timer |->
       IF k \in DOMAIN saved THEN Run(saved[k].left, saved[k].period) ELSE timer[k]]
  /\ saved' = Nothing

on_idle_post_sleep ==
  /\ phase # "awake" /\ shell = "idle"
  /\ ResumeTimers
  /\ IF flag THEN resume_all_os_default_tasks ELSE UNCHANGED <<suspended, flag>>
  /\ phase' = "awake"
  /\ before' = Untouched /\ touched' = {}
  /\ UNCHANGED <<auto, managed, locks, busy, shellVars, touches, raced>>

-----------------------------------------------------------------------------
(* Time and the timers' callbacks.                                         *)

Expired(k) == timer[k].on /\ timer[k].left = 0

Tick ==
  /\ \E k \in Timer : timer[k].on
  /\ \A k \in Timer : ~ Expired(k)
  /\ timer' = [k \in Timer |->
       IF timer[k].on THEN [timer[k] EXCEPT !.left = @ - 1] ELSE timer[k]]
  /\ UNCHANGED <<auto, phase, managed, sleepVars, locks, busy, shellVars, historyVars, raced>>

\* The kernel queues a periodic timer again before its callback runs.
Requeued(k) ==
  IF timer[k].period = 0 THEN Off
                         ELSE [timer[k] EXCEPT !.left = timer[k].period]

ManagedExpires(m) ==
  /\ Expired(m)
  /\ timer' = [timer EXCEPT ![m] = Requeued(m)]
  /\ UNCHANGED <<auto, phase, managed, sleepVars, locks, busy, shellVars, historyVars, raced>>

\* The lock is checked and put in one interrupt, which may come between the
\* check and the put of a command.
pm_service_timer_cb ==
  /\ Expired("service")
  /\ IF busy
       THEN /\ timer' = [timer EXCEPT !["service"] = Run(CheckTicks, 0)]
            /\ UNCHANGED <<locks, raced>>
       ELSE /\ timer' = [timer EXCEPT !["service"] = Requeued("service")]
            /\ locks' = IF LockActive /\ locks > Lowest THEN locks - 1 ELSE locks
            /\ raced' = (raced \/ (LockActive /\ shell = "put"))
  /\ UNCHANGED <<auto, phase, managed, sleepVars, busy, shellVars, historyVars>>

s2ram_timer_cb ==
  /\ Expired("s2ram")
  /\ LET left == IF slp_count > 0 THEN slp_count - 1 ELSE 0
     IN  /\ slp_count' = left
         /\ IF left = 0
              THEN /\ timer' = [timer EXCEPT !["s2ram"] = Off]
                   /\ locks' = locks + 1
              ELSE /\ timer' = [timer EXCEPT !["s2ram"] = Requeued("s2ram")]
                   /\ UNCHANGED locks
  /\ UNCHANGED <<auto, phase, managed, sleepVars, busy, shell, args, commands,
                 historyVars, raced>>

\* The end of BMPS takes the lock whether the command gave one back or not.
bmps_timer_cb ==
  /\ Expired("bmps")
  /\ timer' = [timer EXCEPT !["bmps"] = Off]
  /\ locks' = locks + 1
  /\ UNCHANGED <<auto, phase, managed, sleepVars, busy, shellVars, historyVars, raced>>

-----------------------------------------------------------------------------
(* Other threads: owners of managed timers, and the service's list.        *)

Touch(m) ==
  /\ touches < MaxTouches
  /\ touches' = touches + 1
  /\ touched' = IF phase # "asleep" THEN touched ELSE touched \cup {m}
  /\ UNCHANGED <<auto, phase, suspended, flag, locks, busy, shellVars, before, raced>>

OwnerStarts(m) ==
  /\ \E left \in Times \ {0}, period \in {0, MaxTicks} :
       timer' = [timer EXCEPT ![m] = Run(left, period)]
  /\ Touch(m)
  /\ UNCHANGED <<managed, saved>>

OwnerStops(m) ==
  /\ timer[m].on
  /\ timer' = [timer EXCEPT ![m] = Off]
  /\ Touch(m)
  /\ UNCHANGED <<managed, saved>>

\* All callers register as suspendable and with auto_restart.
pm_timer_register(m) ==
  /\ m \notin managed
  /\ managed' = managed \cup {m}
  /\ Touch(m)
  /\ UNCHANGED <<timer, saved>>

\* What was saved is lost with the entry.
pm_timer_unregister(m) ==
  /\ m \in managed
  /\ managed' = managed \ {m}
  /\ saved' = [k \in DOMAIN saved \ {m} |-> saved[k]]
  /\ Touch(m)
  /\ UNCHANGED timer

-----------------------------------------------------------------------------
(* Shell commands.                                                         *)

Command ==
  /\ shell = "idle" /\ commands < MaxCommands
  /\ commands' = commands + 1

Idle == UNCHANGED <<auto, phase, managed, sleepVars, historyVars>>

\* The count is assigned first, and also by a command whose arguments fail.
cmd_set_s2ram ==
  /\ Command
  /\ slp_count' \in 0 .. MaxSleeps
  /\ args' \in Times
  /\ shell' \in {"idle", "timer"}
  /\ shell' = "idle" => args' = 0
  /\ Idle /\ UNCHANGED <<timer, locks, busy, raced>>

S2ramStartsTimer ==
  /\ shell = "timer"
  /\ timer' = IF args = 0 THEN timer ELSE [timer EXCEPT !["s2ram"] = Run(args, args)]
  /\ shell' = "check" /\ args' = 0
  /\ Idle /\ UNCHANGED <<locks, busy, slp_count, commands, raced>>

\* The timer runs also when BMPS is disabled or the request fails.
cmd_bmps_enable ==
  /\ Command
  /\ \E time \in Times :
       timer' = IF time = 0 THEN timer ELSE [timer EXCEPT !["bmps"] = Run(time, 0)]
  /\ shell' \in {"idle", "check"}
  /\ Idle /\ UNCHANGED <<locks, busy, slp_count, args, raced>>

\* Mutant: every command puts, whether the lock is active or not.
CheckLockNot ==
  /\ shell = "check"
  /\ shell' = "put"
  /\ Idle /\ UNCHANGED <<timer, locks, busy, slp_count, args, commands, raced>>

CheckLock ==
  /\ shell = "check"
  /\ shell' = IF LockActive THEN "put" ELSE "idle"
  /\ Idle /\ UNCHANGED <<timer, locks, busy, slp_count, args, commands, raced>>

PutLock ==
  /\ shell = "put"
  /\ locks' = locks - 1
  /\ shell' = "idle"
  /\ Idle /\ UNCHANGED <<timer, busy, slp_count, args, commands, raced>>

\* set_busy, clear_busy
SetBusy ==
  /\ Command
  /\ busy' = ~ busy
  /\ Idle /\ UNCHANGED <<timer, locks, slp_count, shell, args, raced>>

\* kill_all_kt
pm_timer_stop_all_k_timers ==
  /\ Command
  /\ timer' = [k \in Timer |-> Off]
  /\ Idle /\ UNCHANGED <<locks, busy, slp_count, shell, args, raced>>

-----------------------------------------------------------------------------

Callback ==
  \/ pm_service_timer_cb \/ s2ram_timer_cb \/ bmps_timer_cb
  \/ \E m \in Managed : ManagedExpires(m)

ShellStep == S2ramStartsTimer \/ CheckLock \/ PutLock

Next ==
  \/ on_idle_pre_sleep \/ on_idle_post_sleep
  \/ Tick \/ Callback
  \/ \E m \in Managed :
       \/ OwnerStarts(m) \/ OwnerStops(m)
       \/ m # Uart /\ (pm_timer_register(m) \/ pm_timer_unregister(m))
  \/ cmd_set_s2ram \/ cmd_bmps_enable \/ SetBusy \/ pm_timer_stop_all_k_timers
  \/ ShellStep

Spec == Init /\ [][Next]_vars

\* Time passes, interrupts are served, a command goes on, and the idle thread
\* runs when the others have nothing to do.
Fairness ==
  /\ WF_vars(Tick) /\ WF_vars(Callback) /\ WF_vars(ShellStep)
  /\ SF_vars(on_idle_pre_sleep) /\ SF_vars(on_idle_post_sleep)

FairSpec == Spec /\ Fairness

-----------------------------------------------------------------------------
(* Properties.                                                             *)

\* The name of an earlier default task whose slot a later one has taken.
Overwritten(i) ==
  \E j \in i + 1 .. Len(Defaults) : SlotOf[Defaults[j]] = SlotOf[Defaults[i]]

\* While the system sleeps nothing the service manages can wake it: of the timers
\* that nobody touched since, none is queued, nor is the service's own; every
\* default task of the list is suspended, but one whose name was overwritten in the
\* hash table; and no thread that is not in the list is, whatever its slot.
SleepIsQuiet == phase = "asleep" =>
  /\ \A m \in managed \ touched : ~ timer[m].on
  /\ ~ timer["service"].on
  /\ \A i \in DOMAIN Defaults : Defaults[i] \in suspended \/ Overwritten(i)
  /\ \A k \in suspended : \E i \in DOMAIN Defaults : Defaults[i] = k

\* The hook before sleep found the timer queued and stopped it.
StoppedByHook(k) == k \in Managed /\ before[k].on

\* After sleep a managed timer nobody touched is as the hook before sleep found it,
\* running or not, with what was left of it and its period.  A timer the hook did
\* not stop is as it was: what its owner did in between stands, nothing saved for an
\* earlier sleep starts it, and idling without sleep changes no timer.  No thread
\* stays suspended.  The UART's timer is not judged when the hook stopped it: its
\* registration asks for a restart where the comment beside it forbids one.
WokenAsBefore ==
  [][phase # "awake" /\ phase' = "awake" =>
       /\ phase = "asleep" =>
            \A m \in managed \ (touched \cup {Uart}) : timer'[m] = before[m]
       /\ \A k \in Timer : ~ StoppedByHook(k) => timer'[k] = timer[k]
       /\ suspended' = {}]_vars

\* A lock is put only by who found it taken: the count goes below zero, which
\* counts as locked for ever, only if the service's interrupt put it between the
\* check and the put of a command.
LockCountSound == locks < 0 => raced

\* "QCOM AUTO SLEEP": when no device stays busy the service sees to it that sleep
\* is allowed again, however many locks the timers' callbacks took.
AutoSleepHappens == (auto /\ <>[](~ busy)) => []<>(locks = 0 \/ raced)
=============================================================================
