---------------------------- MODULE PmTimerProofs ----------------------------
(***************************************************************************)
(* For any set of managed timers, any threads and hash table, any times    *)
(* and any number of commands: the PM timer service's types, that sleep is *)
(* quiet and ends as it began but for what owners did, and that the sleep  *)
(* lock's count is sound.                                                  *)
(***************************************************************************)
EXTENDS PmTimer, TLAPS

DefaultTasks == {k \in Task : if_os_default_tasks(k)}

\* Threads are suspended by the hook only.
TypeInv == TypeOK /\ suspended \subseteq DefaultTasks

USE PmAssumption DEF Timer, Ticks, Own

\* The values of a timer the kernel may hold.
LEMMA TimerValues ==
  /\ Off \in TimerState
  /\ \A left, period \in Ticks : Run(left, period) \in TimerState
  /\ \A s \in TimerState : s.on => Run(s.left, s.period) = s
BY DEF Off, Run, TimerState

LEMMA InitType == Init => TypeInv
<1> SUFFICES ASSUME Init PROVE TypeInv
  OBVIOUS
<1>1. timer \in [Timer -> TimerState]
  BY TimerValues DEF Init
<1>2. DOMAIN saved = {}
  BY DEF Init, Nothing
<1>3. /\ slp_count \in 0 .. MaxSleeps /\ 0 \in 0 .. MaxCommands
      /\ 0 \in 0 .. MaxTouches /\ 0 \in Ticks
  BY DEF Init
<1>4. flag = (phase = "asleep")
  BY DEF Init
<1>5. /\ auto \in BOOLEAN /\ flag \in BOOLEAN /\ busy \in BOOLEAN
      /\ raced \in BOOLEAN
  BY DEF Init
<1>6. /\ phase \in {"awake", "idle", "asleep"} /\ managed \subseteq Managed
      /\ DOMAIN saved \subseteq managed
      /\ \A m \in DOMAIN saved : saved[m] \in TimerState
      /\ suspended = {} /\ phase # "asleep"
      /\ locks \in Int /\ shell \in {"idle", "timer", "check", "put"}
      /\ touched \subseteq Managed
      /\ args = 0 /\ commands = 0 /\ touches = 0
  BY <1>2 DEF Init
<1> QED  BY <1>1, <1>2, <1>3, <1>4, <1>5, <1>6 DEF TypeInv, TypeOK

\* What every step that is neither a hook nor registers anything keeps.
LEMMA TypeOf ==
  ASSUME TypeInv, timer' \in [Timer -> TimerState],
         UNCHANGED <<auto, phase, managed, saved, suspended, flag>>,
         locks' \in Int, busy' \in BOOLEAN, slp_count' \in 0 .. MaxSleeps,
         shell' \in {"idle", "timer", "check", "put"}, args' \in Ticks,
         commands' \in 0 .. MaxCommands, touches' \in 0 .. MaxTouches,
         touched' \subseteq Managed, raced' \in BOOLEAN
  PROVE  TypeInv'
BY DEF TypeInv, TypeOK

-----------------------------------------------------------------------------
(* The hooks *)

LEMMA PreSleepType == TypeInv /\ on_idle_pre_sleep => TypeInv'
<1> SUFFICES ASSUME TypeInv, on_idle_pre_sleep PROVE TypeInv'
  OBVIOUS
<1>1. CASE /\ suspend_all_os_default_tasks /\ SuspendTimers
           /\ phase' = "asleep"
  <2>1. timer' \in [Timer -> TimerState]
    BY <1>1, TimerValues DEF SuspendTimers, TypeInv, TypeOK
  <2>2. /\ DOMAIN saved' \subseteq managed'
        /\ \A m \in DOMAIN saved' : saved'[m] \in TimerState
    BY <1>1 DEF SuspendTimers, Running, TypeInv, TypeOK, on_idle_pre_sleep
  <2>3. /\ suspended' \subseteq Task /\ suspended' \subseteq DefaultTasks
        /\ flag' = TRUE
    BY <1>1 DEF suspend_all_os_default_tasks, TypeInv, TypeOK, DefaultTasks
  <2> QED  BY <1>1, <2>1, <2>2, <2>3
           DEF TypeInv, TypeOK, on_idle_pre_sleep, shellVars, historyVars
<1>2. CASE StartService /\ phase' = "idle" /\ UNCHANGED sleepVars
  <2>1. timer' \in [Timer -> TimerState]
    BY <1>2, TimerValues DEF StartService, TypeInv, TypeOK
  <2> QED  BY <1>2, <2>1
           DEF TypeInv, TypeOK, on_idle_pre_sleep, shellVars, historyVars, sleepVars
<1> QED  BY <1>1, <1>2 DEF on_idle_pre_sleep

\* After sleep no thread is suspended and nothing is saved.
LEMMA PostSleep ==
  ASSUME TypeInv, on_idle_post_sleep
  PROVE  /\ TypeInv' /\ suspended' = {}
         /\ phase # "asleep" => timer' = timer
<1>1. timer' \in [Timer -> TimerState]
  BY TimerValues DEF on_idle_post_sleep, ResumeTimers, TypeInv, TypeOK, TimerState
<1>2. DOMAIN saved' = {}
  BY DEF on_idle_post_sleep, ResumeTimers, Nothing
<1>3. suspended' = {} /\ flag' = FALSE
  BY DEF on_idle_post_sleep, resume_all_os_default_tasks, TypeInv, TypeOK,
         DefaultTasks
<1>4. ASSUME phase # "asleep" PROVE timer' = timer
  <2>1. DOMAIN saved = {}
    BY <1>4 DEF TypeInv, TypeOK
  <2> QED  BY <2>1 DEF on_idle_post_sleep, ResumeTimers, TypeInv, TypeOK
<1>5. TypeInv'
  BY <1>1, <1>2, <1>3
  DEF TypeInv, TypeOK, on_idle_post_sleep, shellVars
<1> QED  BY <1>3, <1>4, <1>5

-----------------------------------------------------------------------------
(* Time, callbacks, owners and commands *)

\* Another time left in the range makes another state of the timer.
LEMMA LeftValue ==
  ASSUME NEW s \in TimerState, NEW left \in Ticks
  PROVE  [s EXCEPT !.left = left] \in TimerState
BY DEF TimerState

LEMMA TickType == TypeInv /\ Tick => TypeInv'
<1> SUFFICES ASSUME TypeInv, Tick PROVE TypeInv'
  OBVIOUS
<1>1. \A k \in Timer : timer[k].on =>
        [timer[k] EXCEPT !.left = @ - 1] \in TimerState
  <2> SUFFICES ASSUME NEW k \in Timer, timer[k].on
               PROVE  [timer[k] EXCEPT !.left = @ - 1] \in TimerState
    OBVIOUS
  <2>1. timer[k] \in TimerState
    BY DEF TypeInv, TypeOK
  <2>2. timer[k].left # 0
    BY DEF Tick, Expired
  <2>3. timer[k].left \in Ticks
    BY <2>1 DEF TimerState
  <2>4. timer[k].left - 1 \in Ticks
    BY <2>2, <2>3
  <2> QED  BY <2>1, <2>4, LeftValue
<1>2. timer' \in [Timer -> TimerState]
  BY <1>1 DEF Tick, TypeInv, TypeOK
<1> QED  BY <1>2, TypeOf
         DEF Tick, TypeInv, TypeOK, sleepVars, shellVars, historyVars

\* A timer queued again has its period left.
LEMMA RequeuedValue ==
  ASSUME TypeInv, NEW k \in Timer
  PROVE  Requeued(k) \in TimerState
<1>1. timer[k] \in TimerState
  BY DEF TypeInv, TypeOK
<1>2. timer[k].period \in Ticks
  BY <1>1 DEF TimerState
<1> QED  BY <1>1, <1>2, TimerValues, LeftValue DEF Requeued

LEMMA CallbackType == TypeInv /\ Callback => TypeInv'
<1> SUFFICES ASSUME TypeInv, Callback PROVE TypeInv'
  OBVIOUS
<1>1. CASE pm_service_timer_cb
  <2>1. timer' \in [Timer -> TimerState]
    BY <1>1, TimerValues, RequeuedValue DEF pm_service_timer_cb, TypeInv, TypeOK
  <2>2. locks' \in Int
    BY <1>1 DEF pm_service_timer_cb, TypeInv, TypeOK
  <2>3. raced' \in BOOLEAN
    BY <1>1 DEF pm_service_timer_cb, TypeInv, TypeOK
  <2> QED  BY <1>1, <2>1, <2>2, <2>3, TypeOf
           DEF pm_service_timer_cb, TypeInv, TypeOK, sleepVars, shellVars, historyVars
<1>2. CASE s2ram_timer_cb
  <2>1. timer' \in [Timer -> TimerState]
    BY <1>2, TimerValues, RequeuedValue DEF s2ram_timer_cb, TypeInv, TypeOK
  <2>2. locks' \in Int /\ slp_count' \in 0 .. MaxSleeps
    BY <1>2 DEF s2ram_timer_cb, TypeInv, TypeOK
  <2> QED  BY <1>2, <2>1, <2>2, TypeOf
           DEF s2ram_timer_cb, TypeInv, TypeOK, sleepVars, historyVars
<1>3. CASE bmps_timer_cb
  <2>1. timer' \in [Timer -> TimerState] /\ locks' \in Int
    BY <1>3, TimerValues DEF bmps_timer_cb, TypeInv, TypeOK
  <2> QED  BY <1>3, <2>1, TypeOf
           DEF bmps_timer_cb, TypeInv, TypeOK, sleepVars, shellVars, historyVars
<1>4. CASE \E m \in Managed : ManagedExpires(m)
  <2>1. timer' \in [Timer -> TimerState]
    BY <1>4, RequeuedValue DEF ManagedExpires, TypeInv, TypeOK
  <2> QED  BY <1>4, <2>1, TypeOf
           DEF ManagedExpires, TypeInv, TypeOK, sleepVars, shellVars, historyVars
<1> QED  BY <1>1, <1>2, <1>3, <1>4 DEF Callback

OwnerStep(m) ==
  \/ OwnerStarts(m) \/ OwnerStops(m)
  \/ pm_timer_register(m) \/ pm_timer_unregister(m)

LEMMA OwnerType ==
  ASSUME TypeInv, NEW m \in Managed, OwnerStep(m)
  PROVE  TypeInv'
<1>1. Touch(m)
  BY DEF OwnerStep, OwnerStarts, OwnerStops, pm_timer_register, pm_timer_unregister
<1>2. touches' \in 0 .. MaxTouches /\ touched' \subseteq Managed
  BY <1>1 DEF Touch, TypeInv, TypeOK
<1>3. timer' \in [Timer -> TimerState]
  <2>1. CASE OwnerStarts(m)
    <3>1. PICK left \in Times \ {0}, period \in {0, MaxTicks} :
            timer' = [timer EXCEPT ![m] = Run(left, period)]
      BY <2>1 DEF OwnerStarts
    <3>2. Run(left, period) \in TimerState
      BY TimerValues
    <3> QED  BY <3>1, <3>2 DEF TypeInv, TypeOK
  <2>2. CASE OwnerStops(m)
    BY <2>2, TimerValues DEF OwnerStops, TypeInv, TypeOK
  <2>3. CASE pm_timer_register(m) \/ pm_timer_unregister(m)
    BY <2>3 DEF pm_timer_register, pm_timer_unregister, TypeInv, TypeOK
  <2> QED  BY <2>1, <2>2, <2>3 DEF OwnerStep
<1>4. /\ managed' \subseteq Managed /\ DOMAIN saved' \subseteq managed'
      /\ \A k \in DOMAIN saved' : k \in DOMAIN saved /\ saved'[k] = saved[k]
  BY DEF OwnerStep, OwnerStarts, OwnerStops, pm_timer_register,
         pm_timer_unregister, TypeInv, TypeOK
<1> QED  BY <1>1, <1>2, <1>3, <1>4 DEF Touch, shellVars, TypeInv, TypeOK

ShellCommand ==
  \/ cmd_set_s2ram \/ cmd_bmps_enable \/ SetBusy \/ pm_timer_stop_all_k_timers

LEMMA ShellType == TypeInv /\ (ShellCommand \/ ShellStep) => TypeInv'
<1> SUFFICES ASSUME TypeInv, ShellCommand \/ ShellStep PROVE TypeInv'
  OBVIOUS
<1> USE DEF Idle, sleepVars, historyVars
<1>1. CASE cmd_set_s2ram
  BY <1>1, TypeOf DEF cmd_set_s2ram, Command, TypeInv, TypeOK
<1>2. CASE cmd_bmps_enable
  <2>1. timer' \in [Timer -> TimerState]
    BY <1>2, TimerValues DEF cmd_bmps_enable, TypeInv, TypeOK
  <2> QED  BY <1>2, <2>1, TypeOf DEF cmd_bmps_enable, Command, TypeInv, TypeOK
<1>3. CASE SetBusy
  BY <1>3, TypeOf DEF SetBusy, Command, TypeInv, TypeOK
<1>4. CASE pm_timer_stop_all_k_timers
  <2>1. timer' \in [Timer -> TimerState]
    BY <1>4, TimerValues DEF pm_timer_stop_all_k_timers
  <2> QED  BY <1>4, <2>1, TypeOf
           DEF pm_timer_stop_all_k_timers, Command, TypeInv, TypeOK
<1>5. CASE S2ramStartsTimer
  <2>1. timer' \in [Timer -> TimerState]
    BY <1>5, TimerValues DEF S2ramStartsTimer, TypeInv, TypeOK
  <2> QED  BY <1>5, <2>1, TypeOf DEF S2ramStartsTimer, TypeInv, TypeOK
<1>6. CASE CheckLock
  <2>1. /\ shell' \in {"put", "idle"}
        /\ UNCHANGED <<auto, phase, timer, managed, saved, suspended, flag, locks, busy,
                       slp_count, args, commands, touches, before, touched, raced>>
    BY <1>6 DEF CheckLock
  <2> QED  BY <2>1, TypeOf DEF TypeInv, TypeOK
<1>7. CASE PutLock
  <2>1. /\ shell' = "idle" /\ locks' = locks - 1
        /\ UNCHANGED <<auto, phase, timer, managed, saved, suspended, flag, busy,
                       slp_count, args, commands, touches, before, touched, raced>>
    BY <1>7 DEF PutLock
  <2> QED  BY <2>1, TypeOf DEF TypeInv, TypeOK
<1> QED  BY <1>1, <1>2, <1>3, <1>4, <1>5, <1>6, <1>7 DEF ShellCommand, ShellStep

\* What Next consists of.
LEMMA Steps ==
  ASSUME [Next]_vars
  PROVE  \/ on_idle_pre_sleep \/ on_idle_post_sleep \/ Tick \/ Callback
         \/ \E m \in Managed : OwnerStep(m)
         \/ ShellCommand \/ ShellStep \/ UNCHANGED vars
BY DEF Next, OwnerStep, ShellCommand

\* The types of pm_timer.c's state and of the two commands' timers.
THEOREM TypeCorrect == Spec => []TypeOK
<1>1. TypeInv /\ [Next]_vars => TypeInv'
  <2>1. TypeInv /\ UNCHANGED vars => TypeInv'
    BY DEF TypeInv, TypeOK, vars
  <2> QED  BY <2>1, Steps, PreSleepType, PostSleep, TickType, CallbackType,
              OwnerType, ShellType
<1>2. TypeInv => TypeOK
  BY DEF TypeInv
<1> QED  BY <1>1, <1>2, InitType, PTL DEF Spec

-----------------------------------------------------------------------------
(* Sleep *)

\* What the hook before sleep leaves and nobody but a timer's owner changes:
\* a managed timer is stopped, and it is saved as it was found, or was off; and
\* whatever owners do, nothing is saved but for timers the hook stopped.
Asleep ==
  /\ suspended = DefaultTasks
  /\ timer["service"] = Off
  /\ \A m \in managed \ touched :
       /\ timer[m] = Off
       /\ before[m] = IF m \in DOMAIN saved THEN saved[m] ELSE Off
       /\ m \in DOMAIN saved => saved[m].on
  /\ \A m \in DOMAIN saved : before[m].on

SleepInv ==
  /\ TypeInv
  /\ \A k \in Timer : timer[k].on \/ timer[k] = Off
  /\ phase = "asleep" => Asleep
  /\ phase # "asleep" => before = Untouched

LEMMA InitSleep == Init => SleepInv
<1> SUFFICES ASSUME Init PROVE SleepInv
  OBVIOUS
<1>1. \A k \in Timer : timer[k].on \/ timer[k] = Off
  BY DEF Init, Run
<1> QED  BY <1>1, InitType DEF SleepInv, Init

\* Steps that start only the two commands' timers and the service's, and that
\* when awake, or that change timers in a queue.
LEMMA SleepOf ==
  ASSUME SleepInv, TypeInv',
         UNCHANGED <<phase, managed, saved, suspended, before, touched>>,
         \A k \in Timer : timer'[k].on \/ timer'[k] = Off,
         phase = "asleep" =>
           \A k \in Managed \cup {"service"} : timer[k] = Off => timer'[k] = Off
  PROVE  SleepInv'
<1>1. CASE phase # "asleep"
  BY <1>1 DEF SleepInv
<1>2. CASE phase = "asleep"
  <2>1. managed \subseteq Managed
    BY DEF TypeInv, TypeOK, SleepInv
  <2>2. Asleep'
    BY <1>2, <2>1 DEF Asleep, SleepInv
  <2> QED  BY <2>2 DEF SleepInv
<1> QED  BY <1>1, <1>2

\* A timer of the kernel that is not queued is off after it expired, too.
LEMMA RequeuedIsOn ==
  ASSUME TypeInv, NEW k \in Timer, timer[k].on
  PROVE  Requeued(k).on \/ Requeued(k) = Off
<1>1. timer[k] \in TimerState
  BY DEF TypeInv, TypeOK
<1>2. [timer[k] EXCEPT !.left = timer[k].period].on
  BY <1>1 DEF TimerState
<1> QED  BY <1>2 DEF Requeued

LEMMA RunIsOn ==
  /\ \A left, period \in Ticks : Run(left, period).on
  /\ ~ Off.on
BY DEF Run, Off

LEMMA PreSleepSleeps == SleepInv /\ on_idle_pre_sleep => SleepInv'
<1> SUFFICES ASSUME SleepInv, on_idle_pre_sleep PROVE SleepInv'
  OBVIOUS
<1>1. TypeInv'
  BY PreSleepType DEF SleepInv
<1>2. CASE /\ suspend_all_os_default_tasks /\ SuspendTimers
           /\ phase' = "asleep"
           /\ before' = [m \in Managed |-> IF m \in managed THEN timer[m] ELSE Off]
  <2>1. timer'["service"] = Off
    BY <1>2 DEF SuspendTimers
  <2>2. suspended' = DefaultTasks
    BY <1>2 DEF suspend_all_os_default_tasks, SleepInv, TypeInv, DefaultTasks
  <2>3. ASSUME NEW m \in managed
        PROVE  /\ timer'[m] = Off
               /\ before'[m] = IF m \in DOMAIN saved' THEN saved'[m] ELSE Off
               /\ m \in DOMAIN saved' => saved'[m].on
    <3>1. m \in Managed /\ (timer[m].on \/ timer[m] = Off)
      BY DEF SleepInv, TypeInv, TypeOK
    <3> QED  BY <1>2, <3>1 DEF SuspendTimers, Running
  <2>4. UNCHANGED managed
    BY DEF on_idle_pre_sleep
  <2>5. \A k \in Timer : timer'[k].on \/ timer'[k] = Off
    BY <1>2 DEF SuspendTimers, SleepInv
  <2>6. \A m \in DOMAIN saved' : before'[m].on
    <3>1. \A m \in managed : m \in Managed
      BY DEF SleepInv, TypeInv, TypeOK
    <3> QED  BY <1>2, <3>1 DEF SuspendTimers, Running
  <2>7. Asleep'
    BY <2>1, <2>2, <2>3, <2>4, <2>6 DEF Asleep
  <2> QED  BY <1>1, <1>2, <2>5, <2>7 DEF SleepInv
<1>3. CASE StartService /\ phase' = "idle" /\ UNCHANGED sleepVars
  <2>1. \A k \in Timer : timer'[k].on \/ timer'[k] = Off
    BY <1>3, RunIsOn DEF StartService, SleepInv, TypeInv, TypeOK
  <2>2. before' = Untouched /\ phase' # "asleep"
    BY <1>3 DEF SleepInv, sleepVars, on_idle_pre_sleep
  <2> QED  BY <1>1, <2>1, <2>2 DEF SleepInv
<1> QED  BY <1>2, <1>3 DEF on_idle_pre_sleep

LEMMA PostSleepSleeps == SleepInv /\ on_idle_post_sleep => SleepInv'
<1> SUFFICES ASSUME SleepInv, on_idle_post_sleep PROVE SleepInv'
  OBVIOUS
<1>1. TypeInv' /\ phase' = "awake" /\ before' = Untouched
  BY PostSleep DEF SleepInv, on_idle_post_sleep
<1>2. \A k \in Timer : timer'[k].on \/ timer'[k] = Off
  BY RunIsOn DEF on_idle_post_sleep, ResumeTimers, SleepInv, TypeInv, TypeOK,
                 TimerState
<1> QED  BY <1>1, <1>2 DEF SleepInv

LEMMA TickSleeps == SleepInv /\ Tick => SleepInv'
<1> SUFFICES ASSUME SleepInv, Tick PROVE SleepInv'
  OBVIOUS
<1>1. \A k \in Timer : /\ timer[k].on => timer'[k].on
                       /\ ~ timer[k].on => timer'[k] = timer[k]
  <2>1. \A k \in Timer : timer[k] \in TimerState
    BY DEF SleepInv, TypeInv, TypeOK
  <2> QED  BY <2>1 DEF Tick, TimerState
<1> QED  BY <1>1, TickType, SleepOf, RunIsOn
         DEF SleepInv, Tick, sleepVars, historyVars

LEMMA CallbackSleeps == SleepInv /\ Callback => SleepInv'
<1> SUFFICES ASSUME SleepInv, Callback PROVE SleepInv'
  OBVIOUS
<1>1. PICK k \in Timer, s \in TimerState :
        /\ timer[k].on /\ (s.on \/ s = Off)
        /\ timer' = [timer EXCEPT ![k] = s]
  <2>1. \A k \in Timer :
          timer[k].on => /\ Requeued(k) \in TimerState
                         /\ Requeued(k).on \/ Requeued(k) = Off
    BY RequeuedIsOn, RequeuedValue DEF SleepInv
  <2>2. /\ Off \in TimerState /\ Run(CheckTicks, 0) \in TimerState
        /\ Run(CheckTicks, 0).on
    BY TimerValues, RunIsOn
  <2>3. CASE pm_service_timer_cb
    BY <2>1, <2>2, <2>3 DEF pm_service_timer_cb, Expired
  <2>4. CASE s2ram_timer_cb
    BY <2>1, <2>2, <2>4 DEF s2ram_timer_cb, Expired
  <2>5. CASE bmps_timer_cb
    BY <2>2, <2>5 DEF bmps_timer_cb, Expired
  <2>6. CASE \E m \in Managed : ManagedExpires(m)
    BY <2>1, <2>6 DEF ManagedExpires, Expired
  <2> QED  BY <2>3, <2>4, <2>5, <2>6 DEF Callback
<1>2. UNCHANGED <<phase, managed, saved, suspended, before, touched>>
  BY DEF Callback, pm_service_timer_cb, s2ram_timer_cb, bmps_timer_cb,
         ManagedExpires, sleepVars, historyVars
<1>3. \A j \in Timer : /\ timer'[j].on \/ timer'[j] = Off
                       /\ timer[j] = Off => timer'[j] = Off
  BY <1>1, RunIsOn DEF SleepInv, TypeInv, TypeOK
<1> QED  BY <1>2, <1>3, CallbackType, SleepOf DEF SleepInv

LEMMA OwnerSleeps ==
  ASSUME SleepInv, NEW m \in Managed, OwnerStep(m)
  PROVE  SleepInv'
<1>1. TypeInv'
  BY OwnerType DEF SleepInv
<1>2. Touch(m)
  BY DEF OwnerStep, OwnerStarts, OwnerStops, pm_timer_register, pm_timer_unregister
<1>3. \A k \in Timer : timer'[k].on \/ timer'[k] = Off
  <2>1. PICK s \in TimerState : (s.on \/ s = Off) /\ timer' = [timer EXCEPT ![m] = s]
    <3>1. CASE OwnerStarts(m)
      <4>1. PICK left \in Times \ {0}, period \in {0, MaxTicks} :
              timer' = [timer EXCEPT ![m] = Run(left, period)]
        BY <3>1 DEF OwnerStarts
      <4>2. Run(left, period) \in TimerState /\ Run(left, period).on
        BY TimerValues DEF Run
      <4> QED  BY <4>1, <4>2
    <3>2. CASE OwnerStops(m)
      BY <3>2, TimerValues DEF OwnerStops
    <3>3. CASE pm_timer_register(m) \/ pm_timer_unregister(m)
      <4>1. timer' = [timer EXCEPT ![m] = timer[m]] /\ timer[m] \in TimerState
        BY <3>3 DEF pm_timer_register, pm_timer_unregister, SleepInv, TypeInv, TypeOK
      <4>2. timer[m].on \/ timer[m] = Off
        BY DEF SleepInv
      <4> QED  BY <4>1, <4>2
    <3> QED  BY <3>1, <3>2, <3>3 DEF OwnerStep
  <2> QED  BY <2>1 DEF SleepInv, TypeInv, TypeOK
<1>4. /\ \A k \in Timer \ {m} : timer'[k] = timer[k]
      /\ managed' \ {m} = managed \ {m}
      /\ \A k \in Managed \ {m} :
           /\ k \in DOMAIN saved' <=> k \in DOMAIN saved
           /\ k \in DOMAIN saved => saved'[k] = saved[k]
  BY DEF OwnerStep, OwnerStarts, OwnerStops, pm_timer_register,
         pm_timer_unregister, SleepInv, TypeInv, TypeOK
<1>5. ASSUME phase = "asleep" PROVE Asleep'
  <2>1. Asleep /\ UNCHANGED <<suspended, before>> /\ touched' = touched \cup {m}
    BY <1>2, <1>5 DEF SleepInv, Touch
  <2>2. timer'["service"] = Off
    BY <1>4, <2>1 DEF Asleep
  <2>3. \A k \in managed' \ touched' : k \in (managed \ touched) \ {m} /\ k \in Managed
    BY <1>1, <1>4, <2>1 DEF TypeInv, TypeOK
  <2>4. ASSUME NEW k \in managed' \ touched'
        PROVE  /\ timer'[k] = Off
               /\ before'[k] = IF k \in DOMAIN saved' THEN saved'[k] ELSE Off
               /\ k \in DOMAIN saved' => saved'[k].on
    <3>1. /\ timer[k] = Off
          /\ before[k] = IF k \in DOMAIN saved THEN saved[k] ELSE Off
          /\ k \in DOMAIN saved => saved[k].on
      BY <2>1, <2>3, <2>4 DEF Asleep
    <3>2. k \in Managed \ {m} /\ k \in Timer \ {m}
      BY <2>3, <2>4 DEF Timer
    <3>3. timer'[k] = timer[k]
      BY <1>4, <3>2
    <3>4. /\ k \in DOMAIN saved' <=> k \in DOMAIN saved
          /\ k \in DOMAIN saved => saved'[k] = saved[k]
      BY <1>4, <3>2
    <3>5. before' = before
      BY <2>1
    <3> QED  BY <3>1, <3>3, <3>4, <3>5
  <2>5. DOMAIN saved' \subseteq DOMAIN saved
    BY DEF OwnerStep, OwnerStarts, OwnerStops, pm_timer_register,
           pm_timer_unregister
  <2>6. \A k \in DOMAIN saved' : before'[k].on
    BY <2>1, <2>5 DEF Asleep
  <2> QED  BY <2>1, <2>2, <2>4, <2>6 DEF Asleep
<1>6. UNCHANGED <<phase, before>>
  BY <1>2 DEF Touch
<1> QED  BY <1>1, <1>3, <1>5, <1>6 DEF SleepInv

LEMMA ShellSleeps == SleepInv /\ (ShellCommand \/ ShellStep) => SleepInv'
<1> SUFFICES ASSUME SleepInv, ShellCommand \/ ShellStep PROVE SleepInv'
  OBVIOUS
<1>1. UNCHANGED <<phase, managed, saved, suspended, before, touched>>
  BY DEF ShellCommand, ShellStep, cmd_set_s2ram, cmd_bmps_enable, SetBusy,
         pm_timer_stop_all_k_timers, S2ramStartsTimer, CheckLock, PutLock, Idle,
         sleepVars, historyVars
<1>2. \A k \in Timer : /\ timer'[k].on \/ timer'[k] = Off
                       /\ k \notin {"s2ram", "bmps"} /\ timer[k] = Off
                             => timer'[k] = Off
  <2>1. CASE cmd_bmps_enable
    <3>1. PICK time \in Times :
            timer' = IF time = 0 THEN timer
                     ELSE [timer EXCEPT !["bmps"] = Run(time, 0)]
      BY <2>1 DEF cmd_bmps_enable
    <3>2. Run(time, 0).on
      BY RunIsOn
    <3> QED  BY <3>1, <3>2 DEF SleepInv, TypeInv, TypeOK
  <2>2. CASE S2ramStartsTimer
    <3>1. Run(args, args).on
      BY RunIsOn DEF SleepInv, TypeInv, TypeOK
    <3> QED  BY <2>2, <3>1 DEF S2ramStartsTimer, SleepInv, TypeInv, TypeOK
  <2>3. CASE pm_timer_stop_all_k_timers
    BY <2>3 DEF pm_timer_stop_all_k_timers
  <2>4. CASE cmd_set_s2ram \/ SetBusy \/ CheckLock \/ PutLock
    BY <2>4 DEF cmd_set_s2ram, SetBusy, CheckLock, PutLock, SleepInv
  <2> QED  BY <2>1, <2>2, <2>3, <2>4 DEF ShellCommand, ShellStep
<1> QED  BY <1>1, <1>2, ShellType, SleepOf DEF SleepInv

LEMMA SleepIsInvariant == Spec => []SleepInv
<1>1. SleepInv /\ [Next]_vars => SleepInv'
  <2>1. SleepInv /\ UNCHANGED vars => SleepInv'
    BY DEF SleepInv, Asleep, TypeInv, TypeOK, vars
  <2> QED  BY <2>1, Steps, PreSleepSleeps, PostSleepSleeps, TickSleeps,
              CallbackSleeps, OwnerSleeps, ShellSleeps
<1> QED  BY <1>1, InitSleep, PTL DEF Spec

\* A default task whose slot no later one has taken is found in the table.
LEMMA TableKnows ==
  ASSUME NEW i \in DOMAIN Defaults, ~ Overwritten(i)
  PROVE  Defaults[i] \in DefaultTasks
<1>1. Defaults[i] \in Task
  OBVIOUS
<1>2. if_os_default_tasks(Defaults[i])
  BY DEF if_os_default_tasks, Overwritten
<1> QED  BY <1>1, <1>2 DEF DefaultTasks

\* While the system sleeps no managed timer can wake it, nor a default task whose
\* name the hash table holds, and only default tasks are suspended.
THEOREM SleepIsQuietHolds == Spec => []SleepIsQuiet
<1>1. SleepInv => SleepIsQuiet
  <2> SUFFICES ASSUME SleepInv, phase = "asleep" PROVE SleepIsQuiet
    BY DEF SleepIsQuiet
  <2>1. Asleep
    BY DEF SleepInv
  <2>2. /\ \A m \in managed \ touched : ~ timer[m].on
        /\ ~ timer["service"].on
    BY <2>1, RunIsOn DEF Asleep
  <2>3. \A i \in DOMAIN Defaults : Defaults[i] \in suspended \/ Overwritten(i)
    BY <2>1, TableKnows DEF Asleep
  <2>4. \A k \in suspended : \E i \in DOMAIN Defaults : Defaults[i] = k
    BY <2>1 DEF Asleep, DefaultTasks, if_os_default_tasks
  <2> QED  BY <2>2, <2>3, <2>4 DEF SleepIsQuiet
<1> QED  BY <1>1, SleepIsInvariant, PTL

\* Only the hook after sleep ends sleep or idling.
LEMMA HookWakes ==
  ASSUME [Next]_vars, phase # "awake", phase' = "awake"
  PROVE  on_idle_post_sleep
<1>1. on_idle_pre_sleep \/ Tick \/ Callback \/ ShellCommand \/ ShellStep
        => phase' = phase \/ phase' # "awake"
  BY DEF on_idle_pre_sleep, Tick, Callback, pm_service_timer_cb, s2ram_timer_cb,
         bmps_timer_cb, ManagedExpires, ShellCommand, ShellStep, cmd_set_s2ram,
         cmd_bmps_enable, SetBusy, pm_timer_stop_all_k_timers,
         S2ramStartsTimer, CheckLock, PutLock, Idle
<1>2. \A m \in Managed : OwnerStep(m) => phase' = phase
  BY DEF OwnerStep, OwnerStarts, OwnerStops, pm_timer_register,
         pm_timer_unregister, Touch
<1>3. UNCHANGED vars => phase' = phase
  BY DEF vars
<1> QED  BY <1>1, <1>2, <1>3, Steps

\* The step that ends sleep restores every managed timer nobody touched, and
\* leaves alone whatever the hook before sleep left alone.
LEMMA WakesAsBefore ==
  ASSUME SleepInv, [Next]_vars, phase # "awake", phase' = "awake"
  PROVE  /\ phase = "asleep" => \A m \in managed \ touched : timer'[m] = before[m]
         /\ \A k \in Timer : ~ StoppedByHook(k) => timer'[k] = timer[k]
         /\ suspended' = {}
<1>1. on_idle_post_sleep
  BY HookWakes
<1>2. suspended' = {} /\ (phase # "asleep" => timer' = timer)
  BY <1>1, PostSleep DEF SleepInv
<1>3. \A k \in Timer :
        timer'[k] = IF k \in DOMAIN saved THEN Run(saved[k].left, saved[k].period)
                                          ELSE timer[k]
  BY <1>1 DEF on_idle_post_sleep, ResumeTimers
<1>4. ASSUME phase = "asleep", NEW m \in managed \ touched
      PROVE  timer'[m] = before[m]
  <2>1. /\ timer[m] = Off /\ m \in Managed
        /\ before[m] = IF m \in DOMAIN saved THEN saved[m] ELSE Off
        /\ m \in DOMAIN saved => saved[m].on /\ saved[m] \in TimerState
    BY <1>4 DEF SleepInv, Asleep, TypeInv, TypeOK
  <2> QED  BY <1>3, <2>1, TimerValues
<1>5. ASSUME NEW k \in Timer, ~ StoppedByHook(k)
      PROVE  timer'[k] = timer[k]
  <2>1. CASE phase = "asleep"
    <3>1. k \notin DOMAIN saved
      BY <1>5, <2>1 DEF StoppedByHook, SleepInv, Asleep, TypeInv, TypeOK
    <3> QED  BY <1>3, <3>1
  <2> QED  BY <1>2, <2>1
<1> QED  BY <1>2, <1>4, <1>5

\* on_idle_post_sleep undoes on_idle_pre_sleep, and nothing else.
THEOREM WokenAsBeforeHolds == Spec => WokenAsBefore
<1>1. SleepInv /\ [Next]_vars
        => [phase # "awake" /\ phase' = "awake" =>
              /\ phase = "asleep" =>
                   \A m \in managed \ (touched \cup {Uart}) : timer'[m] = before[m]
              /\ \A k \in Timer : ~ StoppedByHook(k) => timer'[k] = timer[k]
              /\ suspended' = {}]_vars
  BY WakesAsBefore
<1> QED  BY <1>1, SleepIsInvariant, PTL DEF Spec, WokenAsBefore

-----------------------------------------------------------------------------
(* The sleep lock *)

\* A command that is about to put the lock found it taken, and only the
\* service's interrupt can have put it since.
LockInv ==
  /\ locks \in Int
  /\ ~ raced => locks >= 0 /\ (shell = "put" => locks > 0)

LEMMA LockStep ==
  ASSUME TypeInv, LockInv, [Next]_vars
  PROVE  LockInv'
<1>1. CASE \/ on_idle_pre_sleep \/ on_idle_post_sleep \/ Tick
           \/ (\E m \in Managed : ManagedExpires(m) \/ OwnerStep(m))
           \/ UNCHANGED vars
  BY <1>1 DEF on_idle_pre_sleep, on_idle_post_sleep, Tick, ManagedExpires, OwnerStep,
       OwnerStarts, OwnerStops, pm_timer_register, pm_timer_unregister, Touch,
       shellVars, vars, LockInv
<1>2. CASE pm_service_timer_cb
  <2>1. CASE busy
    BY <1>2, <2>1 DEF pm_service_timer_cb, shellVars, LockInv
  <2>2. CASE ~ busy
    <3>1. /\ locks' = IF LockActive /\ locks > Lowest THEN locks - 1 ELSE locks
          /\ raced' = (raced \/ (LockActive /\ shell = "put"))
          /\ UNCHANGED shell
      BY <1>2, <2>2 DEF pm_service_timer_cb, shellVars
    <3>2. locks' \in Int
      BY <3>1 DEF LockInv
    <3>3. ASSUME ~ raced'
          PROVE  ~ raced /\ locks >= 0 /\ shell # "put"
      <4>1. ~ raced /\ ~ (LockActive /\ shell = "put")
        BY <3>1, <3>3
      <4> QED  BY <4>1 DEF LockInv, LockActive
    <3> QED  BY <3>1, <3>2, <3>3 DEF LockInv, LockActive
  <2> QED  BY <2>1, <2>2
<1>3. CASE s2ram_timer_cb \/ bmps_timer_cb
  BY <1>3 DEF s2ram_timer_cb, bmps_timer_cb, shellVars, LockInv
<1>4. CASE cmd_set_s2ram \/ cmd_bmps_enable \/ SetBusy \/ pm_timer_stop_all_k_timers
  BY <1>4 DEF cmd_set_s2ram, cmd_bmps_enable, SetBusy, pm_timer_stop_all_k_timers,
       LockInv, TypeInv, TypeOK
<1>5. CASE S2ramStartsTimer
  BY <1>5 DEF S2ramStartsTimer, LockInv
<1>6. CASE CheckLock
  BY <1>6 DEF CheckLock, LockActive, LockInv
<1>7. CASE PutLock
  BY <1>7 DEF PutLock, LockInv
<1> QED  BY <1>1, <1>2, <1>3, <1>4, <1>5, <1>6, <1>7, Steps
         DEF Callback, ShellCommand, ShellStep

\* The count of the policy lock does not go below zero but by the race of the
\* service's interrupt with a command between its check and its put.
THEOREM LockCountSoundHolds == Spec => []LockCountSound
<1>1. Init => LockInv
  BY DEF Init, LockInv
<1>2. LockInv => LockCountSound
  BY DEF LockInv, LockCountSound
<1>3. TypeInv /\ LockInv /\ [Next]_vars => LockInv'
  BY LockStep
<1>4. Spec => []TypeInv
  BY SleepIsInvariant, PTL DEF SleepInv
<1> QED  BY <1>1, <1>2, <1>3, <1>4, PTL DEF Spec
=============================================================================
