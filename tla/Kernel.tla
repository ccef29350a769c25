------------------------------- MODULE Kernel -------------------------------
(***************************************************************************)
(* The scheduler of FreeRTOS (tasks.c, list.c) under the tasks of the      *)
(* device (Application): InitTask creates the tasks of the application and *)
(* deletes itself; each of them sleeps with vTaskDelay, works and sleeps   *)
(* again; the one called monitor feeds the watchdog.                       *)
(*                                                                         *)
(* A step ends where the tick interrupt may come.  PendSV, which a request *)
(* to switch sets, is taken before anything else: the switch is part of    *)
(* the step.  The application uses no queues or semaphores, so that only   *)
(* time makes a task ready, and nothing is in xPendingReadyList.           *)
(***************************************************************************)
EXTENDS Integers, Sequences, FiniteSets

CONSTANTS
  AppTasks,        \* in the order in which InitTask creates them
  Delay,           \* of each, in ticks
  portMAX_DELAY,   \* 2^32 - 1
  MaxPended,       \* ticks that come while the scheduler is suspended once
  Timeout,         \* of the watchdog, in ticks
  MaxHits          \* ticks that come while monitor runs, from sleep to sleep

App == {AppTasks[i] : i \in 1..Len(AppTasks)}
Task == App \cup {"InitTask", "idle"}
Tick32 == 0..portMAX_DELAY

ASSUME KernelAssumption ==
  /\ AppTasks \in Seq(App) /\ "monitor" \in App
  /\ \A i, j \in 1..Len(AppTasks) : AppTasks[i] = AppTasks[j] => i = j
  /\ {"InitTask", "idle", "end"} \cap App = {}
  /\ Delay \in [App -> Nat]
  /\ \A t \in App : Delay[t] > 0 /\ Delay[t] < portMAX_DELAY
  /\ portMAX_DELAY \in Nat /\ MaxPended \in Nat /\ Timeout \in Nat /\ MaxHits \in Nat

tskIDLE_PRIORITY == 0
Priorities == {tskIDLE_PRIORITY, tskIDLE_PRIORITY + 4}
uxPriority(t) == IF t \in App THEN tskIDLE_PRIORITY + 4 ELSE tskIDLE_PRIORITY

VARIABLES
  kernel,                  \* what the kernel's functions work on:
    \* xTickCount, xNextTaskUnblockTime, uxTopReadyPriority (the set of its bits),
    \* pxDelayedTaskList and pxOverflowDelayedTaskList (sequences),
    \* pxReadyTasksLists (of each priority, the ring that begins at pxIndex and
    \* in which "end" stands for xListEnd), pxCurrentTCB
  uxSchedulerSuspended,
  uxPendedTicks,
  pc,                      \* where each task is
  created,                 \* how many of AppTasks exist
  dog,                     \* ticks since the watchdog was last fed
  hits,
  fed                      \* monitor has fed it: history

dogVars == <<dog, hits, fed>>
vars == <<kernel, uxSchedulerSuspended, uxPendedTicks, pc, created, dogVars>>

Current == kernel.pxCurrentTCB

-----------------------------------------------------------------------------
(***************************************************************************)
(* list.c                                                                  *)
(***************************************************************************)
vListInsertEnd(ring, t) == Append(ring, t)

\* A ring from which t is removed; pxIndex steps back when it points to t.
uxListRemove(ring, t) ==
  IF Head(ring) = t
  THEN <<ring[Len(ring)]>> \o SubSeq(ring, 2, Len(ring) - 1)
  ELSE SelectSeq(ring, LAMBDA u : u # t)

listCURRENT_LIST_LENGTH(ring) == Len(ring) - 1

\* Where pxIndex gets to.
listGET_OWNER_OF_NEXT_ENTRY(ring) ==
  LET turn(r) == Append(Tail(r), Head(r))
  IN IF Head(turn(ring)) = "end" THEN turn(turn(ring)) ELSE turn(ring)

\* In the order of values, after those of the same value.
vListInsert(list, item) ==
  LET n == CHOOSE n \in 0..Len(list) :
             /\ \A i \in 1..n : list[i].value <= item.value
             /\ n < Len(list) => list[n + 1].value > item.value
  IN SubSeq(list, 1, n) \o <<item>> \o SubSeq(list, n + 1, Len(list))

-----------------------------------------------------------------------------
(***************************************************************************)
(* tasks.c: functions from a value of kernel to the next.                  *)
(***************************************************************************)
prvAddTaskToReadyList(k, t) ==
  [k EXCEPT !.uxTopReadyPriority = @ \cup {uxPriority(t)},
            !.pxReadyTasksLists[uxPriority(t)] = vListInsertEnd(@, t)]

\* uxListRemove from a ready list, and taskRESET_READY_PRIORITY.
KeepBit(k, t) ==
  [k EXCEPT !.pxReadyTasksLists[uxPriority(t)] = uxListRemove(@, t)]
RemoveFromReadyList(k, t) ==
  LET p == uxPriority(t)
      ring == uxListRemove(k.pxReadyTasksLists[p], t)
  IN [k EXCEPT !.pxReadyTasksLists[p] = ring,
               !.uxTopReadyPriority =
                  IF listCURRENT_LIST_LENGTH(ring) = 0 THEN @ \ {p} ELSE @]

vTaskSwitchContext(k) ==
  LET p == CHOOSE p \in k.uxTopReadyPriority : \A q \in k.uxTopReadyPriority : q <= p
      ring == listGET_OWNER_OF_NEXT_ENTRY(k.pxReadyTasksLists[p])
  IN [k EXCEPT !.pxReadyTasksLists[p] = ring, !.pxCurrentTCB = Head(ring)]

\* prvResetNextTaskUnblockTime, for the list given.
prvResetNextTaskUnblockTime(list) ==
  IF list = <<>> THEN portMAX_DELAY ELSE Head(list).value

\* pxCurrentTCB sleeps for n ticks.
prvAddCurrentTaskToDelayedList(k, n) ==
  LET t == k.pxCurrentTCB
      xTimeToWake == (k.xTickCount + n) % (portMAX_DELAY + 1)
      item == [task |-> t, value |-> xTimeToWake]
      removed == RemoveFromReadyList(k, t)
  IN IF xTimeToWake < k.xTickCount
     THEN [removed EXCEPT !.pxOverflowDelayedTaskList = vListInsert(@, item)]
     ELSE [removed EXCEPT
             !.pxDelayedTaskList = vListInsert(@, item),
             !.xNextTaskUnblockTime = IF xTimeToWake < @ THEN xTimeToWake ELSE @]

\* The list of what wakes before the counter wraps around, after
\* taskSWITCH_DELAYED_LISTS if it just did.
DelayedList(k, tick) ==
  IF tick = 0 THEN k.pxOverflowDelayedTaskList ELSE k.pxDelayedTaskList

\* How many tasks the loop at the head of the list unblocks: none before
\* xNextTaskUnblockTime, which is reset when the lists are switched.
Due(k, tick) ==
  LET list == DelayedList(k, tick)
      next == IF tick = 0 THEN prvResetNextTaskUnblockTime(list)
              ELSE k.xNextTaskUnblockTime
  IN IF tick < next THEN 0
     ELSE CHOOSE n \in 0..Len(list) :
            /\ \A i \in 1..n : list[i].value <= tick
            /\ n < Len(list) => list[n + 1].value > tick

\* xTaskIncrementTick while the scheduler is not suspended.  The tasks that sleep
\* are those of the application, of one priority.
IncrementTick(k) ==
  LET tick == (k.xTickCount + 1) % (portMAX_DELAY + 1)
      list == DelayedList(k, tick)
      n == Due(k, tick)
      rest == SubSeq(list, n + 1, Len(list))
      unblocked == [i \in 1..n |-> list[i].task]
      next == IF tick = 0 THEN prvResetNextTaskUnblockTime(list)
              ELSE k.xNextTaskUnblockTime
  IN [k EXCEPT
        !.xTickCount = tick,
        !.pxDelayedTaskList = rest,
        !.pxOverflowDelayedTaskList = IF tick = 0 THEN k.pxDelayedTaskList ELSE @,
        !.xNextTaskUnblockTime =
           IF tick < next THEN next ELSE prvResetNextTaskUnblockTime(rest),
        !.uxTopReadyPriority = @ \cup {uxPriority(list[i].task) : i \in 1..n},
        !.pxReadyTasksLists[tskIDLE_PRIORITY + 4] = @ \o unblocked]

\* What it returns: a task of at least the priority of the running one is
\* unblocked, or the next one of the same priority gets its slice.
NoTimeSlices(before, after) ==
  \E p \in Priorities : p >= uxPriority(before.pxCurrentTCB) /\
     Len(after.pxReadyTasksLists[p]) > Len(before.pxReadyTasksLists[p])
OnlyTimeSlices(before, after) ==
  listCURRENT_LIST_LENGTH(after.pxReadyTasksLists[uxPriority(before.pxCurrentTCB)]) > 1
xSwitchRequired(before, after) ==
  \/ \E p \in Priorities : p >= uxPriority(before.pxCurrentTCB) /\
       Len(after.pxReadyTasksLists[p]) > Len(before.pxReadyTasksLists[p])
  \/ listCURRENT_LIST_LENGTH(after.pxReadyTasksLists[uxPriority(before.pxCurrentTCB)]) > 1

-----------------------------------------------------------------------------
\* When vTaskStartScheduler starts the first task, which is idle: it was created
\* last, of the same priority.
Init ==
  /\ kernel = [xTickCount |-> 0, xNextTaskUnblockTime |-> portMAX_DELAY,
       uxTopReadyPriority |-> {tskIDLE_PRIORITY},
       pxDelayedTaskList |-> <<>>, pxOverflowDelayedTaskList |-> <<>>,
       pxReadyTasksLists |-> [p \in Priorities |->
         IF p = tskIDLE_PRIORITY THEN <<"end", "InitTask", "idle">> ELSE <<"end">>],
       pxCurrentTCB |-> "idle"]
  /\ uxSchedulerSuspended = FALSE /\ uxPendedTicks = 0
  /\ pc = [t \in Task |-> IF t \in App THEN "none" ELSE "call"]
  /\ created = 0
  /\ dog = 0 /\ hits = 0 /\ fed = FALSE

Step(from, to) == pc[Current] = from /\ pc' = [pc EXCEPT ![Current] = to]

\* The tick interrupt, while the scheduler runs and while it is suspended.
xTaskIncrementTick ==
  /\ IF uxSchedulerSuspended
     THEN uxPendedTicks' = uxPendedTicks + 1 /\ UNCHANGED kernel
     ELSE \E k \in {IncrementTick(kernel)} :
          /\ kernel' = IF xSwitchRequired(kernel, k) THEN vTaskSwitchContext(k) ELSE k
          /\ UNCHANGED uxPendedTicks

xPortSysTickHandler ==
  /\ uxPendedTicks < MaxPended
  /\ Current = "monitor" => hits < MaxHits
  /\ xTaskIncrementTick
  /\ dog' = IF dog < Timeout THEN dog + 1 ELSE dog
  /\ hits' = IF Current = "monitor" THEN hits + 1 ELSE hits
  /\ UNCHANGED <<uxSchedulerSuspended, pc, created, fed>>

\* vTaskDelay, to begin with: vTaskSuspendAll.
vTaskDelay ==
  /\ Current \in App
  /\ Step("call", "delay")
  /\ uxSchedulerSuspended' = TRUE
  /\ UNCHANGED <<kernel, uxPendedTicks, created, dogVars>>

AddToDelayedList ==
  /\ Step("delay", "resume")
  /\ kernel' = prvAddCurrentTaskToDelayedList(kernel, Delay[Current])
  /\ hits' = IF Current = "monitor" THEN 0 ELSE hits
  /\ UNCHANGED <<uxSchedulerSuspended, uxPendedTicks, created, dog, fed>>

\* xTaskResumeAll: the ticks that were missed, then a switch if one of them asks
\* for it.  Nothing else makes a task ready while the scheduler is suspended.
AfterDelay == IF Current = "monitor" THEN "work" ELSE "call"
ForgetTicks ==
  /\ uxSchedulerSuspended
  /\ uxSchedulerSuspended' = FALSE
  /\ uxPendedTicks' = 0
  /\ \/ Step("resume", "yield")
     \/ Step("heap", IF Current = "InitTask" THEN "create" ELSE "call")
  /\ UNCHANGED <<kernel, created, dogVars>>
xTaskResumeAll ==
  LET unwound[n \in 0..uxPendedTicks] ==
        IF n = 0 THEN kernel ELSE IncrementTick(unwound[n - 1])
      switch(ks) == \E n \in 1..uxPendedTicks : xSwitchRequired(ks[n - 1], ks[n])
  IN /\ pc[Current] \in {"resume", "heap"}
     /\ uxSchedulerSuspended' = FALSE
     /\ uxPendedTicks' = 0
     /\ \E ks \in {unwound}, xYieldPending \in {switch(unwound)} :
          /\ kernel' = IF xYieldPending THEN vTaskSwitchContext(ks[uxPendedTicks])
                       ELSE ks[uxPendedTicks]
          /\ \/ Step("resume", IF xYieldPending THEN AfterDelay ELSE "yield")
             \/ Step("heap", IF Current = "InitTask" THEN "create" ELSE "call")
     /\ UNCHANGED <<created, dogVars>>

\* portYIELD at the end of vTaskDelay and of vTaskDelete.
portYIELD ==
  /\ Step("yield", AfterDelay)
  /\ kernel' = vTaskSwitchContext(kernel)
  /\ UNCHANGED <<uxSchedulerSuspended, uxPendedTicks, created, dogVars>>

-----------------------------------------------------------------------------
\* pvPortMalloc, called by InitTask for xTaskCreate, and vPortFree, called by
\* idle for a task that has deleted itself, suspend the scheduler too.
HeapCall ==
  /\ pc[Current] = "call"
  /\ \/ /\ Current = "InitTask" /\ created < Len(AppTasks)
        /\ pc' = [pc EXCEPT !["InitTask"] = "heap"]
     \/ /\ Current = "idle" /\ pc["InitTask"] = "deleted"
        /\ pc' = [pc EXCEPT !["idle"] = "heap", !["InitTask"] = "freed"]
  /\ uxSchedulerSuspended' = TRUE
  /\ UNCHANGED <<kernel, uxPendedTicks, created, dogVars>>

\* prvAddNewTaskToReadyList.  (A tick just before it yields would switch, too.)
xTaskCreate ==
  LET t == AppTasks[created + 1]
      k == prvAddTaskToReadyList(kernel, t)
  IN /\ pc["InitTask"] = "create" /\ Current = "InitTask"
     /\ pc' = [pc EXCEPT !["InitTask"] = "call", ![t] = "call"]
     /\ created' = created + 1
     /\ kernel' = IF uxPriority(Current) < uxPriority(t) THEN vTaskSwitchContext(k)
                  ELSE k
     /\ UNCHANGED <<uxSchedulerSuspended, uxPendedTicks, dogVars>>

vTaskDelete ==
  /\ Current = "InitTask" /\ created = Len(AppTasks)
  /\ Step("call", "deleted")
  /\ kernel' = RemoveFromReadyList(kernel, Current)
  /\ UNCHANGED <<uxSchedulerSuspended, uxPendedTicks, created, dogVars>>

\* After vTaskDelete, and by idle when another task of its priority is ready.
DeletedYields ==
  /\ Current = "InitTask" /\ pc["InitTask"] = "deleted"
  /\ kernel' = vTaskSwitchContext(kernel)
  /\ UNCHANGED <<uxSchedulerSuspended, uxPendedTicks, pc, created, dogVars>>

IdleYields ==
  /\ Current = "idle" /\ pc["idle"] = "call"
  /\ listCURRENT_LIST_LENGTH(kernel.pxReadyTasksLists[tskIDLE_PRIORITY]) > 1
  /\ kernel' = vTaskSwitchContext(kernel)
  /\ UNCHANGED <<uxSchedulerSuspended, uxPendedTicks, pc, created, dogVars>>

\* monitor_loop after its vTaskDelay.
IWDG_Feed ==
  /\ Current = "monitor"
  /\ Step("work", "call")
  /\ dog' = 0
  /\ fed' = TRUE
  /\ UNCHANGED <<kernel, uxSchedulerSuspended, uxPendedTicks, created, hits>>

Next ==
  \/ xPortSysTickHandler
  \/ vTaskDelay \/ AddToDelayedList \/ xTaskResumeAll \/ portYIELD
  \/ HeapCall \/ xTaskCreate \/ vTaskDelete \/ DeletedYields \/ IdleYields
  \/ IWDG_Feed

Spec == Init /\ [][Next]_vars

-----------------------------------------------------------------------------
Where == {"none", "call", "delay", "resume", "yield", "work", "heap", "create",
          "deleted", "freed"}
Item == [task : App, value : Tick32]

TypeOK ==
  /\ kernel.xTickCount \in Tick32 /\ kernel.xNextTaskUnblockTime \in Tick32
  /\ kernel.uxTopReadyPriority \in SUBSET Priorities
  /\ kernel.pxDelayedTaskList \in Seq(Item)
  /\ kernel.pxOverflowDelayedTaskList \in Seq(Item)
  /\ kernel.pxReadyTasksLists \in [Priorities -> Seq(Task \cup {"end"})]
  /\ kernel.pxCurrentTCB \in Task
  /\ uxSchedulerSuspended \in BOOLEAN
  /\ uxPendedTicks \in 0..MaxPended
  /\ pc \in [Task -> Where]
  /\ created \in 0..Len(AppTasks)
  /\ dog \in 0..Timeout /\ hits \in 0..MaxHits /\ fed \in BOOLEAN

Tasks(list) == {list[i].task : i \in 1..Len(list)}
Ring(p) == {kernel.pxReadyTasksLists[p][i] : i \in 1..Len(kernel.pxReadyTasksLists[p])}
Sleepers == kernel.pxDelayedTaskList \o kernel.pxOverflowDelayedTaskList
Asleep == Tasks(Sleepers)
Exist == {t \in Task : pc[t] \notin {"none", "deleted", "freed"}}

\* No task is lost or in two lists: each that exists is ready, in the ring of its
\* priority, or sleeps, and xListEnd stays where it is; the bits of
\* uxTopReadyPriority say which rings have tasks, or a switch would pick one
\* from an empty ring.  (All variables keep their types.)
OneList ==
  /\ TypeOK
  /\ \A p \in Priorities :
       /\ Ring(p) = {"end"} \cup {t \in Exist \ Asleep : uxPriority(t) = p}
       /\ \A i, j \in 1..Len(kernel.pxReadyTasksLists[p]) :
            kernel.pxReadyTasksLists[p][i] = kernel.pxReadyTasksLists[p][j] => i = j
       /\ p \in kernel.uxTopReadyPriority <=> Ring(p) # {"end"}
  /\ Asleep \subseteq Exist
  /\ \A i, j \in 1..Len(Sleepers) : Sleepers[i].task = Sleepers[j].task => i = j

\* No task runs while one of higher priority is ready (a task that waits for the
\* scheduler to be resumed, or for a tick, is not).
HighestRuns ==
  \A p \in kernel.uxTopReadyPriority : p <= uxPriority(Current)

\* Once monitor has fed the watchdog it goes on in time, though the other tasks,
\* of the same priority, may work without end.
WatchdogFed == fed => dog < Timeout

\* The two lists, the wrapping counter and the unwinding of pended ticks implement
\* delays of so many ticks.
Left == [t \in App |->
  IF t \notin Asleep THEN 0
  ELSE LET item == Sleepers[CHOOSE i \in 1..Len(Sleepers) : Sleepers[i].task = t]
           d == (item.value - kernel.xTickCount) % (portMAX_DELAY + 1)
       IN IF d = 0 THEN portMAX_DELAY + 1 ELSE d]

Promised == INSTANCE Delays WITH
  Task <- App, left <- Left, held <- uxSchedulerSuspended, missed <- uxPendedTicks

RefinesDelays == Promised!Spec

\* The number of switches among tasks of its priority until a task runs.
Turns(k, t) ==
  LET ring == k.pxReadyTasksLists[uxPriority(t)]
      at == CHOOSE i \in 1..Len(ring) : ring[i] = t
  IN Cardinality({i \in 1..Len(ring) :
       ring[i] # "end" /\ (at = 1 \/ (1 < i /\ i <= at))})

Ready(k, t) ==
  \E i \in 1..Len(k.pxReadyTasksLists[uxPriority(t)]) :
    k.pxReadyTasksLists[uxPriority(t)][i] = t
Waits(k, t) == Ready(k, t) /\ k.pxCurrentTCB # t

\* Tasks of one priority take turns: a task that waits for the processor gets
\* nearer to it with each switch and each tick that is counted (a running task
\* that is about to sleep switches without one), and is not put back by tasks
\* that wake, sleep or never end their work; except that a tick in the middle of
\* vTaskDelay wakes tasks before the one to which pxIndex stepped back.
TakesTurns ==
  [][\A t \in App :
       /\ Waits(kernel, t) /\ Waits(kernel', t)
       /\ Head(kernel.pxReadyTasksLists[uxPriority(t)]) # t
       => IF \/ kernel'.pxCurrentTCB # kernel.pxCurrentTCB
             \/ kernel'.xTickCount # kernel.xTickCount /\ Ready(kernel, Current)
          THEN Turns(kernel', t) < Turns(kernel, t)
          ELSE Turns(kernel', t) <= Turns(kernel, t)]_vars
=============================================================================
