----------------------------- MODULE Scheduler -----------------------------
(***************************************************************************)
(* The process table and scheduler of kernel/process.c.  The processes are *)
(* cooperative: one thread has the processor and every step is a call that *)
(* it makes, or a timer tick.  Of a context it matters which thread its    *)
(* registers are of and which code segment context_switch of               *)
(* kernel/context.asm will load for it: process_create writes the kernel's *)
(* code segment there, context_switch saves the data segment instead, and  *)
(* the iret that resumes such a thread faults.                             *)
(***************************************************************************)
EXTENDS Integers, FiniteSetsExt

CONSTANTS MaxProcesses,  \* MAX_PROCESSES
          Priorities,    \* priorities processes are created with
          Stacks,        \* kernel stacks the heap has room for, by address
          Delays,        \* ticks processes sleep for
          MaxPid,        \* bound: processes created in a run
          MaxTicks,      \* bound: timer ticks in a run
          MaxKills       \* bound: how far below 0 process_count is followed

ASSUME SchedulerAssumption ==
  /\ MaxProcesses \in Nat \ {0}
  /\ Priorities \subseteq Int
  /\ Stacks \subseteq Nat \ {0}
  /\ Stacks # {}
  /\ IsFiniteSet(Stacks)
  /\ Delays \subseteq Nat
  /\ MaxPid \in Nat
  /\ MaxTicks \in Nat
  /\ MaxKills \in Nat

VARIABLES state,      \* process_table[i].state
          pid,        \* .pid, kept after the slot is freed
          prio,       \* .priority
          wakeAt,     \* .sleep_until
          stack,      \* .kernel_stack, 0 for none, kept after the slot is freed
          ctx,        \* .context: the thread that the registers are of, and .cs
          current,    \* the slot current_process points to
          nextPid,    \* next_pid
          count,      \* process_count
          heap,       \* the stacks that are allocated
          ticks,      \* timer_get_ticks()
          cpu,        \* the thread that is really executing
          killed,     \* pids process_kill was called on while in use (history)
          orderly,    \* no process killed the idle process or itself (history)
          single      \* no process was killed after it was gone (history)

vars == <<state, pid, prio, wakeAt, stack, ctx, current, nextPid, count,
          heap, ticks, cpu, killed, orderly, single>>

Slots == 0 .. MaxProcesses - 1
States == {"UNUSED", "READY", "RUNNING", "SLEEPING", "ZOMBIE"}
Idle == 0              \* the slot and the pid of the idle process
Nowhere == -1          \* the processor runs what no one wrote
Halted == -2           \* isr_handler has stopped it, interrupts off, for good
Threads == 0 .. MaxPid \cup {Nowhere, Halted}

KernelCode == 8        \* selectors of the segment table
KernelData == 16

Contexts == [thread : Threads, cs : {0, KernelCode, KernelData}]
Unset == [thread |-> Nowhere, cs |-> 0]

(***************************************************************************)
(* scheduler_init.  The stack of the idle process is the heap's first.     *)
(***************************************************************************)
Init ==
  /\ state = [s \in Slots |-> IF s = Idle THEN "READY" ELSE "UNUSED"]
  /\ pid = [s \in Slots |-> 0]
  /\ prio = [s \in Slots |-> 0]
  /\ wakeAt = [s \in Slots |-> 0]
  /\ stack = [s \in Slots |-> IF s = Idle THEN Min(Stacks) ELSE 0]
  /\ ctx = [s \in Slots |-> Unset]
  /\ current = Idle
  /\ nextPid = 1
  /\ count = 1
  /\ heap = {Min(Stacks)}
  /\ ticks = 0
  /\ cpu = Idle
  /\ killed = {}
  /\ orderly = TRUE
  /\ single = TRUE

(***************************************************************************)
(* schedule(), entered with the states st and wake-up times wake: sleepers *)
(* whose time has come are woken, then the ready process of the highest    *)
(* priority is chosen, the first one from the slot numbered after the      *)
(* current PID.  best_priority starts at -1.  (The test next == prev is    *)
(* never true: a RUNNING process is no candidate.)                         *)
(***************************************************************************)
(* Mutants: a tick early; nobody is woken. *)
WokenEarly(st, wake) ==
  [s \in Slots |-> IF st[s] = "SLEEPING" /\ wake[s] <= ticks + 1 THEN "READY" ELSE st[s]]

WokenNever(st, wake) == st

Woken(st, wake) ==
  [s \in Slots |-> IF st[s] = "SLEEPING" /\ wake[s] <= ticks THEN "READY" ELSE st[s]]

Candidates(st) == {s \in Slots : st[s] = "READY" /\ prio[s] > -1}

(* Mutant: the search always starts at slot 0. *)
DistanceFromZero(s) == s

(* Slots are passed in this order: how far s is from where the search starts. *)
Distance(s) == (s - (pid[current] + 1)) % MaxProcesses

(* Mutant: the first ready process, whatever its priority. *)
PreferredFirst(s, t) == Distance(s) <= Distance(t)

Preferred(s, t) ==
  prio[s] > prio[t] \/ (prio[s] = prio[t] /\ Distance(s) <= Distance(t))

Chosen(st) ==
  IF Candidates(st) = {} THEN Idle
  ELSE CHOOSE s \in Candidates(st) : \A t \in Candidates(st) : Preferred(s, t)

(***************************************************************************)
(* context_switch: the registers of the thread are saved with DS in the    *)
(* place of CS, and iret takes CS from the context that is loaded.  From   *)
(* the code segment it goes on; a data segment is a general protection     *)
(* fault, for which no handler is registered, and isr_handler stops the    *)
(* system; in a context of zeros there is no stack to fault on.            *)
(***************************************************************************)
Saved == [thread |-> cpu, cs |-> KernelData]

Iret(context) ==
  IF context.cs = KernelCode THEN context.thread
  ELSE IF context.cs = KernelData THEN Halted
  ELSE Nowhere

(* Mutant: saves through current_process after it was changed. *)
SwitchSavesLate(next, st) ==
  /\ state' = [s \in Slots |->
                 IF s = next THEN "RUNNING"
                 ELSE IF s = current /\ st[s] = "RUNNING" THEN "READY"
                 ELSE st[s]]
  /\ ctx' = [ctx EXCEPT ![next] = Saved]
  /\ cpu' = Iret(ctx[next])
  /\ current' = next

SwitchTo(next, st) ==
  /\ state' = [s \in Slots |->
                 IF s = next THEN "RUNNING"
                 ELSE IF s = current /\ st[s] = "RUNNING" THEN "READY"
                 ELSE st[s]]
  /\ ctx' = [ctx EXCEPT ![current] = Saved]
  /\ cpu' = Iret(ctx'[next])
  /\ current' = next

Schedule(entered, wake) ==
  LET st == Woken(entered, wake) IN
  IF Candidates(st) = {} /\ st[current] = "RUNNING"
  THEN state' = st /\ UNCHANGED <<ctx, cpu, current>>
  ELSE SwitchTo(Chosen(st), st)

(***************************************************************************)
(* process_create: the slot is filled in, READY included, before the stack *)
(* is allocated, and left so when there is none: others fill the heap too. *)
(***************************************************************************)
(* Mutant: the slot of a zombie is taken. *)
FreeOrZombie == {s \in Slots \ {Idle} : state[s] \in {"UNUSED", "ZOMBIE"}}

FreeSlots == {s \in Slots \ {Idle} : state[s] = "UNUSED"}

Create(p) ==
  /\ FreeSlots # {}
  /\ nextPid <= MaxPid
  /\ \E room \in {Stacks \ heap, {}} :
       LET s == Min(FreeSlots) IN
       /\ state' = [state EXCEPT ![s] = "READY"]
       /\ pid' = [pid EXCEPT ![s] = nextPid]
       /\ prio' = [prio EXCEPT ![s] = p]
       /\ wakeAt' = [wakeAt EXCEPT ![s] = 0]
       /\ IF room = {}
          THEN /\ stack' = [stack EXCEPT ![s] = 0]
               /\ ctx' = [ctx EXCEPT ![s] = Unset]
               /\ UNCHANGED <<heap, count>>
          ELSE /\ stack' = [stack EXCEPT ![s] = Min(room)]
               /\ ctx' = [ctx EXCEPT ![s] = [thread |-> nextPid, cs |-> KernelCode]]
               /\ heap' = heap \cup {Min(room)}
               /\ count' = count + 1
  /\ nextPid' = nextPid + 1
  /\ UNCHANGED <<current, ticks, cpu, killed, orderly, single>>

Exit ==
  /\ pid[current] # Idle
  /\ Schedule([state EXCEPT ![current] = "ZOMBIE"], wakeAt)
  /\ count' = count - 1
  /\ UNCHANGED <<pid, prio, wakeAt, stack, nextPid, heap, ticks, killed, orderly, single>>

Yield ==
  /\ Schedule(state, wakeAt)
  /\ UNCHANGED <<pid, prio, wakeAt, stack, nextPid, count, heap, ticks, killed, orderly, single>>

Sleep(d) ==
  /\ ticks + d <= MaxTicks
  /\ wakeAt' = [wakeAt EXCEPT ![current] = ticks + d]
  /\ Schedule([state EXCEPT ![current] = "SLEEPING"], wakeAt')
  /\ UNCHANGED <<pid, prio, stack, nextPid, count, heap, ticks, killed, orderly, single>>

Wake(s) ==
  /\ state[s] = "SLEEPING"
  /\ state' = [state EXCEPT ![s] = "READY"]
  /\ UNCHANGED <<pid, prio, wakeAt, stack, ctx, current, nextPid, count, heap,
                 ticks, cpu, killed, orderly, single>>

(***************************************************************************)
(* process_kill: the first slot with that pid, whatever its state.  The    *)
(* kill command passes any number on.                                      *)
(***************************************************************************)
Kill(n) ==
  /\ count > -MaxKills
  /\ \E s \in Slots :
       /\ pid[s] = n
       /\ \A t \in Slots : pid[t] = n => s <= t
       /\ state' = [state EXCEPT ![s] = "UNUSED"]
       /\ heap' = heap \ {stack[s]}
       /\ killed' = IF state[s] = "UNUSED" THEN killed ELSE killed \cup {n}
       /\ orderly' = (orderly /\ s \notin {Idle, current})
       /\ single' = (single /\ state[s] # "UNUSED")
  /\ count' = count - 1
  /\ UNCHANGED <<pid, prio, wakeAt, stack, ctx, current, nextPid, ticks, cpu>>

Tick ==
  /\ cpu # Halted
  /\ ticks < MaxTicks
  /\ ticks' = ticks + 1
  /\ UNCHANGED <<state, pid, prio, wakeAt, stack, ctx, current, nextPid, count,
                 heap, cpu, killed, orderly, single>>

(* The thread on the processor makes a call, if there is one. *)
Running == cpu \notin {Nowhere, Halted}

Thread ==
  /\ Running
  /\ \/ \E p \in Priorities : Create(p)
     \/ Exit
     \/ Yield
     \/ \E d \in Delays : Sleep(d)
     \/ \E s \in Slots : Wake(s)
     \/ \E n \in 0 .. MaxPid : Kill(n)

Next == Thread \/ Tick

(* Processes are cooperative: each one calls schedule() again and again.   *)
Fairness == WF_vars(Running /\ Yield) /\ WF_vars(Tick)

Spec == Init /\ [][Next]_vars /\ Fairness

-----------------------------------------------------------------------------
Ended == {"UNUSED", "ZOMBIE"}
Live == {s \in Slots : state[s] \notin Ended}

TypeOK ==
  /\ state \in [Slots -> States]
  /\ pid \in [Slots -> 0 .. MaxPid]
  /\ prio \in [Slots -> Int]
  /\ wakeAt \in [Slots -> Nat]
  /\ stack \in [Slots -> Stacks \cup {0}]
  /\ ctx \in [Slots -> Contexts]
  /\ current \in Slots
  /\ nextPid \in 1 .. MaxPid + 1
  /\ count \in Int
  /\ heap \subseteq Stacks
  /\ ticks \in 0 .. MaxTicks
  /\ cpu \in Threads
  /\ killed \subseteq 0 .. MaxPid
  /\ orderly \in BOOLEAN
  /\ single \in BOOLEAN

(* Whatever callers do, killing themselves included, only the process that *)
(* current_process points to is RUNNING: schedule() never leaves a second  *)
(* one marked so behind.  And as long as none kills itself or the idle     *)
(* process, the registers saved for a process are its own, and the thread  *)
(* on the processor is the one that current_process describes, if there is *)
(* one: the processor is halted when the process had run before and was to *)
(* be resumed, and is nowhere only in a process that process_create left   *)
(* without a stack.                                                        *)
CpuIsCurrent ==
  /\ TypeOK
  /\ \A s \in Slots : state[s] = "RUNNING" => s = current
  /\ orderly =>
       /\ \/ cpu = pid[current]
          \/ cpu = Halted /\ ctx[current].cs = KernelData
          \/ cpu = Nowhere /\ stack[current] = 0
       /\ \A s \in Slots \ {current} :
            state[s] \in {"READY", "SLEEPING"} /\ stack[s] # 0 => ctx[s].thread = pid[s]

(* No two processes share a kernel stack, none has been given back to the  *)
(* heap under a process, and the only stacks still allocated are those of  *)
(* processes, zombies included (process_create, process_kill), unless the  *)
(* idle process or the caller itself is killed, or a process that is gone, *)
(* whose stack is freed a second time.                                     *)
StacksExclusive ==
  LET owners == {s \in Slots : state[s] # "UNUSED" /\ stack[s] # 0} IN
  orderly /\ single =>
  /\ \A s, t \in owners : stack[s] = stack[t] => s = t
  /\ heap = {stack[s] : s \in owners}

(* schedule() passes over no process of a higher priority that was ready,  *)
(* or woke just now, when it switches.                                     *)
HighestReady ==
  [][current' # current =>
       \A s \in Slots \ {current} : state'[s] = "READY" => prio[s] <= prio[current']]_vars

(* Round-robin, as far as it goes: among processes of one priority the     *)
(* next to run is the first ready one in the table behind the process that *)
(* gives up the processor, as long as its PID still tells its slot.  In a  *)
(* slot that is used again it does not, and schedule() starts elsewhere.   *)
TurnsInOrder ==
  [][current' # current /\ pid[current] % MaxProcesses = current =>
       \A s \in Slots \ {current, current'} :
         state'[s] = "READY" /\ prio[s] = prio[current'] =>
           (current' - current) % MaxProcesses < (s - current) % MaxProcesses]_vars

(* A sleeping process is made ready again once its time has come, unless   *)
(* the processor is lost first: the next process to be resumed halts it.   *)
SleepersRun ==
  \A s \in Slots \ {Idle} :
    state[s] = "SLEEPING" ~> state[s] # "SLEEPING" \/ ~Running

(* "Save current context into old_ctx, load new_ctx": a switch lets the    *)
(* process that was chosen execute, a new one or one that had run before.  *)
SwitchResumes == orderly /\ single => cpu \in {pid[current], Nowhere}

(* A process that was taken off the processor stays off: one that sleeps   *)
(* is not made ready before its time unless it is woken, and one that      *)
(* process_kill ended executes no more, whoever is given its slot, if no   *)
(* process kills itself or the idle process.                               *)
StaysOff ==
  [][/\ \A s \in Slots \ {Idle} :
          state[s] = "SLEEPING" /\ ticks < wakeAt[s] =>
            state'[s] \in {"SLEEPING", "UNUSED"} \/ Wake(s)
     /\ orderly /\ cpu' # cpu => cpu' \notin killed]_vars
=============================================================================
