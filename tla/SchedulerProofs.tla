---------------------------- MODULE SchedulerProofs ----------------------------
(***************************************************************************)
(* Proofs that schedule() keeps the processor, the contexts and the stacks *)
(* with the processes that they belong to, for every number of processes,  *)
(* priorities and stacks.                                                  *)
(***************************************************************************)
EXTENDS Scheduler, FiniteSetTheorems, WellFoundedInduction, TLAPS

(* The table: the idle process is in its slot, only current is RUNNING,    *)
(* and PIDs are used once.                                                 *)
Table ==
  /\ pid[Idle] = Idle /\ prio[Idle] = 0
  /\ \A s \in Slots : state[s] = "RUNNING" => s = current
  /\ state[current] # "SLEEPING" /\ (pid[current] = Idle => current = Idle)
  /\ \A s \in Slots : pid[s] < nextPid
  /\ \A s, t \in Slots : pid[s] = pid[t] => s = t \/ pid[s] = Idle
  /\ \A s \in Slots \ {Idle} : pid[s] = Idle => state[s] = "UNUSED"
  /\ \A n \in killed : n < nextPid

(* What a process leaves that kills neither itself nor the idle process:   *)
(* the thread on the processor is current's, or there is none, and each    *)
(* other process that is to run has a context of its own, or no stack.     *)
OnProcessor ==
  IF stack[current] = 0 THEN cpu = Nowhere
  ELSE cpu = pid[current] \/ (cpu = Halted /\ ctx[current].cs = KernelData)

Context(s) ==
  IF stack[s] = 0 THEN ctx[s].cs = 0
  ELSE ctx[s].thread = pid[s] /\ ctx[s].cs # 0

Follows ==
  orderly =>
    /\ state[Idle] \notin Ended /\ state[current] \notin Ended
    /\ OnProcessor
    /\ \A s \in Slots \ {current} : state[s] \in {"READY", "SLEEPING"} => Context(s)
    /\ \A s \in Slots : state[s] # "UNUSED" => pid[s] \notin killed

SInv == TypeOK /\ Table /\ Follows /\ StacksExclusive

-----------------------------------------------------------------------------
LEMMA LeastExists ==
  ASSUME NEW T, T \subseteq Nat, T # {}
  PROVE  Min(T) \in T /\ \A y \in T : Min(T) <= y
<1>1. PICK x \in T : \A y \in T : ~(<<y, x>> \in OpToRel(<, Nat))
  BY WFMin, NatLessThanWellFounded
<1>2. ASSUME NEW y \in T PROVE x <= y
  <2>1. x \in Nat /\ y \in Nat OBVIOUS
  <2>2. y < x => <<y, x>> \in OpToRel(<, Nat)
    <3>1. <<y, x>> \in Nat \X Nat /\ <<y, x>>[1] = y /\ <<y, x>>[2] = x BY <2>1
    <3> QED BY <3>1 DEF OpToRel
  <2>3. ~(<<y, x>> \in OpToRel(<, Nat)) BY <1>1
  <2>4. ~(y < x) BY <2>2, <2>3
  <2> QED BY <2>1, <2>4
<1> QED BY <1>2 DEF Min

LEMMA Constants ==
  /\ MaxProcesses \in Nat /\ MaxProcesses > 0 /\ MaxPid \in Nat
  /\ Slots \subseteq Nat /\ Idle \in Slots
  /\ Min(Stacks) \in Stacks /\ 0 \notin Stacks
<1>1. Min(Stacks) \in Stacks BY SchedulerAssumption, LeastExists
<1> QED BY <1>1, SchedulerAssumption DEF Slots, Idle

(* Among any processes there is one that is preferred to all: otherwise    *)
(* there would be a least n such that some of the first n have none.       *)
LEMMA PreferredExists ==
  ASSUME TypeOK, NEW C, C \subseteq Slots, C # {}
  PROVE  \E s \in C : \A t \in C : Preferred(s, t)
<1> DEFINE Best(D) == \E s \in D : \A t \in D : Preferred(s, t)
           Lacks(n) == \E D \in SUBSET Slots : D # {} /\ D \subseteq 0 .. n /\ ~Best(D)
           Lacking == {n \in Nat : Lacks(n)}
<1>1. \A s \in Slots : prio[s] \in Int /\ Distance(s) \in Int
  <2> SUFFICES ASSUME NEW s \in Slots PROVE prio[s] \in Int /\ Distance(s) \in Int OBVIOUS
  <2>1. s - (pid[current] + 1) \in Int BY Constants DEF TypeOK
  <2>2. (s - (pid[current] + 1)) % MaxProcesses \in Int BY <2>1, Constants
  <2> QED BY <2>2 DEF TypeOK, Distance
<1>2. \A s, t \in Slots : Preferred(s, t) \/ Preferred(t, s) BY <1>1 DEF Preferred
<1>3. \A s, t, u \in Slots : Preferred(s, t) /\ Preferred(t, u) => Preferred(s, u)
  BY <1>1 DEF Preferred
<1>4. Lacking = {}
  <2> SUFFICES ASSUME Lacking # {} PROVE FALSE OBVIOUS
  <2> DEFINE n == Min(Lacking)
  <2>1. n \in Nat /\ Lacks(n) /\ \A m \in Nat : Lacks(m) => n <= m
    <3>1. Lacking \subseteq Nat /\ \A m \in Nat : m \in Lacking <=> Lacks(m) OBVIOUS
    <3> HIDE DEF Lacks, Lacking
    <3>2. n \in Lacking /\ \A m \in Lacking : n <= m BY <3>1, LeastExists
    <3> QED BY <3>1, <3>2
  <2> HIDE DEF n
  <2>2. PICK D \in SUBSET Slots : D # {} /\ D \subseteq 0 .. n /\ ~Best(D) BY <2>1
  <2> HIDE DEF Best
  <2>3. ASSUME NEW B, B # {}, B \subseteq D \ {n} PROVE Best(B)
    <3>1. n # 0 /\ B \subseteq 0 .. n - 1 /\ n - 1 \in Nat
      <4>1. PICK b : b \in B BY <2>3
      <4>2. B \subseteq 0 .. n /\ n \notin B BY <2>2, <2>3
      <4> QED BY <2>1, <4>1, <4>2
    <3>2. ~(n <= n - 1) BY <2>1, <3>1
    <3>3. ~Lacks(n - 1)
      <4> HIDE DEF Lacks
      <4> QED BY <2>1, <3>1, <3>2
    <3> QED BY <2>2, <2>3, <3>1, <3>3
  <2>4. n \in D
    <3> SUFFICES ASSUME n \notin D PROVE FALSE OBVIOUS
    <3> QED BY <2>2, <2>3
  <2> DEFINE E == D \ {n}
  <2>5. n \in Slots /\ E \subseteq Slots BY <2>2, <2>4
  <2> USE DEF Best
  <2>6. CASE E = {} BY <1>2, <2>2, <2>4, <2>5, <2>6
  <2>7. CASE E # {}
    <3>2. Best(E)
      <4> HIDE DEF Best
      <4> QED BY <2>3, <2>7
    <3>3. PICK s \in E : \A t \in E : Preferred(s, t) BY <3>2
    <3>4. CASE Preferred(s, n) BY <2>2, <3>3, <3>4
    <3>5. CASE Preferred(n, s)
      <4>1. \A t \in D : Preferred(n, t) BY <1>2, <1>3, <2>5, <3>3, <3>5
      <4> QED BY <2>2, <2>4, <4>1
    <3> QED BY <1>2, <2>5, <3>3, <3>4, <3>5
  <2> QED BY <2>6, <2>7
<1>5. MaxProcesses - 1 \in Nat /\ C \subseteq 0 .. MaxProcesses - 1 BY Constants DEF Slots
<1>6. ~Lacks(MaxProcesses - 1) BY <1>4, <1>5
<1> QED BY <1>5, <1>6

(* What schedule() chooses.                                                *)
LEMMA ChosenIs ==
  ASSUME TypeOK, NEW st
  PROVE  /\ Chosen(st) \in Slots
         /\ Candidates(st) = {} => Chosen(st) = Idle
         /\ Candidates(st) # {} =>
              /\ Chosen(st) \in Candidates(st)
              /\ \A t \in Candidates(st) : Preferred(Chosen(st), t)
<1>1. Candidates(st) \subseteq Slots BY DEF Candidates
<1>2. CASE Candidates(st) = {} BY <1>2, Constants DEF Chosen
<1>3. CASE Candidates(st) # {}
  <2>1. \E s \in Candidates(st) : \A t \in Candidates(st) : Preferred(s, t)
    BY <1>1, <1>3, PreferredExists
  <2> QED BY <1>1, <1>3, <2>1 DEF Chosen
<1> QED BY <1>2, <1>3

-----------------------------------------------------------------------------
(* The calls of schedule(): the caller's own state is what it was, or it   *)
(* sleeps or exits; and what of the table it has changed before.           *)
Entered(st, wake) ==
  /\ st \in [Slots -> States] /\ wake \in [Slots -> Nat]
  /\ \A s \in Slots \ {current} : st[s] = state[s] /\ wake[s] = wakeAt[s]
  /\ st[current] \in {state[current], "SLEEPING", "ZOMBIE"}
  /\ st[current] = "ZOMBIE" => state[current] = "ZOMBIE" \/ pid[current] # Idle
  /\ wakeAt' = wake /\ count' \in Int
  /\ Running
  /\ UNCHANGED <<pid, prio, stack, nextPid, heap, ticks, killed, orderly, single>>

(* What it does: st is what has woken, next the process that was chosen.   *)
Scheduled(entered, st, next) ==
  /\ next \in Slots /\ current' = next
  /\ st \in [Slots -> States]
  /\ \A s \in Slots : st[s] # entered[s] => entered[s] = "SLEEPING" /\ st[s] = "READY"
  /\ \/ /\ next = current /\ st[current] = "RUNNING"
        /\ state' = st /\ UNCHANGED <<ctx, cpu>>
     \/ /\ state' \in [Slots -> States]
        /\ state'[next] = "RUNNING"
        /\ \A s \in Slots \ {next} :
             state'[s] = IF s = current /\ st[s] = "RUNNING" THEN "READY" ELSE st[s]
        /\ ctx' = [ctx EXCEPT ![current] = Saved] /\ cpu' = Iret(ctx'[next])
        /\ next = Idle \/ st[next] = "READY"

LEMMA ScheduleDoes ==
  ASSUME TypeOK, NEW entered \in [Slots -> States], NEW wake, Schedule(entered, wake)
  PROVE  \E next : Scheduled(entered, Woken(entered, wake), next)
<1> DEFINE st == Woken(entered, wake)
<1>1. st \in [Slots -> States]
      /\ \A s \in Slots : st[s] # entered[s] => entered[s] = "SLEEPING" /\ st[s] = "READY"
  BY DEF Woken, States
<1>2. current \in Slots BY DEF TypeOK
<1> HIDE DEF st
<1>3. CASE Candidates(st) = {} /\ st[current] = "RUNNING"
  <2>1. state' = st /\ UNCHANGED <<ctx, cpu, current>> BY <1>3 DEF Schedule, st
  <2>2. Scheduled(entered, st, current) BY <1>1, <1>2, <1>3, <2>1 DEF Scheduled
  <2> QED BY <2>2 DEF st
<1>4. CASE ~(Candidates(st) = {} /\ st[current] = "RUNNING")
  <2> DEFINE next == Chosen(st)
  <2>1. SwitchTo(next, st) BY <1>4 DEF Schedule, st
  <2>2. next \in Slots /\ (next = Idle \/ st[next] = "READY") BY ChosenIs DEF Candidates
  <2> HIDE DEF next
  <2>3. state' \in [Slots -> States] BY <1>1, <2>1 DEF SwitchTo, States
  <2>4. Scheduled(entered, st, next) BY <1>1, <1>2, <2>1, <2>2, <2>3 DEF SwitchTo, Scheduled
  <2> QED BY <2>4 DEF st
<1> QED BY <1>3, <1>4

(* A call of schedule() keeps the invariant: whoever is chosen has saved   *)
(* itself, and current_process saves itself before it is left.             *)
LEMMA ScheduleKeeps ==
  ASSUME SInv, NEW entered, NEW wake, Entered(entered, wake), Schedule(entered, wake)
  PROVE  SInv'
<1> DEFINE st == Woken(entered, wake)
<1>0. TypeOK /\ Table /\ Follows /\ StacksExclusive BY DEF SInv
<1>1. PICK next : Scheduled(entered, st, next) BY <1>0, ScheduleDoes DEF Entered
<1> HIDE DEF st
<1>2. /\ next \in Slots /\ current \in Slots /\ Idle \in Slots
      /\ entered \in [Slots -> States] /\ st \in [Slots -> States]
  BY <1>0, <1>1, Constants DEF TypeOK, Entered, Scheduled
<1>3. \A s \in Slots \ {current} :
        /\ entered[s] = state[s] /\ state[s] # "RUNNING"
        /\ st[s] = state[s] \/ (state[s] = "SLEEPING" /\ st[s] = "READY")
  BY <1>0, <1>1 DEF Table, Entered, Scheduled
<1>4. TypeOK'
  <2>1. state' \in [Slots -> States] BY <1>1, <1>2 DEF Scheduled
  <2>2. ctx' \in [Slots -> Contexts] /\ cpu' \in Threads
    <3>1. Saved \in Contexts BY <1>0 DEF TypeOK, Saved, Contexts
    <3>2. ctx' \in [Slots -> Contexts] BY <1>0, <1>1, <1>2, <3>1 DEF Scheduled, TypeOK
    <3>3. cpu' = cpu \/ cpu' = Iret(ctx'[next]) BY <1>1 DEF Scheduled
    <3>4. ctx'[next].thread \in Threads BY <1>2, <3>2 DEF Contexts
    <3> QED BY <1>0, <3>2, <3>3, <3>4 DEF TypeOK, Iret, Threads
  <2> QED BY <1>0, <1>1, <1>2, <2>1, <2>2 DEF Scheduled, Entered, TypeOK
<1>5. \A s \in Slots : state'[s] = "RUNNING" => s = next
  BY <1>1, <1>2, <1>3 DEF Scheduled
<1>6. state'[next] = "RUNNING" BY <1>1 DEF Scheduled
<1>7. \A s \in Slots \ {Idle} : state[s] = "UNUSED" /\ s # current => state'[s] = "UNUSED"
  BY <1>1, <1>2, <1>3 DEF Scheduled
<1>8. \A s \in Slots \ {Idle} : pid[s] = Idle => state'[s] = "UNUSED" /\ s # next
  <2> SUFFICES ASSUME NEW s \in Slots \ {Idle}, pid[s] = Idle
               PROVE  state'[s] = "UNUSED" /\ s # next
    OBVIOUS
  <2>1. state[s] = "UNUSED" /\ s # current BY <1>0 DEF Table
  <2>2. state'[s] = "UNUSED" BY <1>7, <2>1
  <2> QED BY <1>6, <2>2
<1>9. Table'
  <2>1. pid' = pid /\ prio' = prio /\ nextPid' = nextPid /\ killed' = killed /\ current' = next
    BY <1>1 DEF Entered, Scheduled
  <2>2. Slots' = Slots /\ Idle' = Idle BY DEF Slots, Idle
  <2> QED BY <1>0, <1>2, <1>5, <1>6, <1>8, <2>1, <2>2 DEF Table
<1>10. ASSUME orderly
       PROVE  \A s \in Slots : state'[s] = "UNUSED" <=> state[s] = "UNUSED"
  <2>1. state[Idle] \notin Ended /\ state[current] \notin Ended
    BY <1>0, <1>10 DEF Follows
  <2>2. state[Idle] # "UNUSED" /\ state[current] # "UNUSED" BY <2>1 DEF Ended
  <2>3. \A s \in Slots : st[s] = "UNUSED" <=> state[s] = "UNUSED"
    BY <1>1, <1>2, <1>3, <2>2 DEF Scheduled, Entered
  <2> QED BY <1>1, <1>2, <1>6, <2>2, <2>3 DEF Scheduled
<1>11. Follows'
  <2> SUFFICES ASSUME orderly'
               PROVE  /\ state'[Idle] \notin Ended /\ state'[current'] \notin Ended
                      /\ OnProcessor'
                      /\ \A s \in Slots \ {current'} :
                           state'[s] \in {"READY", "SLEEPING"} => Context(s)'
                      /\ \A s \in Slots : state'[s] # "UNUSED" => pid'[s] \notin killed'
    BY DEF Follows, Ended, Slots, Idle
  <2>1. /\ orderly /\ pid' = pid /\ killed' = killed /\ current' = next /\ stack' = stack
    BY <1>1 DEF Entered, Scheduled
  <2>2. /\ state[Idle] \notin Ended /\ state[current] \notin Ended /\ OnProcessor
        /\ \A s \in Slots \ {current} : state[s] \in {"READY", "SLEEPING"} => Context(s)
        /\ \A s \in Slots : state[s] # "UNUSED" => pid[s] \notin killed
    BY <1>0, <2>1 DEF Follows
  <2>3. ctx \in [Slots -> Contexts] BY <1>0 DEF TypeOK
  <2>4. next # current => state[next] \in {"READY", "SLEEPING"}
    <3>1. state[Idle] \in States BY <1>0, <1>2 DEF TypeOK
    <3>2. Idle # current => state[Idle] \in {"READY", "SLEEPING"}
      BY <1>2, <1>3, <2>2, <3>1 DEF States, Ended
    <3> QED BY <1>1, <1>2, <1>3, <3>2 DEF Scheduled
  <2>5. cpu = pid[current] /\ stack[current] # 0
    BY <2>2 DEF OnProcessor, Entered, Running
  <2>6. \/ next = current /\ UNCHANGED <<ctx, cpu>>
        \/ /\ ctx'[current] = Saved /\ cpu' = Iret(ctx'[next])
           /\ \A s \in Slots \ {current} : ctx'[s] = ctx[s]
    BY <1>1, <1>2, <2>3 DEF Scheduled
  <2>10. OnProcessor'
    <3>1. CASE next = current
      <4>1. CASE UNCHANGED <<ctx, cpu>>
        BY <2>1, <2>5, <3>1, <4>1 DEF OnProcessor
      <4>2. CASE ctx'[current] = Saved /\ cpu' = Iret(ctx'[next])
        <5>1. ctx'[next].cs = KernelData /\ cpu' = Halted
          BY <3>1, <4>2 DEF Saved, Iret, KernelData, KernelCode
        <5> QED BY <2>1, <2>5, <3>1, <5>1 DEF OnProcessor
      <4> QED BY <2>6, <4>1, <4>2
    <3>2. CASE next # current
      <4>1. Context(next) BY <1>2, <2>2, <2>4, <3>2
      <4>2. ctx'[next] = ctx[next] /\ cpu' = Iret(ctx[next]) BY <1>2, <2>6, <3>2
      <4>3. ctx[next] \in Contexts BY <1>2, <2>3
      <4> QED BY <2>1, <4>1, <4>2, <4>3
             DEF OnProcessor, Context, Iret, Contexts, KernelCode, KernelData
    <3> QED BY <3>1, <3>2
  <2>11. \A s \in Slots \ {next} : state'[s] \in {"READY", "SLEEPING"} => Context(s)'
    <3> SUFFICES ASSUME NEW s \in Slots \ {next}, state'[s] \in {"READY", "SLEEPING"}
                 PROVE  Context(s)'
      OBVIOUS
    <3>1. CASE s = current
      <4>1. ctx'[s] = Saved BY <2>6, <3>1
      <4>2. ctx'[s].thread = pid[s] /\ ctx'[s].cs = KernelData
        BY <2>5, <3>1, <4>1 DEF Saved
      <4>3. stack'[s] # 0 /\ pid'[s] = pid[s] BY <2>1, <2>5, <3>1
      <4> QED BY <4>2, <4>3 DEF Context, KernelData
    <3>2. CASE s # current
      <4>1. state[s] \in {"READY", "SLEEPING"} BY <1>1, <1>2, <1>3, <3>2 DEF Scheduled
      <4>2. Context(s) BY <2>2, <3>2, <4>1
      <4>3. ctx'[s] = ctx[s] BY <2>6, <3>2
      <4> QED BY <2>1, <4>2, <4>3 DEF Context
    <3> QED BY <3>1, <3>2
  <2>7. state'[Idle] \notin Ended
    <3>1. CASE Idle = next BY <1>6, <3>1 DEF Ended
    <3>2. CASE Idle # next /\ Idle # current
      BY <1>1, <1>2, <1>3, <2>2, <3>2 DEF Scheduled, Ended
    <3>3. CASE Idle # next /\ Idle = current
      <4>1. entered[Idle] \notin Ended BY <1>0, <1>1, <2>2, <3>3 DEF Entered, Ended, Table
      <4>2. st[Idle] \notin Ended BY <1>1, <1>2, <4>1 DEF Scheduled, Ended
      <4> QED BY <1>1, <1>2, <3>3, <4>2 DEF Scheduled, Ended
    <3> QED BY <3>1, <3>2, <3>3
  <2>8. \A s \in Slots : state'[s] # "UNUSED" => pid[s] \notin killed
    BY <1>10, <2>1, <2>2
  <2>9. state'[next] \notin Ended BY <1>6 DEF Ended
  <2> QED BY <2>1, <2>7, <2>8, <2>9, <2>10, <2>11
<1>12. StacksExclusive'
  <2> SUFFICES ASSUME orderly', single' PROVE StacksExclusive' BY DEF StacksExclusive
  <2>1. orderly /\ single /\ stack' = stack /\ heap' = heap BY <1>1 DEF Entered
  <2>2. {s \in Slots : state'[s] # "UNUSED" /\ stack'[s] # 0}
          = {s \in Slots : state[s] # "UNUSED" /\ stack[s] # 0}
    BY <1>10, <2>1
  <2> QED BY <1>0, <2>1, <2>2 DEF StacksExclusive, Slots
<1> QED BY <1>4, <1>9, <1>11, <1>12 DEF SInv
-----------------------------------------------------------------------------
LEMMA InitHolds == Init => SInv
<1> SUFFICES ASSUME Init PROVE SInv OBVIOUS
<1>1. Min(Stacks) \in Stacks /\ 0 \notin Stacks /\ MaxPid \in Nat BY Constants
<1>2. Idle = 0 /\ Idle \in Slots BY Constants DEF Idle
<1>3. TypeOK
  <2>1. \A s \in Slots : state[s] \in States BY DEF Init, States
  <2>2. \A s \in Slots : stack[s] \in Stacks \cup {0} BY <1>1 DEF Init
  <2>3. MaxTicks \in Nat BY SchedulerAssumption
  <2>4. Unset \in Contexts /\ cpu \in Threads
    BY <1>1, <1>2 DEF Init, Unset, Contexts, Threads, KernelCode, KernelData
  <2> QED BY <1>1, <1>2, <2>1, <2>2, <2>3, <2>4, SchedulerAssumption DEF Init, TypeOK, States
<1>4. Table BY <1>1, <1>2 DEF Init, Table
<1>5. Follows BY <1>1, <1>2 DEF Init, Follows, OnProcessor, Ended
<1>6. StacksExclusive BY <1>1, <1>2 DEF Init, StacksExclusive
<1> QED BY <1>3, <1>4, <1>5, <1>6 DEF SInv

(* A new process has a slot, a PID and a stack that nobody has.            *)
LEMMA CreateKeeps ==
  ASSUME SInv, NEW p \in Priorities, Create(p)
  PROVE  SInv'
<1>0. TypeOK /\ Table /\ Follows /\ StacksExclusive BY DEF SInv
<1> DEFINE s == Min(FreeSlots)
<1>1. s \in Slots \ {Idle} /\ state[s] = "UNUSED"
  <2>1. FreeSlots \subseteq Nat /\ FreeSlots # {} BY Constants DEF FreeSlots, Create
  <2>2. Min(FreeSlots) \in FreeSlots BY <2>1, LeastExists
  <2> QED BY <2>2 DEF FreeSlots
<1>2. PICK room \in {Stacks \ heap, {}} :
       /\ IF room = {}
          THEN /\ stack' = [stack EXCEPT ![s] = 0]
               /\ ctx' = [ctx EXCEPT ![s] = Unset]
               /\ UNCHANGED <<heap, count>>
          ELSE /\ stack' = [stack EXCEPT ![s] = Min(room)]
               /\ ctx' = [ctx EXCEPT ![s] = [thread |-> nextPid, cs |-> KernelCode]]
               /\ heap' = heap \cup {Min(room)}
               /\ count' = count + 1
  BY DEF Create
<1>3. /\ state' = [state EXCEPT ![s] = "READY"]
      /\ pid' = [pid EXCEPT ![s] = nextPid]
      /\ prio' = [prio EXCEPT ![s] = p]
      /\ wakeAt' = [wakeAt EXCEPT ![s] = 0]
      /\ nextPid \in 1 .. MaxPid /\ nextPid' = nextPid + 1
      /\ UNCHANGED <<current, ticks, cpu, killed, orderly, single>>
  <2>1. nextPid \in 1 .. MaxPid BY <1>0, Constants DEF Create, TypeOK
  <2> QED BY <2>1 DEF Create
<1>4. room # {} => Min(room) \in Stacks \ heap /\ Min(room) # 0
  <2>1. room \subseteq Nat /\ room \subseteq Stacks \ heap BY <1>2, SchedulerAssumption
  <2>2. room # {} => Min(room) \in room BY <2>1, LeastExists
  <2> QED BY <2>1, <2>2, Constants
<1> HIDE DEF s
<1>5. p \in Int /\ MaxPid \in Nat /\ Idle = 0 /\ Idle \in Slots /\ "READY" \in States
  BY SchedulerAssumption, Constants DEF Idle, States
<1>6. TypeOK'
  <2>1. /\ state' \in [Slots -> States] /\ pid' \in [Slots -> 0 .. MaxPid]
        /\ prio' \in [Slots -> Int] /\ wakeAt' \in [Slots -> Nat]
        /\ nextPid' \in 1 .. MaxPid + 1
    BY <1>0, <1>1, <1>3, <1>5 DEF TypeOK
  <2>2. /\ stack' \in [Slots -> Stacks \cup {0}] /\ ctx' \in [Slots -> Contexts]
        /\ heap' \subseteq Stacks /\ count' \in Int
    <3>1. Unset \in Contexts /\ [thread |-> nextPid, cs |-> KernelCode] \in Contexts
      BY <1>3, <1>5 DEF Unset, Contexts, Threads
    <3>2. CASE room = {} BY <1>0, <1>2, <3>1, <3>2 DEF TypeOK
    <3>3. CASE room # {} BY <1>0, <1>2, <1>4, <3>1, <3>3 DEF TypeOK
    <3> QED BY <3>2, <3>3
  <2> QED BY <1>0, <1>3, <2>1, <2>2 DEF TypeOK
<1>7. Table'
  <2>1. state \in [Slots -> States] /\ pid \in [Slots -> 0 .. MaxPid] /\ prio \in [Slots -> Int]
        /\ killed \subseteq 0 .. MaxPid /\ current \in Slots
    BY <1>0 DEF TypeOK
  <2>2. \A t \in Slots : state'[t] = IF t = s THEN "READY" ELSE state[t] BY <1>3, <2>1
  <2>3. \A t \in Slots : pid'[t] = IF t = s THEN nextPid ELSE pid[t] BY <1>3, <2>1
  <2>4. \A t \in Slots : pid[t] < nextPid /\ pid[t] \in Nat BY <1>0, <2>1 DEF Table
  <2>5. prio'[Idle] = 0 /\ pid'[Idle] = Idle BY <1>0, <1>1, <1>3, <1>5, <2>1 DEF Table
  <2>6. \A t \in Slots : pid'[t] < nextPid' BY <1>3, <2>3, <2>4
  <2>7. \A t, u \in Slots : pid'[t] = pid'[u] => t = u \/ pid'[t] = Idle
    BY <1>0, <1>3, <2>3, <2>4 DEF Table
  <2>8. \A t \in Slots \ {Idle} : pid'[t] = Idle => state'[t] = "UNUSED"
    BY <1>0, <1>3, <1>5, <2>2, <2>3 DEF Table
  <2>9. \A n \in killed : n < nextPid'
    <3>1. \A n \in killed : n < nextPid /\ n \in Nat BY <1>0, <2>1 DEF Table
    <3> QED BY <1>3, <3>1
  <2>10. /\ \A t \in Slots : state'[t] = "RUNNING" => t = current
         /\ state'[current] # "SLEEPING"
         /\ pid'[current] = Idle => current = Idle
    BY <1>0, <1>3, <1>5, <2>1, <2>2, <2>3 DEF Table
  <2> QED BY <1>3, <2>5, <2>6, <2>7, <2>8, <2>9, <2>10 DEF Table, Slots, Idle
<1>8. /\ state \in [Slots -> States] /\ pid \in [Slots -> 0 .. MaxPid] /\ current \in Slots
      /\ ctx \in [Slots -> Contexts] /\ stack \in [Slots -> Stacks \cup {0}]
  BY <1>0 DEF TypeOK
<1>9. \A t \in Slots :
        /\ state'[t] = (IF t = s THEN "READY" ELSE state[t])
        /\ pid'[t] = (IF t = s THEN nextPid ELSE pid[t])
        /\ t # s => ctx'[t] = ctx[t] /\ stack'[t] = stack[t]
  BY <1>2, <1>3, <1>8
<1>10. \/ /\ room = {} /\ stack'[s] = 0 /\ ctx'[s] = Unset /\ heap' = heap
       \/ /\ room # {} /\ stack'[s] = Min(room) /\ heap' = heap \cup {Min(room)}
          /\ ctx'[s] = [thread |-> nextPid, cs |-> KernelCode]
  BY <1>1, <1>2, <1>8
<1>11. Follows'
  <2> SUFFICES ASSUME orderly PROVE Follows' BY <1>3 DEF Follows
  <2>1. /\ state[Idle] \notin Ended /\ state[current] \notin Ended /\ OnProcessor
        /\ \A t \in Slots \ {current} : state[t] \in {"READY", "SLEEPING"} => Context(t)
        /\ \A t \in Slots : state[t] # "UNUSED" => pid[t] \notin killed
    BY <1>0 DEF Follows
  <2>2. s # current /\ s # Idle BY <1>1, <2>1 DEF Ended
  <2>3. nextPid \notin killed BY <1>0, <1>3 DEF Table
  <2>4. OnProcessor' BY <1>3, <1>8, <1>9, <2>1, <2>2 DEF OnProcessor
  <2>5. ASSUME NEW t \in Slots \ {current}, state'[t] \in {"READY", "SLEEPING"}
        PROVE  Context(t)'
    <3>1. CASE t = s
      <4>1. pid'[s] = nextPid BY <1>1, <1>9
      <4>2. CASE room = {} BY <1>10, <3>1, <4>2 DEF Context, Unset
      <4>3. CASE room # {}
        <5>1. stack'[s] # 0 BY <1>4, <1>10, <4>3
        <5>2. ctx'[s].thread = nextPid /\ ctx'[s].cs # 0 BY <1>10, <4>3 DEF KernelCode
        <5> QED BY <3>1, <4>1, <5>1, <5>2 DEF Context
      <4> QED BY <4>2, <4>3
    <3>2. CASE t # s
      <4>1. Context(t) BY <1>9, <2>1, <2>5, <3>2
      <4>2. ctx'[t] = ctx[t] /\ stack'[t] = stack[t] /\ pid'[t] = pid[t] BY <1>9, <3>2
      <4> QED BY <4>1, <4>2 DEF Context
    <3> QED BY <3>1, <3>2
  <2>6. /\ state'[Idle] \notin Ended /\ state'[current] \notin Ended
        /\ \A t \in Slots : state'[t] # "UNUSED" => pid'[t] \notin killed
    BY <1>3, <1>5, <1>8, <1>9, <2>1, <2>2, <2>3
  <2> QED BY <1>3, <2>4, <2>5, <2>6 DEF Follows, Ended, Slots, Idle
<1>12. StacksExclusive'
  <2> SUFFICES ASSUME orderly, single PROVE StacksExclusive' BY <1>3 DEF StacksExclusive
  <2> DEFINE owners == {t \in Slots : state[t] # "UNUSED" /\ stack[t] # 0}
             after == {t \in Slots : state'[t] # "UNUSED" /\ stack'[t] # 0}
  <2>1. /\ \A t, u \in owners : stack[t] = stack[u] => t = u
        /\ heap = {stack[t] : t \in owners}
    BY <1>0 DEF StacksExclusive
  <2>2. s \notin owners /\ \A t \in owners : stack'[t] = stack[t] /\ stack[t] \in heap
    BY <1>1, <1>9, <2>1
  <2>3. CASE room = {}
    <3>1. after = owners BY <1>1, <1>9, <1>10, <2>3
    <3>2. heap' = heap BY <1>10, <2>3
    <3> HIDE DEF owners
    <3>3. \A t, u \in after : stack'[t] = stack'[u] => t = u BY <2>1, <2>2, <3>1
    <3>4. heap' = {stack'[t] : t \in after} BY <2>1, <2>2, <3>1, <3>2
    <3> QED BY <3>3, <3>4 DEF StacksExclusive, Slots
  <2>4. CASE room # {}
    <3>1. after = owners \cup {s} BY <1>1, <1>4, <1>9, <1>10, <2>4
    <3>2. stack'[s] = Min(room) /\ Min(room) \notin heap /\ heap' = heap \cup {Min(room)}
      BY <1>4, <1>10, <2>4
    <3> HIDE DEF owners
    <3>3. \A t, u \in after : stack'[t] = stack'[u] => t = u BY <2>1, <2>2, <3>1, <3>2
    <3>4. heap' = {stack'[t] : t \in after}
      <4>1. {stack'[t] : t \in after} = {stack'[t] : t \in owners} \cup {stack'[s]} BY <3>1
      <4>2. {stack'[t] : t \in owners} = {stack[t] : t \in owners} BY <2>2
      <4> QED BY <2>1, <3>2, <4>1, <4>2
    <3> QED BY <3>3, <3>4 DEF StacksExclusive, Slots
  <2> QED BY <2>3, <2>4
<1> QED BY <1>6, <1>7, <1>11, <1>12 DEF SInv

(* The processes are others of those that had PIDs, and stacks, before.    *)
LEMMA KillKeeps ==
  ASSUME SInv, NEW n \in 0 .. MaxPid, Kill(n)
  PROVE  SInv'
<1>0. TypeOK /\ Table /\ Follows /\ StacksExclusive BY DEF SInv
<1>1. PICK s \in Slots :
        /\ pid[s] = n
        /\ state' = [state EXCEPT ![s] = "UNUSED"]
        /\ heap' = heap \ {stack[s]}
        /\ killed' = IF state[s] = "UNUSED" THEN killed ELSE killed \cup {n}
        /\ orderly' = (orderly /\ s \notin {Idle, current})
        /\ single' = (single /\ state[s] # "UNUSED")
  BY DEF Kill
<1>2. /\ count' = count - 1
      /\ UNCHANGED <<pid, prio, wakeAt, stack, ctx, current, nextPid, ticks, cpu>>
  BY DEF Kill
<1>3. state' \in [Slots -> States] /\ \A t \in Slots : state'[t] = IF t = s THEN "UNUSED" ELSE state[t]
  BY <1>0, <1>1 DEF TypeOK, States
<1>4. TypeOK'
  <2>1. orderly' \in BOOLEAN /\ single' \in BOOLEAN BY <1>1, Zenon
  <2>2. killed' \subseteq 0 .. MaxPid /\ heap' \subseteq Stacks BY <1>0, <1>1 DEF TypeOK
  <2>3. count' \in Int BY <1>0, <1>2 DEF TypeOK
  <2> QED BY <1>0, <1>2, <1>3, <2>1, <2>2, <2>3 DEF TypeOK
<1>5. Table'
  <2>1. \A m \in killed' : m < nextPid BY <1>0, <1>1 DEF Table
  <2>2. current \in Slots BY <1>0 DEF TypeOK
  <2> QED BY <1>0, <1>2, <1>3, <2>1, <2>2 DEF Table, Slots, Idle
<1>6. orderly' => orderly /\ s # Idle /\ s # current BY <1>1
<1>7. Follows'
  <2> SUFFICES ASSUME orderly' PROVE Follows' BY DEF Follows
  <2>1. /\ state[Idle] \notin Ended /\ state[current] \notin Ended /\ OnProcessor
        /\ \A t \in Slots \ {current} : state[t] \in {"READY", "SLEEPING"} => Context(t)
        /\ \A t \in Slots : state[t] # "UNUSED" => pid[t] \notin killed
    BY <1>0, <1>6 DEF Follows
  <2>2. \A t \in Slots : state'[t] # "UNUSED" => pid[t] \notin killed'
    <3>1. CASE state[s] = "UNUSED" BY <1>1, <1>3, <2>1, <3>1
    <3>2. CASE state[s] # "UNUSED"
      <4>1. pid[s] # Idle BY <1>0, <1>6, <3>2 DEF Table
      <4>2. \A t \in Slots \ {s} : pid[t] # pid[s] BY <1>0, <4>1 DEF Table
      <4> QED BY <1>1, <1>3, <2>1, <3>2, <4>2
    <3> QED BY <3>1, <3>2
  <2>3. current \in Slots /\ Idle \in Slots BY <1>0, Constants DEF TypeOK
  <2>4. OnProcessor' BY <1>2, <2>1 DEF OnProcessor
  <2>5. \A t \in Slots : Context(t)' = Context(t) BY <1>2 DEF Context
  <2>6. \A t \in Slots \ {current} :
          state'[t] \in {"READY", "SLEEPING"} => Context(t)'
    BY <1>3, <2>1, <2>5
  <2> QED BY <1>2, <1>3, <1>6, <2>1, <2>2, <2>3, <2>4, <2>6 DEF Follows, Ended, Slots, Idle
<1>8. StacksExclusive'
  <2> SUFFICES ASSUME orderly', single' PROVE StacksExclusive' BY DEF StacksExclusive
  <2>0. orderly /\ single /\ state[s] # "UNUSED" BY <1>1
  <2> DEFINE owners == {t \in Slots : state[t] # "UNUSED" /\ stack[t] # 0}
             after == {t \in Slots : state'[t] # "UNUSED" /\ stack'[t] # 0}
  <2>1. /\ \A t, u \in owners : stack[t] = stack[u] => t = u
        /\ heap = {stack[t] : t \in owners}
    BY <1>0, <2>0 DEF StacksExclusive
  <2>2. after = owners \ {s} BY <1>2, <1>3
  <2>3. heap \subseteq Stacks /\ 0 \notin heap BY <1>0, Constants DEF TypeOK
  <2>4. s \in owners \/ stack[s] = 0 BY <2>0
  <2> HIDE DEF owners
  <2>5. heap' = {stack[t] : t \in after}
    <3>1. CASE s \in owners BY <1>1, <2>1, <2>2, <3>1
    <3>2. CASE s \notin owners BY <1>1, <2>1, <2>2, <2>3, <2>4, <3>2
    <3> QED BY <3>1, <3>2
  <2>6. \A t, u \in after : stack[t] = stack[u] => t = u BY <2>1, <2>2
  <2> HIDE DEF after
  <2>7. after = {t \in Slots : state'[t] # "UNUSED" /\ stack'[t] # 0} BY DEF after
  <2> QED BY <1>2, <2>5, <2>6, <2>7 DEF StacksExclusive, Slots
<1> QED BY <1>4, <1>5, <1>7, <1>8 DEF SInv

LEMMA WakeKeeps ==
  ASSUME SInv, NEW w \in Slots, Wake(w)
  PROVE  SInv'
<1>0. TypeOK /\ Table /\ Follows /\ StacksExclusive BY DEF SInv
<1>1. /\ state[w] = "SLEEPING" /\ state' = [state EXCEPT ![w] = "READY"]
      /\ UNCHANGED <<pid, prio, wakeAt, stack, ctx, current, nextPid, count, heap,
                     ticks, cpu, killed, orderly, single>>
  BY DEF Wake
<1>2. /\ state' \in [Slots -> States]
      /\ \A t \in Slots : state'[t] = IF t = w THEN "READY" ELSE state[t]
  BY <1>0, <1>1 DEF TypeOK, States
<1>3. TypeOK' BY <1>0, <1>1, <1>2 DEF TypeOK
<1>4. current \in Slots /\ Idle \in Slots /\ w # current BY <1>0, <1>1, Constants DEF TypeOK, Table
<1>5. w # Idle => pid[w] # Idle BY <1>0, <1>1 DEF Table
<1>6. Table' BY <1>0, <1>1, <1>2, <1>4, <1>5 DEF Table, Slots, Idle
<1>7. Follows'
  <2>1. \A t \in Slots : state'[t] # "UNUSED" <=> state[t] # "UNUSED" BY <1>1, <1>2
  <2>2. OnProcessor' = OnProcessor BY <1>1 DEF OnProcessor
  <2>3. \A t \in Slots : Context(t)' = Context(t) BY <1>1 DEF Context
  <2> QED BY <1>0, <1>1, <1>2, <1>4, <2>1, <2>2, <2>3 DEF Follows, Ended, Slots, Idle
<1>8. StacksExclusive'
  <2>1. {t \in Slots : state'[t] # "UNUSED" /\ stack'[t] # 0}
          = {t \in Slots : state[t] # "UNUSED" /\ stack[t] # 0}
    BY <1>1, <1>2
  <2> QED BY <1>0, <1>1, <2>1 DEF StacksExclusive, Slots
<1> QED BY <1>3, <1>6, <1>7, <1>8 DEF SInv

(* Exit, Yield and Sleep are calls of schedule().                          *)
Calls == Running /\ (Exit \/ Yield \/ \E d \in Delays : Sleep(d))

LEMMA CallsEnter ==
  ASSUME SInv, Calls
  PROVE  \E entered, wake : Entered(entered, wake) /\ Schedule(entered, wake)
<1>0. /\ state \in [Slots -> States] /\ wakeAt \in [Slots -> Nat] /\ current \in Slots
      /\ count \in Int /\ ticks \in Nat
  BY SchedulerAssumption DEF SInv, TypeOK
<1>4. Running BY DEF Calls
<1>1. CASE Exit
  <2>1. Entered([state EXCEPT ![current] = "ZOMBIE"], wakeAt)
    BY <1>0, <1>1, <1>4 DEF Entered, Exit, States
  <2> QED BY <1>1, <2>1 DEF Exit
<1>2. CASE Yield
  <2>1. Entered(state, wakeAt) BY <1>0, <1>2, <1>4 DEF Entered, Yield
  <2> QED BY <1>2, <2>1 DEF Yield
<1>3. ASSUME NEW d \in Delays, Sleep(d)
      PROVE  \E entered, wake : Entered(entered, wake) /\ Schedule(entered, wake)
  <2>1. ticks + d \in Nat BY <1>0, SchedulerAssumption
  <2>2. Entered([state EXCEPT ![current] = "SLEEPING"], wakeAt')
    BY <1>0, <1>3, <1>4, <2>1 DEF Entered, Sleep, States
  <2> QED BY <1>3, <2>2 DEF Sleep
<1> QED BY <1>1, <1>2, <1>3 DEF Calls

LEMMA NextKeeps == SInv /\ [Next]_vars => SInv'
<1> SUFFICES ASSUME SInv, [Next]_vars PROVE SInv' OBVIOUS
<1>1. ASSUME NEW p \in Priorities, Create(p) PROVE SInv' BY <1>1, CreateKeeps
<1>2. CASE Calls BY <1>2, CallsEnter, ScheduleKeeps
<1>3. ASSUME NEW s \in Slots, Wake(s) PROVE SInv' BY <1>3, WakeKeeps
<1>4. ASSUME NEW n \in 0 .. MaxPid, Kill(n) PROVE SInv' BY <1>4, KillKeeps
<1>5. CASE Tick
  <2>1. TypeOK' BY <1>5, SchedulerAssumption DEF SInv, TypeOK, Tick
  <2> QED BY <1>5, <2>1
         DEF SInv, Tick, Table, Follows, OnProcessor, Context, StacksExclusive, Ended, Slots, Idle
<1>6. CASE UNCHANGED vars
  BY <1>6 DEF SInv, vars, TypeOK, Table, Follows, OnProcessor, Context, StacksExclusive,
              Ended, Slots, Idle
<1> QED BY <1>1, <1>2, <1>3, <1>4, <1>5, <1>6 DEF Next, Thread, Calls

THEOREM SchedulerInductive == Spec => []SInv
BY InitHolds, NextKeeps, PTL DEF Spec

(* Whatever callers do, one process is RUNNING.  While none kills itself   *)
(* or the idle process, the saved registers are each process's own, and    *)
(* the thread on the processor is the one that current_process points to,  *)
(* or the processor is halted by one that was to be resumed, or lost in    *)
(* one without a stack (schedule, context_switch, process_create).         *)
THEOREM CpuIsCurrentAlways == Spec => []CpuIsCurrent
<1>1. SInv => CpuIsCurrent
  BY DEF SInv, Table, Follows, OnProcessor, Context, CpuIsCurrent
<1> QED BY <1>1, SchedulerInductive, PTL

(* Every stack is one process's, and those allocated are those of          *)
(* processes, as long as no process kills itself, the idle process or one  *)
(* that is gone (process_create, process_kill).                            *)
THEOREM StacksExclusiveAlways == Spec => []StacksExclusive
<1>1. SInv => StacksExclusive BY DEF SInv
<1> QED BY <1>1, SchedulerInductive, PTL

-----------------------------------------------------------------------------
(* What the steps do that call no schedule().                              *)
LEMMA OthersStay ==
  ASSUME SInv, [Next]_vars, ~Calls
  PROVE  /\ current' = current /\ cpu' = cpu
         /\ \A s \in Slots : state[s] = "SLEEPING" =>
              state'[s] \in {"SLEEPING", "UNUSED"} \/ Wake(s)
<1>0. state \in [Slots -> States] BY DEF SInv, TypeOK
<1>1. ASSUME NEW p \in Priorities, Create(p)
      PROVE  /\ current' = current /\ cpu' = cpu
             /\ \A s \in Slots : state[s] = "SLEEPING" => state'[s] = "SLEEPING"
  <2>1. FreeSlots \subseteq Nat /\ FreeSlots # {} BY <1>1, Constants DEF FreeSlots, Create
  <2>2. Min(FreeSlots) \in Slots /\ state[Min(FreeSlots)] = "UNUSED"
    <3>1. Min(FreeSlots) \in FreeSlots BY <2>1, LeastExists
    <3> QED BY <3>1 DEF FreeSlots
  <2>3. state' = [state EXCEPT ![Min(FreeSlots)] = "READY"] /\ UNCHANGED <<current, cpu>>
    BY <1>1 DEF Create
  <2> QED BY <1>0, <2>2, <2>3
<1>2. ASSUME NEW w \in Slots, Wake(w)
      PROVE  /\ current' = current /\ cpu' = cpu
             /\ \A s \in Slots \ {w} : state[s] = "SLEEPING" => state'[s] = "SLEEPING"
  BY <1>0, <1>2 DEF Wake
<1>3. ASSUME NEW n \in 0 .. MaxPid, Kill(n)
      PROVE  /\ current' = current /\ cpu' = cpu
             /\ \A s \in Slots : state[s] = "SLEEPING" => state'[s] \in {"SLEEPING", "UNUSED"}
  BY <1>0, <1>3 DEF Kill
<1>4. CASE Tick BY <1>4 DEF Tick
<1>5. CASE UNCHANGED vars BY <1>5 DEF vars
<1> QED BY <1>1, <1>2, <1>3, <1>4, <1>5 DEF Next, Thread, Calls

(* The best of the ready processes is given the processor (schedule).      *)
THEOREM HighestReadyAlways == Spec => HighestReady
<1> DEFINE Best == current' # current =>
      \A s \in Slots \ {current} : state'[s] = "READY" => prio[s] <= prio[current']
<1>1. ASSUME SInv, NEW entered, NEW wake, Entered(entered, wake), Schedule(entered, wake)
      PROVE  Best
  <2> SUFFICES ASSUME current' # current, NEW s \in Slots \ {current}, state'[s] = "READY"
               PROVE  prio[s] <= prio[current']
    OBVIOUS
  <2> DEFINE st == Woken(entered, wake)
  <2>1. TypeOK /\ prio[Idle] = 0 /\ current \in Slots /\ Idle \in Slots
    BY <1>1, Constants DEF SInv, Table, TypeOK
  <2>2. SwitchTo(Chosen(st), st) BY <1>1, <2>1 DEF Schedule
  <2> DEFINE next == Chosen(st)
  <2>3. /\ next \in Slots /\ (Candidates(st) = {} => next = Idle)
        /\ Candidates(st) # {} => next \in Candidates(st)
                                   /\ \A t \in Candidates(st) : Preferred(next, t)
    BY <2>1, ChosenIs
  <2> HIDE DEF st, next
  <2>4. current' = next /\ st[s] = "READY" BY <2>2 DEF SwitchTo, next
  <2>5. prio[s] \in Int /\ prio[next] \in Int BY <2>1, <2>3 DEF TypeOK
  <2>6. prio[next] > -1
    <3>1. CASE Candidates(st) = {} BY <2>1, <2>3, <3>1
    <3>2. CASE Candidates(st) # {} BY <2>3, <3>2 DEF Candidates
    <3> QED BY <3>1, <3>2
  <2>7. CASE prio[s] > -1
    <3>1. s \in Candidates(st) BY <2>4, <2>7 DEF Candidates
    <3>2. Preferred(next, s) BY <2>3, <3>1
    <3> QED BY <2>4, <2>5, <3>2 DEF Preferred
  <2> QED BY <2>4, <2>5, <2>6, <2>7
<1>2. ASSUME SInv, [Next]_vars PROVE Best
  <2>1. CASE Calls
    BY <1>1, <1>2, <2>1, CallsEnter
  <2>2. CASE ~Calls
    BY <1>2, <2>2, OthersStay
  <2> QED BY <2>1, <2>2
<1> HIDE DEF Best
<1>3. Spec => [][Best]_vars BY <1>2, SchedulerInductive, PTL DEF Spec
<1> QED BY <1>3 DEF HighestReady, Best

(* Who sleeps sleeps on, and who was killed stays off the processor, while *)
(* none kills itself or the idle process (schedule, process_kill).         *)
THEOREM StaysOffAlways == Spec => StaysOff
<1> DEFINE Off ==
      /\ \A s \in Slots \ {Idle} :
           state[s] = "SLEEPING" /\ ticks < wakeAt[s] =>
             state'[s] \in {"SLEEPING", "UNUSED"} \/ Wake(s)
      /\ orderly /\ cpu' # cpu => cpu' \notin killed
<1>1. ASSUME SInv, NEW entered, NEW wake, Entered(entered, wake), Schedule(entered, wake)
      PROVE  Off
  <2> DEFINE st == Woken(entered, wake)
  <2>0. TypeOK /\ Table BY <1>1 DEF SInv
  <2>1. PICK next : Scheduled(entered, st, next) BY <1>1, <2>0, ScheduleDoes DEF Entered
  <2>2. ASSUME NEW s \in Slots \ {Idle}, state[s] = "SLEEPING", ticks < wakeAt[s]
        PROVE  state'[s] = "SLEEPING"
    <3>1. s # current BY <2>0, <2>2 DEF Table
    <3>2. entered[s] = "SLEEPING" /\ wake[s] = wakeAt[s] BY <1>1, <2>2, <3>1 DEF Entered
    <3>3. ~(wakeAt[s] <= ticks)
      <4>1. wakeAt[s] \in Nat /\ ticks \in Nat BY <2>0, SchedulerAssumption DEF TypeOK
      <4> QED BY <2>2, <4>1
    <3>4. st[s] = "SLEEPING" BY <3>2, <3>3 DEF Woken
    <3> HIDE DEF st
    <3>5. s # next /\ ~(next = s /\ st[s] = "RUNNING") BY <2>1, <3>1, <3>4 DEF Scheduled
    <3> QED BY <2>1, <3>1, <3>4, <3>5 DEF Scheduled
  <2>3. ASSUME orderly PROVE cpu' \notin killed
    <3>1. SInv' BY <1>1, ScheduleKeeps
    <3>2. orderly' /\ killed' = killed BY <1>1, <2>3 DEF Entered
    <3>3. /\ cpu' \in {pid'[current'], Nowhere, Halted} /\ current' \in Slots
          /\ state'[current'] # "UNUSED"
      BY <3>1, <3>2 DEF SInv, Follows, OnProcessor, TypeOK, Ended, Slots
    <3>4. Nowhere \notin killed /\ Halted \notin killed
      BY <2>0, Constants DEF TypeOK, Nowhere, Halted
    <3> QED BY <3>1, <3>2, <3>3, <3>4 DEF SInv, Follows, Slots
  <2> QED BY <2>2, <2>3
<1>2. ASSUME SInv, [Next]_vars PROVE Off
  <2>1. CASE Calls
    BY <1>1, <1>2, <2>1, CallsEnter
  <2>2. CASE ~Calls
    BY <1>2, <2>2, OthersStay
  <2> QED BY <2>1, <2>2
<1> HIDE DEF Off
<1>3. Spec => [][Off]_vars BY <1>2, SchedulerInductive, PTL DEF Spec
<1> QED BY <1>3 DEF StaysOff, Off
=============================================================================
