------------------------------- MODULE AtJobs -------------------------------
(***************************************************************************)
(* The at scheduler of shell/shell.c.  at_run_due goes over the table once *)
(* before each prompt, with the time at which it began; a job that it runs *)
(* may be an at command itself.  Time goes on meanwhile, and while a line  *)
(* is read.                                                                *)
(***************************************************************************)
EXTENDS Integers, FiniteSets

CONSTANTS
  MaxAtJobs,   \* MAX_AT_JOBS
  TickHz,      \* TICK_HZ
  TickWord,    \* 2^32: when_ticks is a uint32_t
  Delays,      \* seconds that at is given
  MaxJobs,     \* bound on the jobs that are made
  MaxTicks     \* bound on the time

ASSUME AtAssumption ==
  /\ {MaxAtJobs, TickHz, TickWord} \subseteq Nat \ {0}
  /\ Delays \subseteq Nat /\ MaxJobs \in Nat /\ MaxTicks \in Nat

VARIABLES
  atJobs,    \* at_jobs, by slot
  atTicks,   \* timer_get_ticks()
  atSlot,    \* the slot at_run_due has come to, MaxAtJobs while a line is read
  atNow,     \* now
  made,      \* each job made so far: due, when it is meant to run, and new,
             \* whether at_run_due has not begun since (not in the code)
  early,     \* some job ran before its time (not in the code)
  ended      \* how often each job ran (not in the code)

jvars == <<atJobs, atTicks, atSlot, atNow, made, early, ended>>

JobSlots == 0 .. MaxAtJobs - 1
NoJob == [used |-> FALSE, when |-> 0, id |-> 0, again |-> FALSE]
Ids == DOMAIN made
Reading == atSlot = MaxAtJobs

FreeJobSlots(jobs) == {i \in JobSlots : ~jobs[i].used}
FirstJobSlot(S) == CHOOSE i \in S : \A j \in S : i <= j

(* at_add, to jobs: a table that is full takes no more. *)
AtAdd(jobs, seconds, again) ==
  IF FreeJobSlots(jobs) = {} THEN
    /\ atJobs' = jobs
    /\ UNCHANGED made
  ELSE
    LET id == Cardinality(Ids) + 1 IN
    /\ atJobs' = [jobs EXCEPT ![FirstJobSlot(FreeJobSlots(jobs))] =
                    [used |-> TRUE, when |-> (atTicks + seconds * TickHz) % TickWord,
                     id |-> id, again |-> again]]
    /\ made' = [i \in Ids \cup {id} |->
                 IF i = id THEN [due |-> atTicks + seconds * TickHz, new |-> TRUE] ELSE made[i]]

AtInit ==
  /\ atJobs = [i \in JobSlots |-> NoJob]
  /\ atTicks = 0
  /\ atSlot = MaxAtJobs
  /\ atNow = 0
  /\ made = [i \in {} |-> 0]
  /\ early = FALSE
  /\ ended = [i \in 1 .. MaxJobs |-> 0]

AtTick ==
  /\ atTicks < MaxTicks
  /\ atTicks' = atTicks + 1
  /\ UNCHANGED <<atJobs, atSlot, atNow, made, early, ended>>

(* shell_run begins another turn, and at_run_due with it. *)
NextTurn ==
  /\ Reading
  /\ atSlot' = 0
  /\ atNow' = atTicks % TickWord
  /\ made' = [i \in Ids |-> [made[i] EXCEPT !.new = FALSE]]
  /\ UNCHANGED <<atJobs, atTicks, early, ended>>

(* The jobs that waiting ones will make, which the bound allows for. *)
Promised == Cardinality({i \in JobSlots : atJobs[i].again})

(* A line with an at command, which ends the turn. *)
CmdAt(seconds, again) ==
  /\ Reading
  /\ Cardinality(Ids) + Promised + (IF again THEN 2 ELSE 1) <= MaxJobs
  /\ AtAdd(atJobs, seconds, again)
  /\ UNCHANGED <<atTicks, atSlot, atNow, early, ended>>

(* Mutant: a job that is due this very tick waits. *)
DueAfter(job) == job.used /\ atNow > job.when

Due(job) == job.used /\ atNow >= job.when

PassOver ==
  /\ ~Reading /\ ~Due(atJobs[atSlot])
  /\ atSlot' = atSlot + 1
  /\ UNCHANGED <<atJobs, atTicks, atNow, made, early, ended>>

(* The slot is given back before the command runs, so that a job that is   *)
(* an at command can have it.                                              *)
RunJob ==
  LET job == atJobs[atSlot]
      rest == [atJobs EXCEPT ![atSlot] = NoJob]
  IN  /\ ~Reading /\ Due(job)
      /\ early' = (early \/ atTicks < made[job.id].due)
      /\ ended' = [ended EXCEPT ![job.id] = @ + 1]
      /\ IF job.again THEN \E seconds \in Delays : AtAdd(rest, seconds, FALSE)
                      ELSE atJobs' = rest /\ UNCHANGED made
      /\ atSlot' = atSlot + 1
      /\ UNCHANGED <<atTicks, atNow>>

AtNext ==
  \/ AtTick \/ NextTurn \/ PassOver \/ RunJob
  \/ \E seconds \in Delays, again \in BOOLEAN : CmdAt(seconds, again)

AtSpec == AtInit /\ [][AtNext]_jvars

-----------------------------------------------------------------------------
AtTypeOK ==
  /\ \A i \in JobSlots : atJobs[i].used \in BOOLEAN /\ atJobs[i].when \in 0 .. TickWord - 1
  /\ atTicks \in 0 .. MaxTicks
  /\ atSlot \in 0 .. MaxAtJobs
  /\ Ids \subseteq 1 .. MaxJobs

Waiting == {atJobs[i].id : i \in {j \in JobSlots : atJobs[j].used}}

(* Every job that found room runs once, not before its time as long as the *)
(* time fits its field, and at the first prompt after it: when a line is   *)
(* read none of those made before the pass began was due then.             *)
JobsOnTime ==
  /\ AtTypeOK
  /\ \A id \in Ids : ended[id] = IF id \in Waiting THEN 0 ELSE 1
  /\ (\A id \in Ids : made[id].due < TickWord) => ~early
  /\ Reading => \A i \in JobSlots :
       atJobs[i].used /\ ~made[atJobs[i].id].new => atJobs[i].when > atNow
=============================================================================
