------------------------------ MODULE Scheduler -----------------------------
(***************************************************************************)
(* The job scheduler of dvsim, util/dvsim/Scheduler.py: builds, test runs  *)
(* and coverage jobs with dependencies, dispatched into a limited number   *)
(* of slots, polled, and killed on SIGINT.                                 *)
(*                                                                         *)
(* Targets (build, run, cov_merge, ...) are numbered in the order of       *)
(* _scheduled. The scheduler is one thread; pc is where it is in run() and *)
(* the methods run() calls, one step per iteration of each loop. Around it *)
(* jobs finish in any order with any outcome, and SIGINT arrives.          *)
(***************************************************************************)
EXTENDS Integers, Sequences, Functions, FiniteSets, FiniteSetsExt

CONSTANTS
  Plans,            \* the sets of jobs considered, see IsPlan
  NTargets,         \* the number of targets
  Weight,           \* the weight of the items of a target
  MaxPoll,          \* max_poll of the launcher class
  Outcomes          \* how a job may end, as poll() reports it

Targets == 1..NTargets
Final == {"P", "F", "K"}

\* items: in the order they are given, each once; target, cfg: the target and the sim_cfg of
\* an item; deps: its dependencies, scheduled or not; needs_all:
\* needs_all_dependencies_passing; max_parallel of the launcher class;
\* launch_errors: the items whose launch() may raise LauncherError.
IsPlan(p) ==
  /\ p.items \in Seq(Range(p.items)) /\ IsInjective(p.items)
  /\ p.target \in [Range(p.items) -> Targets]
  /\ \A i \in Range(p.items) : \A d \in p.deps[i] \cap Range(p.items) : p.target[d] < p.target[i]
  /\ p.max_parallel \in Nat \ {0}

ASSUME PlansAssumption == \A p \in Plans : IsPlan(p)
ASSUME BoundsAssumption == NTargets \in Nat \ {0} /\ MaxPoll \in Nat \ {0}
ASSUME OutcomesAssumption == Outcomes \subseteq Final /\ Outcomes # {}

VARIABLES
  plan,             \* which of Plans this is
  pc,
  jobs,             \* the dictionaries of the scheduler, see JobsInit
  last_target, last_item,   \* last_target_polled_idx, last_item_polled_idx (+ 1)
  changed,          \* what _poll returned
  target,           \* the target _poll or _dispatch is at
  to_dispatch,      \* the items _dispatch is about to launch
  frame,            \* the other locals of _poll and _dispatch
  stack, ret,       \* items of _cancel_successors, and where it returns to
  stop              \* stop_now

vars == <<plan, pc, jobs, last_target, last_item, changed, target, to_dispatch, frame,
          stack, ret, stop>>

Items == plan.items
ItemSet == Range(Items)
Target == plan.target
Cfg == plan.cfg
Cfgs == {Cfg[i] : i \in ItemSet}
Deps == plan.deps

\* The members of the list that are in S, in their order
Keep(list, S) ==
  LET kept[n \in 0..Len(list)] ==
        IF n = 0 THEN <<>>
        ELSE IF list[n] \in S THEN Append(kept[n - 1], list[n]) ELSE kept[n - 1]
  IN kept[Len(list)]

\* pop(): the item it takes and the list it leaves
Last(list) == list[Len(list)]
Front(list) == [n \in 1..Len(list) - 1 |-> list[n]]

\* sum_dict_lists
TotalLen(lists) == MapThenSumSet(LAMBDA t : Len(lists[t]), Targets)

\* _scheduled[target][cfg], the empty list for an absent key; _queued[target],
\* _running[target]; _passed, _failed and _killed[target] by status;
\* item_to_status, "-" for an absent key.
JobsInit ==
  [scheduled |-> [t \in Targets |-> [c \in Cfgs |->
                    Keep(Items, {i \in ItemSet : Target[i] = t /\ Cfg[i] = c})]],
   queued |-> [t \in Targets |-> <<>>],
   running |-> [t \in Targets |-> <<>>],
   finished |-> [t \in Targets |-> [s \in Final |-> {}]],
   status |-> [i \in ItemSet |-> "-"]]

NoFrame == [method |-> "run"]
NoTarget == 0

Init ==
  /\ plan \in Plans
  /\ pc = "start"
  /\ jobs = JobsInit
  /\ last_target = 0
  /\ last_item = [t \in Targets |-> 0]
  /\ changed = FALSE
  /\ target = NoTarget /\ to_dispatch = <<>> /\ frame = NoFrame
  /\ stack = <<>> /\ ret = "loop"
  /\ stop = FALSE

-----------------------------------------------------------------------------

\* _remove_from_scheduled, of every item in S: the key of a cfg goes with its
\* last item.
Unschedule(sched, S) ==
  [t \in Targets |-> [c \in Cfgs |-> Keep(sched[t][c], ItemSet \ S)]]

\* _ok_to_enqueue
OkToEnqueue(J, i) == \A d \in Deps[i] \cap ItemSet : J.status[d] \in Final

\* Seeded fault: a killed dependency does not hold the job back.
OkToRunAfterKill(J, i) == \A d \in Deps[i] \cap ItemSet : J.status[d] # "F"

\* _ok_to_run
OkToRun(J, i) ==
  LET passed == {d \in Deps[i] \cap ItemSet : J.status[d] = "P"}
  IN IF plan.needs_all[i] THEN passed = Deps[i] \cap ItemSet ELSE passed # {}

\* _get_next_target
HasNext(i) == Target[i] < NTargets

\* _get_successors(item) raises: the cfg has no key any more, or an item of the
\* next target has no dependencies.
Raises(J, i) ==
  /\ HasNext(i)
  /\ LET next == J.scheduled[Target[i] + 1]
     IN next[Cfg[i]] = <<>> \/ \E n \in Range(next[Cfg[i]]) : Deps[n] = {}

\* Seeded fault: only a job that passed has its successors queued.
SuccessorsIfPassed(J, i) ==
  IF ~HasNext(i) \/ J.status[i] # "P" THEN <<>>
  ELSE Keep(J.scheduled[Target[i] + 1][Cfg[i]],
            {n \in ItemSet : i \in Deps[n] /\ OkToEnqueue(J, n)})

\* _get_successors(item)
Successors(J, i) ==
  IF ~HasNext(i) THEN <<>>
  ELSE Keep(J.scheduled[Target[i] + 1][Cfg[i]],
            {n \in ItemSet : i \in Deps[n] /\ OkToEnqueue(J, n)})

\* Seeded fault: the queued items stay in _scheduled.
EnqueueOnly(J, list) ==
  [J EXCEPT !.status = [i \in ItemSet |-> IF i \in Range(list) THEN "Q" ELSE J.status[i]],
            !.queued = [t \in Targets |->
                          J.queued[t] \o Keep(list, {i \in ItemSet : Target[i] = t})]]

\* _enqueue_successors, of the items found
Enqueue(J, list) ==
  [J EXCEPT !.status = [i \in ItemSet |-> IF i \in Range(list) THEN "Q" ELSE J.status[i]],
            !.queued = [t \in Targets |->
                          J.queued[t] \o Keep(list, {i \in ItemSet : Target[i] = t})],
            !.scheduled = Unschedule(J.scheduled, Range(list))]

\* The item ends with status s and leaves every list it is in: the ends of
\* _poll, _cancel_item and _kill_item.
Finish(J, i, s) ==
  [J EXCEPT !.status[i] = s,
            !.finished[Target[i]][s] = @ \cup {i},
            !.queued[Target[i]] = Keep(@, ItemSet \ {i}),
            !.running[Target[i]] = Keep(@, ItemSet \ {i}),
            !.scheduled = Unschedule(J.scheduled, {i})]

\* round() of n / d, halves to even
Round(n, d) ==
  LET q == n \div d
      r == n % d
  IN IF 2 * r < d \/ (2 * r = d /\ q % 2 = 0) THEN q ELSE q + 1

-----------------------------------------------------------------------------
\* The locals of _poll and _dispatch, and the round robin
locals == <<target, to_dispatch, frame>>
last == <<last_target, last_item>>

\* run: the first target is queued, its cfgs in any order. Its items depend on no
\* scheduled item, see IsPlan, so all of a cfg are taken.
Start ==
  /\ pc = "start"
  /\ \/ \E c \in Cfgs :
          LET list == jobs.scheduled[1][c]
          IN /\ list # <<>>
             /\ jobs' = Enqueue(jobs, Keep(list, {i \in ItemSet : OkToEnqueue(jobs, i)}))
             /\ UNCHANGED pc
     \/ (\A c \in Cfgs : jobs.scheduled[1][c] = <<>>) /\ pc' = "loop" /\ UNCHANGED jobs
  /\ UNCHANGED <<plan, last, changed, locals, stack, ret, stop>>

\* run: the head of the loop
Loop ==
  /\ pc = "loop"
  /\ pc' = IF stop THEN "kill" ELSE "poll"
  /\ UNCHANGED <<plan, jobs, last, changed, locals, stack, ret, stop>>

\* _poll
Poll ==
  /\ pc = "poll"
  /\ LET running == TotalLen(jobs.running)
         max_poll == IF running < MaxPoll THEN running ELSE MaxPoll
     IN IF max_poll = 0
        THEN pc' = "dispatch" /\ changed' = TRUE /\ UNCHANGED frame
        ELSE pc' = "poll_target" /\ changed' = FALSE /\ frame' = [max_poll |-> max_poll]
  /\ UNCHANGED <<plan, jobs, last, target, to_dispatch, stack, ret, stop>>

\* get_next_item, of the targets
NextTarget == IF last_target = NTargets THEN 1 ELSE last_target + 1

\* _poll: the outer loop takes the next target in turn. When it ends, the timer
\* may also say that the status is due.
PollTarget ==
  /\ pc = "poll_target"
  /\ IF frame.max_poll = 0
     THEN /\ pc' = "dispatch"
          /\ changed' \in {changed, TRUE}
          /\ target' = NoTarget /\ frame' = NoFrame
          /\ UNCHANGED last_target
     ELSE /\ pc' = "poll_item"
          /\ last_target' = NextTarget /\ target' = NextTarget
          /\ UNCHANGED <<changed, frame>>
  /\ UNCHANGED <<plan, jobs, last_item, to_dispatch, stack, ret, stop>>

\* get_next_item
NextPolled(t) == IF last_item[t] >= Len(jobs.running[t]) THEN 1 ELSE last_item[t] + 1

\* _poll: the inner loop asks the next running item of the target in turn; a
\* finished one is filed by its status and its successors are queued.
PollItem(s) ==
  /\ pc = "poll_item"
  /\ frame.max_poll > 0 /\ jobs.running[target] # <<>>
  /\ LET n == NextPolled(target)
         i == jobs.running[target][n]
     IN IF s = "D"
        THEN last_item' = [last_item EXCEPT ![target] = n] /\ UNCHANGED <<jobs, changed, pc>>
        ELSE /\ last_item' = [last_item EXCEPT ![target] = n - 1]
             /\ changed' = TRUE
             /\ \E J \in {Finish(jobs, i, s)} :
                  IF Raises(J, i) THEN pc' = "error" /\ jobs' = J
                  ELSE jobs' = Enqueue(J, Successors(J, i)) /\ UNCHANGED pc
  /\ frame' = [frame EXCEPT !.max_poll = @ - 1]
  /\ UNCHANGED <<plan, last_target, target, to_dispatch, stack, ret, stop>>

PollItemsEnd ==
  /\ pc = "poll_item"
  /\ frame.max_poll = 0 \/ jobs.running[target] = <<>>
  /\ pc' = "poll_target"
  /\ UNCHANGED <<plan, jobs, last, changed, locals, stack, ret, stop>>

\* _dispatch: the free slots and the total weight
Dispatch ==
  /\ pc = "dispatch"
  /\ LET slots == plan.max_parallel - TotalLen(jobs.running)
         total == MapThenSumSet(LAMBDA t : Weight[t], {t \in Targets : jobs.queued[t] # <<>>})
     IN IF slots <= 0 THEN pc' = "check" /\ UNCHANGED <<target, frame>>
        ELSE /\ pc' = "dispatch_target" /\ target' = 1
             /\ frame' = [slots |-> slots, total_weight |-> total, sum_weight |-> 0,
                          slots_filled |-> 0, target_slots |-> 0]
  /\ UNCHANGED <<plan, jobs, last, changed, to_dispatch, stack, ret, stop>>

\* _dispatch: the slots of one target
TargetSlots(sum) == Round(frame.slots * sum, frame.total_weight) - frame.slots_filled

DispatchTarget ==
  /\ pc = "dispatch_target"
  /\ IF target > NTargets THEN pc' = "check" /\ target' = NoTarget /\ frame' = NoFrame
     ELSE IF jobs.queued[target] = <<>>
     THEN target' = target + 1 /\ UNCHANGED <<pc, frame>>
     ELSE LET sum == frame.sum_weight + Weight[target]
              new == TargetSlots(sum)
          IN IF new <= 0
             THEN /\ target' = target + 1
                  /\ frame' = [frame EXCEPT !.sum_weight = sum]
                  /\ UNCHANGED pc
             ELSE /\ pc' = "dispatch_item"
                  /\ frame' = [frame EXCEPT !.sum_weight = sum, !.target_slots = new,
                                            !.slots_filled = @ + new]
                  /\ UNCHANGED target
  /\ UNCHANGED <<plan, jobs, last, changed, to_dispatch, stack, ret, stop>>

\* _dispatch: the head of the queue is taken to be run, or is cancelled and its
\* successors are queued.
DispatchItem ==
  /\ pc = "dispatch_item"
  /\ jobs.queued[target] # <<>> /\ frame.target_slots > 0
  /\ LET i == Head(jobs.queued[target])
         K == Finish(jobs, i, "K")
     IN IF OkToRun(jobs, i)
        THEN /\ jobs' = [jobs EXCEPT !.queued[target] = Tail(@)]
             /\ to_dispatch' = Append(to_dispatch, i)
             /\ frame' = [frame EXCEPT !.target_slots = @ - 1]
             /\ UNCHANGED pc
        ELSE /\ IF Raises(K, i) THEN pc' = "error" /\ jobs' = K
                ELSE jobs' = Enqueue(K, Successors(K, i)) /\ UNCHANGED pc
             /\ UNCHANGED <<to_dispatch, frame>>
  /\ UNCHANGED <<plan, last, changed, target, stack, ret, stop>>

DispatchItemsEnd ==
  /\ pc = "dispatch_item"
  /\ jobs.queued[target] = <<>> \/ frame.target_slots = 0
  /\ pc' = "launch"
  /\ UNCHANGED <<plan, jobs, last, changed, locals, stack, ret, stop>>

\* The end of _kill_item and of _cancel_item: the item is killed, and
\* _cancel_successors starts.
KillThenCancel(J, i, back) ==
  LET K == Finish(J, i, "K")
  IN /\ jobs' = K
     /\ ret' = back
     /\ IF Raises(K, i) THEN pc' = "error" /\ UNCHANGED stack
        ELSE pc' = "cancel" /\ stack' = Successors(K, i)

\* _dispatch: the items taken are launched in turn; launch() may raise
\* LauncherError, and then the item is killed.
Launched(i) ==
  [jobs EXCEPT !.running[Target[i]] = Append(@, i), !.status[i] = "D"]

Launch(fails) ==
  /\ pc = "launch"
  /\ to_dispatch # <<>>
  /\ LET i == Head(to_dispatch)
     IN \/ /\ fails /\ i \in plan.launch_errors
           /\ KillThenCancel(Launched(i), i, "launch")
        \/ /\ ~fails
           /\ jobs' = Launched(i) /\ UNCHANGED <<pc, stack, ret>>
  /\ to_dispatch' = Tail(to_dispatch)
  /\ UNCHANGED <<plan, last, changed, target, frame, stop>>

LaunchEnd ==
  /\ pc = "launch"
  /\ to_dispatch = <<>>
  /\ pc' = "dispatch_target"
  /\ target' = target + 1
  /\ frame' = [frame EXCEPT !.target_slots = 0]
  /\ UNCHANGED <<plan, jobs, last, changed, to_dispatch, stack, ret, stop>>

\* _cancel_successors: the last item of the list is cancelled, and replaced by
\* its own successors.
Cancel ==
  /\ pc = "cancel"
  /\ IF stack = <<>> THEN pc' = ret /\ UNCHANGED <<jobs, stack>>
     ELSE LET i == Last(stack)
              K == Finish(jobs, i, "K")
          IN /\ jobs' = K
             /\ IF Raises(K, i) THEN pc' = "error" /\ UNCHANGED stack
                ELSE stack' = Front(stack) \o Successors(K, i) /\ UNCHANGED pc
  /\ UNCHANGED <<plan, last, changed, locals, ret, stop>>

\* The head of the first list that is not empty is killed.
KillFirst(lists) ==
  \E t \in Targets :
    /\ lists[t] # <<>> /\ \A u \in 1..t - 1 : lists[u] = <<>>
    /\ KillThenCancel(jobs, Head(lists[t]), "kill")

AllEmpty(lists) == \A t \in Targets : lists[t] = <<>>

\* Seeded fault: the waiting items are cancelled, the running ones go on.
KillQueued ==
  /\ pc = "kill"
  /\ \/ KillFirst(jobs.queued)
     \/ AllEmpty(jobs.queued) /\ pc' = "poll" /\ UNCHANGED <<jobs, stack, ret>>
  /\ UNCHANGED <<plan, last, changed, locals, stop>>

\* _kill: the queued items are cancelled, then the running ones are killed.
Kill ==
  /\ pc = "kill"
  /\ \/ KillFirst(jobs.queued)
     \/ AllEmpty(jobs.queued) /\ KillFirst(jobs.running)
     \/ /\ AllEmpty(jobs.queued) /\ AllEmpty(jobs.running)
        /\ pc' = "poll" /\ UNCHANGED <<jobs, stack, ret>>
  /\ UNCHANGED <<plan, last, changed, locals, stop>>

\* run: _check_if_done when something changed
AllDone == \A t \in Targets :
  Cardinality(UNION {jobs.finished[t][s] : s \in Final})
    = Cardinality({i \in ItemSet : Target[i] = t})

Check ==
  /\ pc = "check"
  /\ pc' = IF changed /\ AllDone THEN "done" ELSE "loop"
  /\ UNCHANGED <<plan, jobs, last, changed, locals, stack, ret, stop>>

\* on_sigint
Sigint ==
  /\ ~stop
  /\ pc \notin {"done", "error"}
  /\ stop' = TRUE
  /\ UNCHANGED <<plan, pc, jobs, last, changed, locals, stack, ret>>

\* The program after run() returned
Returned == pc = "done" /\ UNCHANGED vars

Step ==
  \/ Start \/ Loop \/ Poll \/ PollTarget
  \/ \E s \in Outcomes \cup {"D"} : PollItem(s)
  \/ PollItemsEnd
  \/ Dispatch \/ DispatchTarget \/ DispatchItem \/ DispatchItemsEnd
  \/ \E fails \in BOOLEAN : Launch(fails)
  \/ LaunchEnd \/ Cancel \/ Kill \/ Check

Next == Step \/ Sigint \/ Returned

\* The thread runs on; jobs may hang.
Spec == Init /\ [][Next]_vars /\ WF_vars(Step)

\* No job hangs: polling goes on only while some polled job is found to have
\* ended.
NoJobHangs == SF_vars(\E s \in Outcomes : PollItem(s))

-----------------------------------------------------------------------------

\* "The sets are disjoint and their union equals the keys of
\* self.item_to_status", and each item is in the one its status names: a job is
\* scheduled, queued, running or filed under how it ended, never in two places
\* and never lost. _dispatch holds the ones it is about to launch.
Partition ==
  \A i \in ItemSet :
    LET t == Target[i]
        s == jobs.status[i]
        Count(list) == Cardinality({n \in DOMAIN list : list[n] = i})
    IN /\ Count(jobs.scheduled[t][Cfg[i]]) = IF s = "-" THEN 1 ELSE 0
       /\ Count(jobs.queued[t]) + Count(to_dispatch) = IF s = "Q" THEN 1 ELSE 0
       /\ Count(jobs.running[t]) = IF s = "D" THEN 1 ELSE 0
       /\ \A f \in Final : i \in jobs.finished[t][f] <=> s = f

\* A job that was launched had its dependencies: all of them ended, and passed
\* as needs_all_dependencies_passing asks. It stays true however long the job
\* waited in the queue, was polled, or was killed.
DepsRespected ==
  \A i \in ItemSet : jobs.status[i] \in {"D", "P", "F"} =>
    LET deps == Deps[i] \cap ItemSet
        passed == {d \in deps : jobs.status[d] = "P"}
    IN /\ \A d \in deps : jobs.status[d] \in Final
       /\ IF plan.needs_all[i] THEN passed = deps ELSE passed # {}

\* Once a job is filed as passed, failed or killed it stays what it is: no late
\* poll, SIGINT, launch error or cancelled dependency files it again.
Filed(J, K) == \A i \in ItemSet : J.status[i] \in Final => K.status[i] = J.status[i]
FiledForGood == [][Filed(jobs, jobs')]_vars

\* run() returns only when every job has a result.
ReturnsComplete == pc = "done" => \A i \in ItemSet : jobs.status[i] \in Final

\* When no job hangs run() returns, whatever passes, fails or is killed, and
\* then every job has a result: the round robin over targets and over the items
\* of a target polls every running job, and every job gets queued or cancelled.
EveryJobEnds == NoJobHangs => <>(pc = "done" /\ \A i \in ItemSet : jobs.status[i] \in Final)

\* After SIGINT run() returns, also when the jobs hang: _kill leaves no job
\* behind, running or waiting.
InterruptEnds == stop ~> pc = "done"
=============================================================================
