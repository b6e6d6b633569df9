--------------------------- MODULE SchedulerProofs --------------------------
(***************************************************************************)
(* Partition and DepsRespected hold of the dvsim scheduler for every plan  *)
(* of jobs, every number of targets and slots and every order of outcomes, *)
(* launch errors and SIGINT.                                               *)
(*                                                                         *)
(* Each list of the scheduler enumerates, without repetition, the items    *)
(* that have one target and one status (Placed); an item that was queued   *)
(* had its dependencies ended, and one that was taken to be launched had   *)
(* them passed (Ready). The list that _cancel_successors works through     *)
(* needs an invariant of its own (Stacked): its items are still scheduled  *)
(* and have all their dependencies ended, which is why none is entered     *)
(* twice.                                                                  *)
(***************************************************************************)
EXTENDS Scheduler, FiniteSetTheorems, WellFoundedInduction, TLAPS

\* The list has every member of A, and each one once.
Lists(list, A) ==
  /\ list \in Seq(A)
  /\ \A m, n \in 1..Len(list) : list[m] = list[n] => m = n
  /\ \A x \in A : \E n \in 1..Len(list) : list[n] = x

Statuses == {"-", "Q", "D"} \cup Final

JobsType ==
  [scheduled : [Targets -> [Cfgs -> Seq(ItemSet)]],
   queued : [Targets -> Seq(ItemSet)],
   running : [Targets -> Seq(ItemSet)],
   finished : [Targets -> [Final -> SUBSET ItemSet]],
   status : [ItemSet -> Statuses]]

\* The items of a target that have a status
Having(J, t, s) == {i \in ItemSet : Target[i] = t /\ J.status[i] = s}

\* Every list holds the items it is for, H being the ones taken to be launched.
Placed(J, H) ==
  /\ J \in JobsType
  /\ \A i \in H : i \in ItemSet /\ J.status[i] = "Q"
  /\ \A t \in Targets, c \in Cfgs :
       Lists(J.scheduled[t][c], {i \in Having(J, t, "-") : Cfg[i] = c})
  /\ \A t \in Targets : Lists(J.queued[t], Having(J, t, "Q") \ H)
  /\ \A t \in Targets : Lists(J.running[t], Having(J, t, "D"))
  /\ \A t \in Targets, f \in Final : J.finished[t][f] = Having(J, t, f)

Ready(J, H) ==
  \A i \in ItemSet :
    /\ J.status[i] \in {"Q", "D", "P", "F"} => OkToEnqueue(J, i)
    /\ J.status[i] \in {"D", "P", "F"} \/ i \in H => OkToRun(J, i)

Good(J, H) == Placed(J, H) /\ Ready(J, H)

\* What _cancel_successors still has to cancel is scheduled, with its
\* dependencies ended, and listed once.
Stacked(J, list) ==
  \E A : /\ Lists(list, A)
        /\ \A n \in A : n \in ItemSet /\ J.status[n] = "-" /\ OkToEnqueue(J, n)

\* The control state the other parts depend on
Control ==
  /\ plan \in Plans
  /\ last_target \in 0..NTargets
  /\ last_item \in [Targets -> Nat]
  /\ target \in Nat
  /\ pc \in {"poll_item", "dispatch_item"} => target \in Targets
  /\ pc \in {"dispatch_target", "launch"} \/ (pc = "cancel" /\ ret = "launch") => target # 0
  /\ pc = "cancel" => ret \in {"launch", "kill"}

Held == Range(to_dispatch)

Inv ==
  /\ Control
  /\ Lists(to_dispatch, Held)
  /\ Good(jobs, Held)
  /\ pc = "cancel" => Stacked(jobs, stack)
  /\ ReturnsComplete

-----------------------------------------------------------------------------

(* Induction over the naturals, stated of a set: this form needs no operator
   as a parameter. *)
LEMMA NatSetInduction ==
  ASSUME NEW S, 0 \in S, \A n \in Nat : n \in S => n + 1 \in S
  PROVE  Nat \subseteq S
<1> DEFINE T == Nat \ S
           R == OpToRel(<, Nat)
<1> SUFFICES ASSUME T # {} PROVE FALSE
  OBVIOUS
<1>1. IsWellFoundedOn(R, Nat)
  BY NatLessThanWellFounded, Zenon
<1> HIDE DEF R
<1>2. T \subseteq Nat
  OBVIOUS
<1> HIDE DEF T
<1>3. PICK x \in T : \A y \in T : ~(<<y, x>> \in R)
  BY <1>1, <1>2, WFMin, Zenon
<1>4. x \in Nat /\ x # 0
  BY DEF T
<1>5. x - 1 \in T
  BY <1>4 DEF T
<1>6. \A a, b \in Nat : a < b => <<a, b>> \in R
  BY DEF R, OpToRel
<1>7. <<x - 1, x>> \in R
  BY <1>4, <1>6
<1> QED  BY <1>3, <1>5, <1>7

(* The function Keep is defined by obeys its recursive equation. *)
LEMMA KeepEquation ==
  ASSUME NEW list, Len(list) \in Nat, NEW B
  PROVE  \E kept :
           /\ \A n \in 0..Len(list) :
                kept[n] = IF n = 0 THEN <<>>
                          ELSE IF list[n] \in B THEN Append(kept[n - 1], list[n]) ELSE kept[n - 1]
           /\ Keep(list, B) = kept[Len(list)]
<1> DEFINE Body(f, n) == IF n = 0 THEN <<>>
                         ELSE IF list[n] \in B THEN Append(f[n - 1], list[n]) ELSE f[n - 1]
           Is(f, k) == f = [n \in 0..k |-> Body(f, n)]
           S == {k \in Nat : \E f : Is(f, k)}
<1>1. 0 \in S
  <2> DEFINE f == [n \in 0..0 |-> <<>>]
  <2>1. Is(f, 0)
    OBVIOUS
  <2> QED  BY <2>1, Zenon
<1>2. ASSUME NEW k \in Nat, k \in S PROVE k + 1 \in S
  <2>1. PICK f : Is(f, k)
    BY <1>2, Zenon
  <2> DEFINE g == [n \in 0..k + 1 |-> IF n = k + 1 THEN Body(f, n) ELSE f[n]]
  <2>2. \A n \in 0..k + 1 : g[n] = Body(g, n)
    <3> SUFFICES ASSUME NEW n \in 0..k + 1 PROVE g[n] = Body(g, n)
      BY Zenon
    <3>1. n # 0 => g[n - 1] = f[n - 1]
      OBVIOUS
    <3>2. CASE n = k + 1
      BY <3>1, <3>2
    <3>3. CASE n # k + 1
      <4>1. f[n] = Body(f, n)
        <5> HIDE DEF Body
        <5>1. n \in 0..k
          BY <3>3
        <5> QED  BY <2>1, <5>1
      <4> QED  BY <3>1, <3>3, <4>1
    <3> QED  BY <3>2, <3>3
  <2>3. Is(g, k + 1)
    <3> HIDE DEF Body
    <3> QED  BY <2>2
  <2> HIDE DEF g, Is
  <2> QED  BY <2>3
<1>3. Len(list) \in S
  <2> HIDE DEF S
  <2>1. Nat \subseteq S
    BY <1>1, <1>2, NatSetInduction
  <2> QED  BY <2>1
<1> DEFINE kept == CHOOSE f : Is(f, Len(list))
<1>4. Is(kept, Len(list))
  BY <1>3, Zenon
<1>5. Keep(list, B) = kept[Len(list)]
  BY Zenon DEF Keep
<1>6. \A n \in 0..Len(list) : kept[n] = Body(kept, n)
  <2> HIDE DEF kept, Body
  <2> QED  BY <1>4
<1> HIDE DEF kept
<1> QED  BY <1>5, <1>6

(* An item that is not in the list is appended. *)
LEMMA AppendLists ==
  ASSUME NEW list, NEW A, Lists(list, A), NEW x, x \notin A
  PROVE  Lists(Append(list, x), A \cup {x})
<1> DEFINE r == Append(list, x)
<1>1. /\ list \in Seq(A) /\ Len(list) \in Nat
      /\ \A m, n \in 1..Len(list) : list[m] = list[n] => m = n
  BY DEF Lists
<1>2. r \in Seq(A \cup {x}) /\ Len(r) = Len(list) + 1 /\ r[Len(list) + 1] = x
  BY <1>1
<1>3. \A n \in 1..Len(list) : r[n] = list[n] /\ list[n] \in A
  BY <1>1
<1> HIDE DEF r
<1>4. \A m, n \in 1..Len(r) : r[m] = r[n] => m = n
  BY <1>1, <1>2, <1>3
<1>5. ASSUME NEW y \in A \cup {x} PROVE \E n \in 1..Len(r) : r[n] = y
  <2>1. CASE y \in A
    <3>1. PICK n \in 1..Len(list) : list[n] = y
      BY <2>1 DEF Lists
    <3>2. n \in 1..Len(r) /\ r[n] = y
      BY <1>1, <1>2, <1>3, <3>1
    <3> QED  BY <3>2
  <2>2. CASE y = x
    BY <1>1, <1>2, <2>2
  <2> QED  BY <2>1, <2>2
<1> QED  BY <1>2, <1>4, <1>5, Zenon DEF Lists, r

(* Keep takes what is in the set, each item once. *)
LEMMA KeepLists ==
  ASSUME NEW list, NEW A, Lists(list, A), NEW B
  PROVE  Lists(Keep(list, B), A \cap B)
<1>1. /\ list \in Seq(A) /\ Len(list) \in Nat
      /\ \A n \in 1..Len(list) : list[n] \in A
      /\ \A m, n \in 1..Len(list) : list[m] = list[n] => m = n
  BY DEF Lists
<1>2. PICK kept :
        /\ \A n \in 0..Len(list) :
             kept[n] = IF n = 0 THEN <<>>
                       ELSE IF list[n] \in B THEN Append(kept[n - 1], list[n]) ELSE kept[n - 1]
        /\ Keep(list, B) = kept[Len(list)]
  BY <1>1, KeepEquation
<1> DEFINE Upto(n) == {list[m] : m \in 1..n} \cap B
           S == {n \in Nat : n <= Len(list) => Lists(kept[n], Upto(n))}
<1>3. 0 \in S
  <2>1. Upto(0) = {} /\ kept[0] = <<>>
    BY <1>1, <1>2
  <2>2. Lists(<<>>, {})
    BY DEF Lists
  <2> QED  BY <2>1, <2>2, Zenon
<1>4. ASSUME NEW n \in Nat, n \in S PROVE n + 1 \in S
  <2> SUFFICES ASSUME n + 1 <= Len(list) PROVE Lists(kept[n + 1], Upto(n + 1))
    OBVIOUS
  <2>1. Lists(kept[n], Upto(n))
    BY <1>1, <1>4
  <2>2. kept[n + 1] = IF list[n + 1] \in B THEN Append(kept[n], list[n + 1]) ELSE kept[n]
    BY <1>1, <1>2
  <2>3. list[n + 1] \notin {list[m] : m \in 1..n}
    BY <1>1
  <2>4. {list[m] : m \in 1..n + 1} = {list[m] : m \in 1..n} \cup {list[n + 1]}
    <3>1. 1..n + 1 = (1..n) \cup {n + 1}
      OBVIOUS
    <3> QED  BY <3>1
  <2>5. CASE list[n + 1] \in B
    <3>1. Lists(Append(kept[n], list[n + 1]), Upto(n) \cup {list[n + 1]})
      BY <2>1, <2>3, AppendLists
    <3>2. Upto(n) \cup {list[n + 1]} = Upto(n + 1)
      BY <2>4, <2>5
    <3> QED  BY <2>2, <2>5, <3>1, <3>2, Zenon
  <2>6. CASE list[n + 1] \notin B
    <3>1. Upto(n) = Upto(n + 1)
      BY <2>4, <2>6
    <3> QED  BY <2>1, <2>2, <2>6, <3>1, Zenon
  <2> QED  BY <2>5, <2>6
<1>5. Len(list) \in S
  <2> HIDE DEF S
  <2>1. Nat \subseteq S
    BY <1>3, <1>4, NatSetInduction
  <2> QED  BY <1>1, <2>1
<1>6. {list[m] : m \in 1..Len(list)} = A
  <2>1. \A m \in 1..Len(list) : list[m] \in A
    BY DEF Lists
  <2>2. \A x \in A : \E m \in 1..Len(list) : list[m] = x
    BY Zenon DEF Lists
  <2> QED  BY <2>1, <2>2, Zenon
<1>7. Upto(Len(list)) = A \cap B
  BY <1>6
<1>8. Lists(kept[Len(list)], Upto(Len(list)))
  BY <1>1, <1>5
<1> QED  BY <1>2, <1>7, <1>8, Zenon

(* Two lists without a common item are joined. *)
LEMMA ConcatLists ==
  ASSUME NEW p, NEW A, Lists(p, A), NEW q, NEW B, Lists(q, B), A \cap B = {}
  PROVE  Lists(p \o q, A \cup B)
<1> DEFINE r == p \o q
<1>1. /\ p \in Seq(A) /\ q \in Seq(B) /\ Len(p) \in Nat /\ Len(q) \in Nat
      /\ \A m, n \in 1..Len(p) : p[m] = p[n] => m = n
      /\ \A m, n \in 1..Len(q) : q[m] = q[n] => m = n
  BY DEF Lists
<1>2. r \in Seq(A \cup B) /\ Len(r) = Len(p) + Len(q)
  <2>1. p \in Seq(A \cup B) /\ q \in Seq(A \cup B)
    BY <1>1
  <2> QED  BY <1>1, <2>1
<1>3. \A n \in 1..Len(p) : r[n] = p[n] /\ p[n] \in A
  BY <1>1
<1>4. \A n \in 1..Len(q) : r[Len(p) + n] = q[n] /\ q[n] \in B
  BY <1>1
<1> HIDE DEF r
<1>5. \A n \in 1..Len(r) : n > Len(p) => n - Len(p) \in 1..Len(q) /\ r[n] = q[n - Len(p)]
  BY <1>1, <1>2, <1>4, SMTT(20)
<1>6. ASSUME NEW m \in 1..Len(r), NEW n \in 1..Len(r), r[m] = r[n] PROVE m = n
  <2>1. CASE m <= Len(p) /\ n <= Len(p)
    <3>1. m \in 1..Len(p) /\ n \in 1..Len(p)
      BY <1>1, <2>1
    <3> QED  BY <1>1, <1>3, <1>6, <3>1
  <2>2. CASE m > Len(p) /\ n > Len(p)
    <3>1. m - Len(p) \in 1..Len(q) /\ n - Len(p) \in 1..Len(q) /\ q[m - Len(p)] = q[n - Len(p)]
      BY <1>5, <1>6, <2>2
    <3>2. m - Len(p) = n - Len(p)
      BY <1>1, <3>1
    <3> QED  BY <1>1, <1>2, <3>2
  <2>3. CASE m <= Len(p) /\ n > Len(p)
    <3>1. m \in 1..Len(p) /\ r[m] \in A
      BY <1>1, <1>3, <2>3
    <3>2. r[n] \in B
      BY <1>4, <1>5, <2>3
    <3> QED  BY <1>6, <3>1, <3>2
  <2>4. CASE m > Len(p) /\ n <= Len(p)
    <3>1. n \in 1..Len(p) /\ r[n] \in A
      BY <1>1, <1>3, <2>4
    <3>2. r[m] \in B
      BY <1>4, <1>5, <2>4, Zenon
    <3> QED  BY <1>6, <3>1, <3>2
  <2>5. m \in Nat /\ n \in Nat
    BY <1>1, <1>2
  <2> QED  BY <1>1, <2>1, <2>2, <2>3, <2>4, <2>5
<1>7. ASSUME NEW x \in A \cup B PROVE \E n \in 1..Len(r) : r[n] = x
  <2>1. CASE x \in A
    <3>1. PICK n \in 1..Len(p) : p[n] = x
      BY <2>1 DEF Lists
    <3>2. n \in 1..Len(r) /\ r[n] = x
      BY <1>1, <1>2, <1>3, <3>1
    <3> QED  BY <3>2
  <2>2. CASE x \in B
    <3>1. PICK n \in 1..Len(q) : q[n] = x
      BY <2>2 DEF Lists
    <3>2. Len(p) + n \in 1..Len(r) /\ r[Len(p) + n] = x
      BY <1>1, <1>2, <1>4, <3>1
    <3> QED  BY <3>2
  <2> QED  BY <2>1, <2>2
<1> QED  BY <1>2, <1>6, <1>7, Zenon DEF Lists, r

(* The first item is taken off. *)
LEMMA TailLists ==
  ASSUME NEW list, NEW A, Lists(list, A), list # <<>>
  PROVE  Head(list) \in A /\ Lists(Tail(list), A \ {Head(list)})
<1> DEFINE r == Tail(list)
           h == Head(list)
<1>1. /\ list \in Seq(A) /\ Len(list) \in Nat \ {0} /\ h = list[1] /\ h \in A
      /\ \A n \in 1..Len(list) : list[n] \in A
      /\ \A m, n \in 1..Len(list) : list[m] = list[n] => m = n
  BY DEF Lists
<1>2. r \in Seq(A) /\ Len(r) = Len(list) - 1 /\ \A n \in 1..Len(r) : r[n] = list[n + 1]
  BY <1>1
<1> HIDE DEF r, h
<1>3. \A n \in 1..Len(r) : r[n] \in A \ {h}
  BY <1>1, <1>2
<1>4. r \in Seq(A \ {h})
  BY <1>2, <1>3
<1>5. \A m, n \in 1..Len(r) : r[m] = r[n] => m = n
  BY <1>1, <1>2
<1>6. ASSUME NEW x \in A \ {h} PROVE \E n \in 1..Len(r) : r[n] = x
  <2>1. PICK n \in 1..Len(list) : list[n] = x
    BY DEF Lists
  <2>2. n # 1
    BY <1>1, <2>1
  <2>3. n - 1 \in 1..Len(r) /\ r[n - 1] = x
    BY <1>1, <1>2, <2>1, <2>2
  <2> QED  BY <2>3
<1> QED  BY <1>1, <1>4, <1>5, <1>6 DEF Lists, r, h

(* The last item is taken off. *)
LEMMA FrontLists ==
  ASSUME NEW list, NEW A, Lists(list, A), list # <<>>
  PROVE  Last(list) \in A /\ Lists(Front(list), A \ {Last(list)})
<1> DEFINE r == Front(list)
           e == Last(list)
<1>1. /\ list \in Seq(A) /\ Len(list) \in Nat \ {0} /\ e = list[Len(list)] /\ e \in A
      /\ \A n \in 1..Len(list) : list[n] \in A
      /\ \A m, n \in 1..Len(list) : list[m] = list[n] => m = n
  BY DEF Lists, Last
<1>2. r \in Seq(A) /\ Len(r) = Len(list) - 1 /\ \A n \in 1..Len(r) : r[n] = list[n]
  BY <1>1 DEF Front
<1> HIDE DEF r, e
<1>3. \A n \in 1..Len(r) : r[n] \in A \ {e}
  BY <1>1, <1>2
<1>4. r \in Seq(A \ {e})
  BY <1>2, <1>3
<1>5. \A m, n \in 1..Len(r) : r[m] = r[n] => m = n
  BY <1>1, <1>2
<1>6. ASSUME NEW x \in A \ {e} PROVE \E n \in 1..Len(r) : r[n] = x
  <2>1. PICK n \in 1..Len(list) : list[n] = x
    BY DEF Lists
  <2>2. n # Len(list)
    BY <1>1, <2>1
  <2> QED  BY <1>1, <1>2, <2>1, <2>2
<1> QED  BY <1>1, <1>4, <1>5, <1>6 DEF Lists, r, e

(* The items of a list are the ones it enumerates. *)
LEMMA ListsRange ==
  ASSUME NEW list, NEW A, Lists(list, A)
  PROVE  /\ Range(list) = A /\ DOMAIN list = 1..Len(list) /\ Len(list) \in Nat
BY SMTT(20) DEF Lists, Range

(* The type of a list *)
LEMMA ListsSeq ==
  ASSUME NEW list, NEW A, Lists(list, A), NEW S, A \subseteq S
  PROVE  list \in Seq(S)
BY DEF Lists

-----------------------------------------------------------------------------

(* What has ended stays what it is, so an item that may be queued, or run, may
   be so ever after. *)
LEMMA StaysReady ==
  ASSUME NEW J, NEW K, NEW i,
         \A d \in ItemSet : J.status[d] \in Final => K.status[d] = J.status[d],
         OkToEnqueue(J, i)
  PROVE  OkToEnqueue(K, i) /\ (OkToRun(J, i) => OkToRun(K, i))
<1>1. \A d \in Deps[i] \cap ItemSet : K.status[d] = J.status[d]
  BY DEF OkToEnqueue
<1>2. OkToEnqueue(K, i)
  BY <1>1 DEF OkToEnqueue
<1>3. {d \in Deps[i] \cap ItemSet : J.status[d] = "P"}
        = {d \in Deps[i] \cap ItemSet : K.status[d] = "P"}
  BY <1>1
<1> QED  BY <1>2, <1>3 DEF OkToRun

(* The end of an item: Finish files it and takes it off every list. *)
LEMMA FinishGood ==
  ASSUME IsPlan(plan), NEW J, NEW H, Good(J, H),
         NEW i \in ItemSet, J.status[i] \notin Final, i \notin H,
         NEW s \in Final, J.status[i] = "D" \/ s = "K"
  PROVE  /\ Good(Finish(J, i, s), H)
         /\ Finish(J, i, s).status = [J.status EXCEPT ![i] = s]
<1> DEFINE K == Finish(J, i, s)
           t0 == Target[i]
<1>1. t0 \in Targets
  BY DEF IsPlan, Target, ItemSet, Items
<1>2. J \in JobsType
  BY DEF Good, Placed
<1>3. /\ K.status = [J.status EXCEPT ![i] = s]
      /\ K.scheduled = Unschedule(J.scheduled, {i})
      /\ K.queued = [J.queued EXCEPT ![t0] = Keep(@, ItemSet \ {i})]
      /\ K.running = [J.running EXCEPT ![t0] = Keep(@, ItemSet \ {i})]
      /\ K.finished = [J.finished EXCEPT ![t0][s] = @ \cup {i}]
  BY <1>2 DEF JobsType, Finish
<1>4. K \in [scheduled : {K.scheduled}, queued : {K.queued}, running : {K.running},
             finished : {K.finished}, status : {K.status}]
  BY <1>2, Zenon DEF JobsType, Finish
<1> HIDE DEF K
<1>5. \A t, u : Having(K, t, u) = IF t = t0 /\ u = s THEN Having(J, t, u) \cup {i}
                                 ELSE Having(J, t, u) \ {i}
  BY <1>2, <1>3 DEF Having, JobsType
<1>6. \A t, u : Having(K, t, u) \subseteq ItemSet
  BY DEF Having
<1>7. \A j \in H : j \in ItemSet /\ K.status[j] = "Q"
  BY <1>2, <1>3 DEF Good, Placed, JobsType
<1>8. ASSUME NEW t \in Targets, NEW c \in Cfgs
      PROVE  Lists(K.scheduled[t][c], {j \in Having(K, t, "-") : Cfg[j] = c})
  <2> DEFINE A == {j \in Having(J, t, "-") : Cfg[j] = c}
  <2>1. Lists(J.scheduled[t][c], A)
    BY DEF Good, Placed
  <2>2. A \cap (ItemSet \ {i}) = {j \in Having(K, t, "-") : Cfg[j] = c}
    BY <1>5 DEF Final, Having
  <2>3. K.scheduled[t][c] = Keep(J.scheduled[t][c], ItemSet \ {i})
    BY <1>3 DEF Unschedule
  <2> HIDE DEF A
  <2>4. Lists(K.scheduled[t][c], A \cap (ItemSet \ {i}))
    BY <2>1, <2>3, KeepLists
  <2> QED  BY <2>2, <2>4
<1>9. ASSUME NEW t \in Targets PROVE Lists(K.queued[t], Having(K, t, "Q") \ H)
  <2> DEFINE A == Having(J, t, "Q") \ H
  <2>1. Lists(J.queued[t], A)
    BY DEF Good, Placed
  <2>2. A \cap (ItemSet \ {i}) = Having(K, t, "Q") \ H
    BY <1>5 DEF Final, Having
  <2>3. K.queued[t] = IF t = t0 THEN Keep(J.queued[t], ItemSet \ {i}) ELSE J.queued[t]
    BY <1>2, <1>3 DEF JobsType
  <2>4. t # t0 => A = A \cap (ItemSet \ {i})
    BY DEF Having
  <2> HIDE DEF A
  <2>5. Lists(K.queued[t], A \cap (ItemSet \ {i}))
    <3>1. CASE t = t0
      BY <2>1, <2>3, <3>1, KeepLists
    <3>2. CASE t # t0
      BY <2>1, <2>3, <2>4, <3>2
    <3> QED  BY <3>1, <3>2
  <2> QED  BY <2>2, <2>5
<1>10. ASSUME NEW t \in Targets PROVE Lists(K.running[t], Having(K, t, "D"))
  <2> DEFINE A == Having(J, t, "D")
  <2>1. Lists(J.running[t], A)
    BY DEF Good, Placed
  <2>2. A \cap (ItemSet \ {i}) = Having(K, t, "D")
    BY <1>5 DEF Final, Having
  <2>3. K.running[t] = IF t = t0 THEN Keep(J.running[t], ItemSet \ {i}) ELSE J.running[t]
    BY <1>2, <1>3 DEF JobsType
  <2>4. t # t0 => A = A \cap (ItemSet \ {i})
    BY DEF Having
  <2> HIDE DEF A
  <2>5. Lists(K.running[t], A \cap (ItemSet \ {i}))
    <3>1. CASE t = t0
      BY <2>1, <2>3, <3>1, KeepLists
    <3>2. CASE t # t0
      BY <2>1, <2>3, <2>4, <3>2
    <3> QED  BY <3>1, <3>2
  <2> QED  BY <2>2, <2>5
<1>11. ASSUME NEW t \in Targets, NEW f \in Final PROVE K.finished[t][f] = Having(K, t, f)
  <2>1. J.finished[t][f] = Having(J, t, f)
    BY DEF Good, Placed
  <2>2. K.finished[t][f] = IF t = t0 /\ f = s THEN J.finished[t][f] \cup {i} ELSE J.finished[t][f]
    <3>1. J.finished \in [Targets -> [Final -> SUBSET ItemSet]]
      BY <1>2 DEF JobsType
    <3>2. J.finished[t] \in [Final -> SUBSET ItemSet]
      BY <3>1
    <3>3. K.finished[t] = IF t = t0 THEN [J.finished[t] EXCEPT ![s] = @ \cup {i}] ELSE J.finished[t]
      BY <1>1, <1>3, <3>1, Zenon
    <3> QED  BY <3>2, <3>3, Zenon
  <2>3. i \notin Having(J, t, f)
    BY DEF Having
  <2> QED  BY <1>5, <2>1, <2>2, <2>3
<1>12. K \in JobsType
  <2>1. K.status \in [ItemSet -> Statuses]
    BY <1>2, <1>3 DEF JobsType, Statuses
  <2>2. K.scheduled \in [Targets -> [Cfgs -> Seq(ItemSet)]]
    <3>1. ASSUME NEW t \in Targets, NEW c \in Cfgs PROVE K.scheduled[t][c] \in Seq(ItemSet)
      <4>1. {j \in Having(K, t, "-") : Cfg[j] = c} \subseteq ItemSet
        BY <1>6
      <4> QED  BY <1>8, <4>1, ListsSeq, Zenon
    <3>2. K.scheduled = [t \in Targets |-> [c \in Cfgs |-> K.scheduled[t][c]]]
      BY <1>3 DEF Unschedule
    <3> QED  BY <3>1, <3>2
  <2>3. K.queued \in [Targets -> Seq(ItemSet)]
    <3>1. ASSUME NEW t \in Targets PROVE K.queued[t] \in Seq(ItemSet)
      <4>1. Having(K, t, "Q") \ H \subseteq ItemSet
        BY <1>6
      <4> QED  BY <1>9, <4>1, ListsSeq, Zenon
    <3> QED  BY <1>2, <1>3, <3>1, Zenon DEF JobsType
  <2>4. K.running \in [Targets -> Seq(ItemSet)]
    <3>1. ASSUME NEW t \in Targets PROVE K.running[t] \in Seq(ItemSet)
      <4>1. Having(K, t, "D") \subseteq ItemSet
        BY <1>6
      <4> QED  BY <1>10, <4>1, ListsSeq
    <3> QED  BY <1>2, <1>3, <3>1, Zenon DEF JobsType
  <2>5. K.finished \in [Targets -> [Final -> SUBSET ItemSet]]
    <3>1. J.finished \in [Targets -> [Final -> SUBSET ItemSet]]
      BY <1>2 DEF JobsType
    <3> QED  BY <1>1, <1>3, <3>1
  <2> QED  BY <1>4, <2>1, <2>2, <2>3, <2>4, <2>5 DEF JobsType
<1>13. Placed(K, H)
  BY <1>7, <1>8, <1>9, <1>10, <1>11, <1>12, Zenon DEF Placed
<1>14. Ready(K, H)
  <2>1. \A d \in ItemSet : J.status[d] \in Final => K.status[d] = J.status[d]
    BY <1>2, <1>3 DEF JobsType
  <2> SUFFICES ASSUME NEW j \in ItemSet
               PROVE  /\ K.status[j] \in {"Q", "D", "P", "F"} => OkToEnqueue(K, j)
                      /\ K.status[j] \in {"D", "P", "F"} \/ j \in H => OkToRun(K, j)
    BY SMTT(20) DEF Ready
  <2>2. /\ K.status[j] \in {"Q", "D", "P", "F"} => J.status[j] \in {"Q", "D", "P", "F"}
        /\ K.status[j] \in {"D", "P", "F"} => J.status[j] \in {"D", "P", "F"}
        /\ j \in H => J.status[j] = "Q"
    BY <1>2, <1>3, SMTT(30) DEF JobsType, Final, Good, Placed
  <2> QED  BY <2>1, <2>2, StaysReady DEF Good, Ready
<1> QED  BY <1>3, <1>13, <1>14 DEF Good, K

(* Items whose dependencies have ended are queued. *)
LEMMA EnqueueGood ==
  ASSUME IsPlan(plan), NEW J, NEW H, Good(J, H), NEW list, NEW A, Lists(list, A),
         \A i \in A : i \in ItemSet /\ J.status[i] = "-" /\ OkToEnqueue(J, i)
  PROVE  /\ Good(Enqueue(J, list), H)
         /\ \A i \in ItemSet : Enqueue(J, list).status[i] = IF i \in A THEN "Q" ELSE J.status[i]
<1> DEFINE K == Enqueue(J, list)
<1>1. Range(list) = A
  BY ListsRange
<1>2. J \in JobsType
  BY DEF Good, Placed
<1>3. /\ K.status = [i \in ItemSet |-> IF i \in A THEN "Q" ELSE J.status[i]]
      /\ K.scheduled = Unschedule(J.scheduled, A)
      /\ K.queued = [t \in Targets |-> J.queued[t] \o Keep(list, {i \in ItemSet : Target[i] = t})]
      /\ K.running = J.running
      /\ K.finished = J.finished
  BY <1>1, <1>2 DEF JobsType, Enqueue
<1>4. K \in [scheduled : {K.scheduled}, queued : {K.queued}, running : {K.running},
             finished : {K.finished}, status : {K.status}]
  BY <1>2, Zenon DEF JobsType, Enqueue
<1> HIDE DEF K
<1>5. \A t, u : Having(K, t, u) = IF u = "Q" THEN Having(J, t, u) \cup {i \in A : Target[i] = t}
                                 ELSE Having(J, t, u) \ A
  BY <1>3 DEF Having
<1>6. \A t, u : Having(K, t, u) \subseteq ItemSet
  BY DEF Having
<1>7. \A j \in H : j \in ItemSet /\ j \notin A /\ K.status[j] = "Q"
  BY <1>3 DEF Good, Placed
<1>8. ASSUME NEW t \in Targets, NEW c \in Cfgs
      PROVE  Lists(K.scheduled[t][c], {j \in Having(K, t, "-") : Cfg[j] = c})
  <2> DEFINE B == {j \in Having(J, t, "-") : Cfg[j] = c}
  <2>1. Lists(J.scheduled[t][c], B)
    BY Zenon DEF Good, Placed
  <2>2. B \cap (ItemSet \ A) = {j \in Having(K, t, "-") : Cfg[j] = c}
    BY <1>5 DEF Having
  <2>3. K.scheduled[t][c] = Keep(J.scheduled[t][c], ItemSet \ A)
    BY <1>3 DEF Unschedule
  <2> HIDE DEF B
  <2>4. Lists(K.scheduled[t][c], B \cap (ItemSet \ A))
    BY <2>1, <2>3, KeepLists
  <2> QED  BY <2>2, <2>4
<1>9. ASSUME NEW t \in Targets PROVE Lists(K.queued[t], Having(K, t, "Q") \ H)
  <2> DEFINE B == Having(J, t, "Q") \ H
             C == {i \in ItemSet : Target[i] = t}
  <2>1. Lists(J.queued[t], B)
    BY DEF Good, Placed
  <2>2. B \cap (A \cap C) = {} /\ B \cup (A \cap C) = Having(K, t, "Q") \ H
    BY <1>5, <1>7, SMTT(20) DEF Having
  <2>3. K.queued[t] = J.queued[t] \o Keep(list, C)
    BY <1>3
  <2> HIDE DEF B, C
  <2>4. Lists(Keep(list, C), A \cap C)
    BY KeepLists
  <2>5. Lists(K.queued[t], B \cup (A \cap C))
    BY <2>1, <2>2, <2>3, <2>4, ConcatLists, SMTT(20)
  <2> QED  BY <2>2, <2>5
<1>10. ASSUME NEW t \in Targets PROVE Lists(K.running[t], Having(K, t, "D"))
  <2>1. Having(K, t, "D") = Having(J, t, "D")
    BY <1>5, SMTT(20) DEF Having
  <2> QED  BY <1>3, <2>1, SMTT(20) DEF Good, Placed
<1>11. ASSUME NEW t \in Targets, NEW f \in Final PROVE K.finished[t][f] = Having(K, t, f)
  <2>1. Having(K, t, f) = Having(J, t, f)
    BY <1>5 DEF Having, Final
  <2> QED  BY <1>3, <2>1, SMTT(20) DEF Good, Placed
<1>12. K \in JobsType
  <2>1. K.status \in [ItemSet -> Statuses]
    BY <1>2, <1>3 DEF JobsType, Statuses
  <2>2. K.scheduled \in [Targets -> [Cfgs -> Seq(ItemSet)]]
    <3>1. ASSUME NEW t \in Targets, NEW c \in Cfgs PROVE K.scheduled[t][c] \in Seq(ItemSet)
      <4>1. {j \in Having(K, t, "-") : Cfg[j] = c} \subseteq ItemSet
        BY <1>6
      <4> QED  BY <1>8, <4>1, ListsSeq, Zenon
    <3>2. K.scheduled = [t \in Targets |-> [c \in Cfgs |-> K.scheduled[t][c]]]
      BY <1>3 DEF Unschedule
    <3> QED  BY <3>1, <3>2
  <2>3. K.queued \in [Targets -> Seq(ItemSet)]
    <3>1. ASSUME NEW t \in Targets PROVE K.queued[t] \in Seq(ItemSet)
      <4>1. Having(K, t, "Q") \ H \subseteq ItemSet
        BY <1>6
      <4> QED  BY <1>9, <4>1, ListsSeq, Zenon
    <3>2. K.queued = [t \in Targets |-> K.queued[t]]
      BY <1>3
    <3> QED  BY <3>1, <3>2
  <2>4. K.running = J.running /\ K.finished = J.finished
    BY <1>3
  <2> QED  BY <1>2, <1>4, <2>1, <2>2, <2>3, <2>4, SMTT(20) DEF JobsType
<1>13. Placed(K, H)
  BY <1>7, <1>8, <1>9, <1>10, <1>11, <1>12, SMTT(20) DEF Placed
<1>14. Ready(K, H)
  <2>1. \A d \in ItemSet : J.status[d] \in Final => K.status[d] = J.status[d]
    BY <1>3 DEF Final
  <2> SUFFICES ASSUME NEW j \in ItemSet
               PROVE  /\ K.status[j] \in {"Q", "D", "P", "F"} => OkToEnqueue(K, j)
                      /\ K.status[j] \in {"D", "P", "F"} \/ j \in H => OkToRun(K, j)
    BY DEF Ready
  <2>2. CASE j \in A
    <3>1. K.status[j] = "Q" /\ j \notin H
      BY <1>3, <1>7, <2>2, SMTT(20)
    <3> QED  BY <2>1, <2>2, <3>1, StaysReady, SMTT(20)
  <2>3. CASE j \notin A
    <3>1. K.status[j] = J.status[j] /\ (j \in H => J.status[j] = "Q")
      BY <1>3, <1>7, <2>3, SMTT(20)
    <3> QED  BY <2>1, <3>1, StaysReady, SMTT(20) DEF Good, Ready
  <2> QED  BY <2>2, <2>3
<1> QED  BY <1>3, <1>13, <1>14 DEF Good, K

(* The successors of an item are scheduled items whose dependencies have ended,
   the item among them, each listed once. *)
LEMMA SuccessorsListed ==
  ASSUME IsPlan(plan), NEW J, NEW H, Good(J, H), NEW i \in ItemSet
  PROVE  \E A : /\ Lists(Successors(J, i), A)
               /\ \A n \in A : /\ n \in ItemSet /\ J.status[n] = "-"
                               /\ i \in Deps[n] /\ OkToEnqueue(J, n)
<1>1. CASE ~HasNext(i)
  <2>1. Lists(Successors(J, i), {})
    BY <1>1 DEF Successors, Lists
  <2> QED  BY <2>1
<1>2. CASE HasNext(i)
  <2> DEFINE t == Target[i] + 1
             B == {n \in Having(J, t, "-") : Cfg[n] = Cfg[i]}
             C == {n \in ItemSet : i \in Deps[n] /\ OkToEnqueue(J, n)}
  <2>1. t \in Targets /\ Cfg[i] \in Cfgs
    BY <1>2, BoundsAssumption, SMTT(20) DEF HasNext, IsPlan, Target, Targets, Cfgs, ItemSet, Items
  <2>2. Lists(J.scheduled[t][Cfg[i]], B)
    BY <2>1 DEF Good, Placed
  <2>3. Successors(J, i) = Keep(J.scheduled[t][Cfg[i]], C)
    BY <1>2 DEF Successors
  <2>4. \A n \in B \cap C : /\ n \in ItemSet /\ J.status[n] = "-"
                           /\ i \in Deps[n] /\ OkToEnqueue(J, n)
    BY DEF Having
  <2> HIDE DEF B, C
  <2>5. Lists(Successors(J, i), B \cap C)
    BY <2>2, <2>3, KeepLists, SMTT(20)
  <2> QED  BY <2>4, <2>5
<1> QED  BY <1>1, <1>2

(* An item ends and its successors are queued, as in _poll and _dispatch. *)
LEMMA FileStep ==
  ASSUME IsPlan(plan), NEW J, NEW H, Good(J, H),
         NEW i \in ItemSet, J.status[i] \notin Final, i \notin H,
         NEW s \in Final, J.status[i] = "D" \/ s = "K"
  PROVE  LET K == Finish(J, i, s)
             L == Enqueue(K, Successors(K, i))
         IN Good(K, H) /\ Filed(J, K) /\ Good(L, H) /\ Filed(J, L)
<1> DEFINE K == Finish(J, i, s)
           L == Enqueue(K, Successors(K, i))
<1>1. Good(K, H) /\ K.status = [J.status EXCEPT ![i] = s]
  BY FinishGood
<1>2. J.status \in [ItemSet -> Statuses]
  BY DEF Good, Placed, JobsType
<1>3. Filed(J, K)
  BY <1>1, <1>2 DEF Filed
<1> HIDE DEF K
<1>4. PICK A : /\ Lists(Successors(K, i), A)
               /\ \A n \in A : n \in ItemSet /\ K.status[n] = "-" /\ OkToEnqueue(K, n)
  BY <1>1, SuccessorsListed, Zenon
<1>5. Good(L, H) /\ \A j \in ItemSet : L.status[j] = IF j \in A THEN "Q" ELSE K.status[j]
  <2> DEFINE list == Successors(K, i)
  <2>1. /\ Lists(list, A)
        /\ \A n \in A : n \in ItemSet /\ K.status[n] = "-" /\ OkToEnqueue(K, n)
    BY <1>4
  <2>2. Good(K, H)
    BY <1>1
  <2> HIDE DEF list
  <2>3. Good(Enqueue(K, list), H)
    BY <2>1, <2>2, EnqueueGood
  <2>4. \A j \in ItemSet : Enqueue(K, list).status[j] = IF j \in A THEN "Q" ELSE K.status[j]
    BY <2>1, <2>2, EnqueueGood
  <2> QED  BY <2>3, <2>4 DEF list
<1>6. Filed(K, L)
  BY <1>4, <1>5 DEF Filed, Final
<1>7. Filed(J, L)
  BY <1>3, <1>6 DEF Filed
<1> QED  BY <1>1, <1>3, <1>5, <1>7, Zenon DEF K

(* An item is killed and its successors are to be cancelled. *)
LEMMA KillStep ==
  ASSUME IsPlan(plan), NEW J, NEW H, Good(J, H),
         NEW i \in ItemSet, J.status[i] \notin Final, i \notin H
  PROVE  LET K == Finish(J, i, "K")
         IN Good(K, H) /\ Filed(J, K) /\ Stacked(K, Successors(K, i))
<1> DEFINE K == Finish(J, i, "K")
<1>0. "K" \in Final
  BY DEF Final
<1>1. Good(K, H) /\ Filed(J, K)
  BY <1>0, FileStep
<1> HIDE DEF K
<1>2. Stacked(K, Successors(K, i))
  BY <1>1, SuccessorsListed DEF Stacked
<1> QED  BY <1>1, <1>2 DEF K

(* The last item of the list of _cancel_successors is cancelled. Its successors
   were not in the list: the item had not ended. *)
LEMMA CancelStep ==
  ASSUME IsPlan(plan), NEW J, NEW H, Good(J, H), NEW list, Stacked(J, list), list # <<>>
  PROVE  LET i == Last(list)
             K == Finish(J, i, "K")
         IN Good(K, H) /\ Filed(J, K) /\ Stacked(K, Front(list) \o Successors(K, i))
<1> DEFINE i == Last(list)
           K == Finish(J, i, "K")
<1>1. PICK A : /\ Lists(list, A)
               /\ \A n \in A : n \in ItemSet /\ J.status[n] = "-" /\ OkToEnqueue(J, n)
  BY DEF Stacked
<1>2. i \in A /\ Lists(Front(list), A \ {i})
  BY <1>1, FrontLists, Zenon
<1> HIDE DEF i
<1>3. i \in ItemSet /\ J.status[i] = "-" /\ J.status[i] \notin Final /\ i \notin H /\ "K" \in Final
  BY <1>1, <1>2, Zenon DEF Final, Good, Placed
<1>4. /\ Good(K, H) /\ Filed(J, K) /\ K.status = [J.status EXCEPT ![i] = "K"]
  BY <1>3, FinishGood, FileStep, SMTT(20)
<1> HIDE DEF K
<1>5. PICK B : /\ Lists(Successors(K, i), B)
               /\ \A n \in B : /\ n \in ItemSet /\ K.status[n] = "-"
                               /\ i \in Deps[n] /\ OkToEnqueue(K, n)
  BY <1>3, <1>4, SuccessorsListed, Zenon
<1>6. \A n \in A : i \notin Deps[n]
  BY <1>1, <1>3 DEF OkToEnqueue
<1>7. (A \ {i}) \cap B = {}
  BY <1>5, <1>6
<1>8. Lists(Front(list) \o Successors(K, i), (A \ {i}) \cup B)
  BY <1>2, <1>5, <1>7, ConcatLists
<1>9. \A n \in A \ {i} : n \in ItemSet /\ K.status[n] = "-" /\ OkToEnqueue(K, n)
  <2> SUFFICES ASSUME NEW n \in A \ {i}
               PROVE  n \in ItemSet /\ K.status[n] = "-" /\ OkToEnqueue(K, n)
    OBVIOUS
  <2>1. n \in ItemSet /\ J.status[n] = "-" /\ OkToEnqueue(J, n)
    BY <1>1
  <2>2. J.status \in [ItemSet -> Statuses]
    BY DEF Good, Placed, JobsType
  <2>3. OkToEnqueue(K, n)
    BY <1>4, <2>1, StaysReady, Zenon DEF Filed
  <2> QED  BY <1>4, <2>1, <2>2, <2>3
<1>10. Stacked(K, Front(list) \o Successors(K, i))
  BY <1>5, <1>8, <1>9 DEF Stacked
<1> QED  BY <1>4, <1>10 DEF i, K

(* The head of a queue is taken to be launched. *)
LEMMA TakeStep ==
  ASSUME IsPlan(plan), NEW J, NEW list, NEW H, Lists(list, H), Good(J, H), NEW t \in Targets,
         J.queued[t] # <<>>, OkToRun(J, Head(J.queued[t]))
  PROVE  LET i == Head(J.queued[t])
         IN /\ Lists(Append(list, i), H \cup {i})
            /\ Good([J EXCEPT !.queued[t] = Tail(@)], H \cup {i})
<1> DEFINE i == Head(J.queued[t])
           K == [J EXCEPT !.queued[t] = Tail(@)]
           G == H \cup {i}
<1>1. Lists(J.queued[t], Having(J, t, "Q") \ H)
  BY DEF Good, Placed
<1>2. i \in Having(J, t, "Q") \ H /\ Lists(Tail(J.queued[t]), (Having(J, t, "Q") \ H) \ {i})
  BY <1>1, TailLists, Zenon
<1>3. Lists(Append(list, i), G)
  BY <1>2, AppendLists
<1>4. J \in JobsType
  BY DEF Good, Placed
<1>5. /\ K.status = J.status /\ K.scheduled = J.scheduled /\ K.running = J.running
      /\ K.finished = J.finished /\ K.queued = [J.queued EXCEPT ![t] = Tail(@)]
  BY <1>4 DEF JobsType
<1>6. K \in JobsType
  <2>1. J.queued \in [Targets -> Seq(ItemSet)] /\ Tail(J.queued[t]) \in Seq(ItemSet)
    BY <1>4 DEF JobsType
  <2>2. [J.queued EXCEPT ![t] = Tail(@)] \in [Targets -> Seq(ItemSet)]
    BY <2>1
  <2> QED  BY <1>4, <2>2, Zenon DEF JobsType
<1> HIDE DEF K
<1>7. \A u, v : Having(K, u, v) = Having(J, u, v)
  BY <1>5 DEF Having
<1>8. ASSUME NEW u \in Targets PROVE Lists(K.queued[u], Having(K, u, "Q") \ G)
  <2>1. CASE u = t
    <3>1. K.queued[u] = Tail(J.queued[t])
      BY <1>4, <1>5, <2>1 DEF JobsType
    <3>2. Having(K, u, "Q") \ G = (Having(J, t, "Q") \ H) \ {i}
      BY <1>7, <2>1
    <3> QED  BY <1>2, <3>1, <3>2, Zenon
  <2>2. CASE u # t
    <3>1. K.queued[u] = J.queued[u]
      BY <1>4, <1>5, <2>2, Zenon DEF JobsType
    <3>2. Having(K, u, "Q") \ G = Having(J, u, "Q") \ H
      BY <1>2, <1>7, <2>2, SMTT(20) DEF Having
    <3> QED  BY <3>1, <3>2, Zenon DEF Good, Placed
  <2> QED  BY <2>1, <2>2
<1>9. \A j \in G : j \in ItemSet /\ K.status[j] = "Q"
  BY <1>2, <1>5, SMTT(20) DEF Good, Placed, Having
<1>10. Placed(K, G)
  <2>1. \A u \in Targets, c \in Cfgs :
          Lists(K.scheduled[u][c], {j \in Having(K, u, "-") : Cfg[j] = c})
    <3>1. \A u \in Targets, c \in Cfgs :
            {j \in Having(K, u, "-") : Cfg[j] = c} = {j \in Having(J, u, "-") : Cfg[j] = c}
      BY <1>7, Zenon
    <3> QED  BY <1>5, <3>1, Zenon DEF Good, Placed
  <2>2. \A u \in Targets : Lists(K.running[u], Having(K, u, "D"))
    BY <1>5, <1>7, ZenonT(60) DEF Good, Placed
  <2>3. \A u \in Targets, f \in Final : K.finished[u][f] = Having(K, u, f)
    BY <1>5, <1>7, SMTT(20) DEF Good, Placed
  <2> QED  BY <1>6, <1>8, <1>9, <2>1, <2>2, <2>3, Zenon DEF Placed
<1>11. Ready(K, G)
  <2>1. \A j : OkToEnqueue(J, j) => OkToEnqueue(K, j)
    BY <1>5, Zenon DEF OkToEnqueue
  <2>2. ASSUME NEW j, OkToRun(J, j) PROVE OkToRun(K, j)
    <3>1. {d \in Deps[j] \cap ItemSet : J.status[d] = "P"}
            = {d \in Deps[j] \cap ItemSet : K.status[d] = "P"}
      BY <1>5, SMTT(20)
    <3> QED  BY <2>2, <3>1 DEF OkToRun
  <2> QED  BY <1>5, <2>1, <2>2 DEF Good, Ready
<1> QED  BY <1>3, <1>10, <1>11, Zenon DEF Good, K

(* The first of the items taken is entered as running. *)
LEMMA LaunchStep ==
  ASSUME IsPlan(plan), NEW H, Lists(to_dispatch, H), Good(jobs, H), to_dispatch # <<>>
  PROVE  LET i == Head(to_dispatch)
         IN /\ i \in ItemSet /\ Lists(Tail(to_dispatch), H \ {i})
            /\ Good(Launched(i), H \ {i}) /\ Filed(jobs, Launched(i))
            /\ Launched(i).status[i] = "D"
<1> DEFINE i == Head(to_dispatch)
           K == Launched(i)
           G == H \ {i}
           t0 == Target[i]
<1>1. i \in H /\ Lists(Tail(to_dispatch), G)
  BY TailLists
<1> HIDE DEF i
<1>2. i \in ItemSet /\ jobs.status[i] = "Q"
  BY <1>1 DEF Good, Placed
<1>3. t0 \in Targets
  BY <1>2 DEF IsPlan, Target, ItemSet, Items
<1>4. jobs \in JobsType
  BY DEF Good, Placed
<1>5. /\ K.status = [jobs.status EXCEPT ![i] = "D"] /\ K.scheduled = jobs.scheduled
      /\ K.queued = jobs.queued /\ K.finished = jobs.finished
      /\ K.running = [jobs.running EXCEPT ![t0] = Append(@, i)]
  BY <1>4 DEF JobsType, Launched
<1>6. K \in JobsType
  <2>1. jobs.running \in [Targets -> Seq(ItemSet)] /\ jobs.status \in [ItemSet -> Statuses]
    BY <1>4 DEF JobsType
  <2>2. [jobs.running EXCEPT ![t0] = Append(@, i)] \in [Targets -> Seq(ItemSet)]
    <3>1. Append(jobs.running[t0], i) \in Seq(ItemSet)
      BY <1>2, <1>3, <2>1
    <3> QED  BY <2>1, <3>1, Zenon
  <2>3. [jobs.status EXCEPT ![i] = "D"] \in [ItemSet -> Statuses]
    BY <2>1, Zenon DEF Statuses
  <2> QED  BY <1>4, <2>2, <2>3, Zenon DEF JobsType, Launched
<1> HIDE DEF K
<1>7. \A u, v : Having(K, u, v) = IF u = t0 /\ v = "D" THEN Having(jobs, u, v) \cup {i}
                                 ELSE Having(jobs, u, v) \ {i}
  BY <1>2, <1>4, <1>5, SMTT(30) DEF Having, JobsType
<1>8. ASSUME NEW u \in Targets PROVE Lists(K.running[u], Having(K, u, "D"))
  <2>1. Lists(jobs.running[u], Having(jobs, u, "D")) /\ i \notin Having(jobs, u, "D")
    BY <1>2, Zenon DEF Good, Placed, Having
  <2>2. CASE u = t0
    <3>1. K.running[u] = Append(jobs.running[u], i)
      BY <1>4, <1>5, <2>2, SMTT(20) DEF JobsType
    <3> QED  BY <1>7, <2>1, <2>2, <3>1, AppendLists, SMTT(30)
  <2>3. CASE u # t0
    <3>1. K.running[u] = jobs.running[u]
      BY <1>4, <1>5, <2>3 DEF JobsType
    <3>2. Having(K, u, "D") = Having(jobs, u, "D") \ {i}
      BY <1>7, <2>3
    <3>3. Having(K, u, "D") = Having(jobs, u, "D")
      BY <2>1, <3>2, SMTT(20)
    <3> QED  BY <2>1, <3>1, <3>3, Zenon
  <2> QED  BY <2>2, <2>3
<1>9. ASSUME NEW u \in Targets PROVE Lists(K.queued[u], Having(K, u, "Q") \ G)
  <2>1. Having(K, u, "Q") = Having(jobs, u, "Q") \ {i}
    BY <1>7
  <2>2. Having(K, u, "Q") \ G = Having(jobs, u, "Q") \ H
    BY <1>1, <2>1
  <2> QED  BY <1>5, <2>2, Zenon DEF Good, Placed
<1>10. \A u \in Targets, c \in Cfgs :
         Lists(K.scheduled[u][c], {j \in Having(K, u, "-") : Cfg[j] = c})
  <2>1. \A u \in Targets, c \in Cfgs :
          {j \in Having(K, u, "-") : Cfg[j] = c} = {j \in Having(jobs, u, "-") : Cfg[j] = c}
    <3>1. \A u : Having(K, u, "-") = Having(jobs, u, "-") \ {i}
      BY <1>7
    <3>2. \A u : i \notin Having(jobs, u, "-")
      BY <1>2, ZenonT(60) DEF Having
    <3> QED  BY <3>1, <3>2
  <2> QED  BY <1>5, <2>1, Zenon DEF Good, Placed
<1>11. ASSUME NEW u \in Targets, NEW f \in Final PROVE K.finished[u][f] = Having(K, u, f)
  <2>1. Having(K, u, f) = Having(jobs, u, f) \ {i}
    BY <1>7 DEF Final
  <2>2. Having(K, u, f) = Having(jobs, u, f)
    BY <1>2, <2>1, Zenon DEF Having, Final
  <2> QED  BY <1>5, <2>2 DEF Good, Placed
<1>12. \A j \in G : j \in ItemSet /\ K.status[j] = "Q"
  BY <1>4, <1>5, SMTT(20) DEF Good, Placed, JobsType
<1>13. Placed(K, G)
  BY <1>6, <1>8, <1>9, <1>10, <1>11, <1>12, Zenon DEF Placed
<1>14. Filed(jobs, K) /\ K.status[i] = "D"
  BY <1>2, <1>4, <1>5 DEF Filed, JobsType, Final
<1>15. Ready(K, G)
  <2> SUFFICES ASSUME NEW j \in ItemSet
               PROVE  /\ K.status[j] \in {"Q", "D", "P", "F"} => OkToEnqueue(K, j)
                      /\ K.status[j] \in {"D", "P", "F"} \/ j \in G => OkToRun(K, j)
    BY Zenon DEF Ready
  <2>1. /\ j # i => K.status[j] = jobs.status[j]
        /\ j \in G => jobs.status[j] = "Q"
    BY <1>4, <1>5 DEF JobsType, Good, Placed
  <2>2. /\ jobs.status[j] \in {"Q", "D", "P", "F"} => OkToEnqueue(jobs, j)
        /\ jobs.status[j] \in {"D", "P", "F"} \/ j \in H => OkToRun(jobs, j)
    BY DEF Good, Ready
  <2> QED  BY <1>1, <1>2, <1>14, <2>1, <2>2, StaysReady, Zenon DEF Filed
<1> QED  BY <1>1, <1>2, <1>13, <1>14, <1>15 DEF Good, K, i

(* Init: everything is scheduled. *)
LEMMA InitGood ==
  ASSUME Init PROVE Inv
<1>1. IsPlan(plan) /\ plan \in Plans
  BY PlansAssumption DEF Init
<1>2. /\ jobs = JobsInit /\ pc = "start" /\ to_dispatch = <<>>
      /\ last_target = 0 /\ last_item = [t \in Targets |-> 0] /\ target = 0
  BY DEF Init, NoTarget
<1>3. Held = {} /\ Lists(to_dispatch, {})
  BY <1>2 DEF Held, Range, Lists
<1>4. Lists(Items, ItemSet)
  BY <1>1, SMTT(20) DEF IsPlan, Items, ItemSet, Lists, IsInjective, Range
<1>5. /\ jobs.status = [i \in ItemSet |-> "-"]
      /\ jobs.queued = [t \in Targets |-> <<>>] /\ jobs.running = [t \in Targets |-> <<>>]
      /\ jobs.finished = [t \in Targets |-> [s \in Final |-> {}]]
      /\ jobs.scheduled = [t \in Targets |-> [c \in Cfgs |->
                             Keep(Items, {i \in ItemSet : Target[i] = t /\ Cfg[i] = c})]]
  BY <1>2, Zenon DEF JobsInit
<1>6. \A t : Having(jobs, t, "Q") = {} /\ Having(jobs, t, "D") = {}
  BY <1>5, SMTT(20) DEF Having
<1>7. ASSUME NEW t \in Targets, NEW c \in Cfgs
      PROVE  Lists(jobs.scheduled[t][c], {i \in Having(jobs, t, "-") : Cfg[i] = c})
  <2> DEFINE B == {i \in ItemSet : Target[i] = t /\ Cfg[i] = c}
  <2>1. {i \in Having(jobs, t, "-") : Cfg[i] = c} = ItemSet \cap B
    BY <1>5, SMTT(20) DEF Having
  <2>2. jobs.scheduled[t][c] = Keep(Items, B)
    BY <1>5
  <2> HIDE DEF B
  <2>3. Lists(Keep(Items, B), ItemSet \cap B)
    BY <1>4, KeepLists
  <2> QED  BY <2>1, <2>2, <2>3, SMTT(20)
<1>8. \A t \in Targets : /\ Lists(jobs.queued[t], Having(jobs, t, "Q") \ {})
                         /\ Lists(jobs.running[t], Having(jobs, t, "D"))
  <2>1. Lists(<<>>, {})
    BY DEF Lists
  <2>2. \A t \in Targets : jobs.queued[t] = <<>> /\ jobs.running[t] = <<>>
    BY <1>5
  <2> QED  BY <1>6, <2>1, <2>2, Zenon
<1>9. \A t \in Targets, f \in Final : jobs.finished[t][f] = Having(jobs, t, f)
  BY <1>5, SMTT(30) DEF Having, Final
<1>10. jobs \in JobsType
  <2>1. ASSUME NEW t \in Targets, NEW c \in Cfgs PROVE jobs.scheduled[t][c] \in Seq(ItemSet)
    <3>1. {i \in Having(jobs, t, "-") : Cfg[i] = c} \subseteq ItemSet
      BY DEF Having
    <3> QED  BY <1>7, <3>1, ListsSeq, Zenon
  <2>2. jobs.scheduled \in [Targets -> [Cfgs -> Seq(ItemSet)]]
    BY <1>5, <2>1
  <2>3. jobs.status \in [ItemSet -> Statuses]
    BY <1>5 DEF Statuses
  <2>4. /\ jobs.queued \in [Targets -> Seq(ItemSet)] /\ jobs.running \in [Targets -> Seq(ItemSet)]
        /\ jobs.finished \in [Targets -> [Final -> SUBSET ItemSet]]
    BY <1>5
  <2> QED  BY <1>2, <2>2, <2>3, <2>4 DEF JobsType, JobsInit
<1>11. Placed(jobs, {})
  BY <1>7, <1>8, <1>9, <1>10, SMTT(20) DEF Placed
<1>12. Ready(jobs, {})
  BY <1>5 DEF Ready
<1>13. Control
  BY <1>1, <1>2, BoundsAssumption DEF Control
<1> QED  BY <1>2, <1>3, <1>11, <1>12, <1>13 DEF Inv, Good, ReturnsComplete

-----------------------------------------------------------------------------

\* What a step has to keep, said of the plan before it
Kept ==
  /\ Lists(to_dispatch', Range(to_dispatch'))
  /\ Good(jobs', Range(to_dispatch'))
  /\ pc' = "cancel" => Stacked(jobs', stack')
  /\ Filed(jobs, jobs')

(* A step that leaves the jobs alone keeps them. *)
LEMMA SameKept ==
  ASSUME Inv, UNCHANGED <<jobs, to_dispatch>>,
         pc' = "cancel" => pc = "cancel" /\ stack' = stack
  PROVE  Kept
BY DEF Inv, Kept, Held, Filed

(* _cancel_item and _kill_item *)
LEMMA KillThenCancelKept ==
  ASSUME IsPlan(plan), NEW J, NEW H, Good(J, H), Lists(to_dispatch', H), Filed(jobs, J),
         NEW i \in ItemSet, J.status[i] \notin Final, i \notin H, NEW back,
         KillThenCancel(J, i, back)
  PROVE  Kept
<1> DEFINE K == Finish(J, i, "K")
<1>1. Good(K, H) /\ Filed(J, K) /\ Stacked(K, Successors(K, i))
  BY KillStep
<1>2. jobs' = K /\ (pc' = "cancel" => stack' = Successors(K, i))
  BY DEF KillThenCancel
<1> HIDE DEF K
<1>3. Range(to_dispatch') = H
  BY ListsRange, SMTT(20)
<1>4. Filed(jobs, K)
  BY <1>1 DEF Filed
<1> QED  BY <1>1, <1>2, <1>3, <1>4, SMTT(20) DEF Kept

(* Every step of the scheduler keeps every job in its place. *)
LEMMA NextKept ==
  ASSUME Inv, [Next]_vars PROVE Kept
<1>1. IsPlan(plan) /\ Lists(to_dispatch, Held) /\ Good(jobs, Held) /\ Control
  BY PlansAssumption DEF Inv, Control
<1>2. ASSUME Start PROVE Kept
  <2>1. CASE UNCHANGED jobs
    BY <1>2, <2>1, SameKept, Zenon DEF Start, locals
  <2>2. CASE \E c \in Cfgs :
               jobs' = Enqueue(jobs, Keep(jobs.scheduled[1][c],
                                          {i \in ItemSet : OkToEnqueue(jobs, i)}))
    <3>1. PICK c \in Cfgs :
            jobs' = Enqueue(jobs, Keep(jobs.scheduled[1][c],
                                          {i \in ItemSet : OkToEnqueue(jobs, i)}))
      BY <2>2
    <3> DEFINE A == {i \in Having(jobs, 1, "-") : Cfg[i] = c}
               B == {i \in ItemSet : OkToEnqueue(jobs, i)}
               list == Keep(jobs.scheduled[1][c], B)
    <3>2. \A i \in A \cap B : i \in ItemSet /\ jobs.status[i] = "-" /\ OkToEnqueue(jobs, i)
      BY DEF Having
    <3>3. Lists(jobs.scheduled[1][c], A)
      BY <1>1, BoundsAssumption DEF Good, Placed, Targets
    <3>4. jobs' = Enqueue(jobs, list)
      BY <3>1
    <3> HIDE DEF A, B
    <3>5. Lists(list, A \cap B)
      BY <3>3, KeepLists, Zenon
    <3> HIDE DEF list
    <3>6. Good(jobs', Held)
      BY <1>1, <3>2, <3>4, <3>5, EnqueueGood, Zenon
    <3>7. \A i \in ItemSet : jobs'.status[i] = IF i \in A \cap B THEN "Q" ELSE jobs.status[i]
      BY <1>1, <3>2, <3>4, <3>5, EnqueueGood, SMTT(20)
    <3>8. Filed(jobs, jobs')
      BY <3>2, <3>7, SMTT(20) DEF Filed, Final
    <3>9. pc' # "cancel" /\ to_dispatch' = to_dispatch
      BY <1>2, Zenon DEF Start, locals
    <3> QED  BY <1>1, <3>6, <3>8, <3>9 DEF Kept, Held
  <2> QED  BY <1>2, <2>1, <2>2 DEF Start
<1>3. ASSUME NEW s \in Outcomes \cup {"D"}, PollItem(s) PROVE Kept
  <2> DEFINE i == jobs.running[target][NextPolled(target)]
             K == Finish(jobs, i, s)
             L == Enqueue(K, Successors(K, i))
  <2>1. pc' # "cancel" /\ to_dispatch' = to_dispatch
    BY <1>3 DEF PollItem
  <2>2. CASE s = "D"
    <3>1. jobs' = jobs
      BY <1>3, <2>2 DEF PollItem
    <3> QED  BY <2>1, <3>1, SameKept
  <2>3. CASE s # "D"
    <3>1. target \in Targets /\ jobs.running[target] # <<>>
      BY <1>1, <1>3, Zenon DEF PollItem, Control
    <3>2. Lists(jobs.running[target], Having(jobs, target, "D"))
      BY <1>1, <3>1 DEF Good, Placed
    <3>3. NextPolled(target) \in 1..Len(jobs.running[target])
      <4>1. last_item[target] \in Nat
        BY <1>1, <3>1, SMTT(20) DEF Control
      <4>2. Len(jobs.running[target]) \in Nat \ {0}
        BY <3>1, <3>2, SMTT(20) DEF Lists
      <4> QED  BY <4>1, <4>2, SMTT(20) DEF NextPolled
    <3>4. i \in Having(jobs, target, "D")
      BY <3>2, <3>3 DEF Lists
    <3>5. jobs' = K \/ jobs' = L
      BY <1>3, <2>3, Zenon DEF PollItem
    <3> HIDE DEF i
    <3>6. i \in ItemSet /\ jobs.status[i] = "D" /\ i \notin Held /\ jobs.status[i] \notin Final
      BY <1>1, <3>4 DEF Having, Good, Placed, Final
    <3>7. s \in Final
      BY <2>3, OutcomesAssumption, ZenonT(60)
    <3>8. Good(K, Held) /\ Filed(jobs, K) /\ Good(L, Held) /\ Filed(jobs, L)
      BY <1>1, <3>6, <3>7, FileStep, Zenon
    <3> QED  BY <1>1, <2>1, <3>5, <3>8 DEF Kept, Held
  <2> QED  BY <2>2, <2>3
<1>4. ASSUME DispatchItem PROVE Kept
  <2> DEFINE i == Head(jobs.queued[target])
             K == Finish(jobs, i, "K")
             L == Enqueue(K, Successors(K, i))
  <2>1. pc' # "cancel"
    BY <1>4 DEF DispatchItem
  <2>2. target \in Targets /\ jobs.queued[target] # <<>>
    BY <1>1, <1>4, Zenon DEF DispatchItem, Control
  <2>3. CASE OkToRun(jobs, i)
    <3>1. jobs' = [jobs EXCEPT !.queued[target] = Tail(@)] /\ to_dispatch' = Append(to_dispatch, i)
      BY <1>4, <2>3 DEF DispatchItem
    <3>2. /\ Lists(to_dispatch', Held \cup {i})
          /\ Good(jobs', Held \cup {i})
      BY <1>1, <2>2, <2>3, <3>1, TakeStep, Zenon
    <3>3. Range(to_dispatch') = Held \cup {i}
      BY <3>2, ListsRange
    <3>4. jobs'.status = jobs.status
      BY <1>1, <3>1 DEF Good, Placed, JobsType
    <3> QED  BY <2>1, <3>2, <3>3, <3>4 DEF Kept, Filed
  <2>4. CASE ~OkToRun(jobs, i)
    <3>1. (jobs' = K \/ jobs' = L) /\ to_dispatch' = to_dispatch
      BY <1>4, <2>4, SMTT(20) DEF DispatchItem
    <3>2. Lists(jobs.queued[target], Having(jobs, target, "Q") \ Held)
      BY <1>1, <2>2, Zenon DEF Good, Placed
    <3>3. i \in Having(jobs, target, "Q") \ Held
      BY <2>2, <3>2, TailLists, Zenon
    <3> HIDE DEF i
    <3>4. i \in ItemSet /\ i \notin Held /\ jobs.status[i] \notin Final /\ "K" \in Final
      BY <3>3, ZenonT(60) DEF Having, Final
    <3>5. Good(K, Held) /\ Filed(jobs, K) /\ Good(L, Held) /\ Filed(jobs, L)
      BY <1>1, <3>4, FileStep, Zenon
    <3> QED  BY <1>1, <2>1, <3>1, <3>5 DEF Kept, Held
  <2> QED  BY <2>3, <2>4
<1>5. ASSUME NEW fails \in BOOLEAN, Launch(fails) PROVE Kept
  <2> DEFINE i == Head(to_dispatch)
             G == Held \ {i}
  <2>1. to_dispatch # <<>> /\ to_dispatch' = Tail(to_dispatch) /\ pc = "launch"
    BY <1>5, SMTT(20) DEF Launch
  <2>2. /\ i \in ItemSet /\ Lists(to_dispatch', G)
        /\ Good(Launched(i), G) /\ Filed(jobs, Launched(i)) /\ Launched(i).status[i] = "D"
    BY <1>1, <2>1, LaunchStep, Zenon
  <2>3. KillThenCancel(Launched(i), i, "launch") \/ (jobs' = Launched(i) /\ pc' = pc)
    BY <1>5, Zenon DEF Launch
  <2> HIDE DEF i
  <2>4. CASE KillThenCancel(Launched(i), i, "launch")
    <3>1. Launched(i).status[i] \notin Final /\ i \notin G
      BY <2>2 DEF Final
    <3> HIDE DEF G
    <3> QED  BY <1>1, <2>2, <2>4, <3>1, KillThenCancelKept
  <2>5. CASE jobs' = Launched(i) /\ pc' = pc
    <3>1. Range(to_dispatch') = G
      BY <2>2, ListsRange
    <3> QED  BY <2>1, <2>2, <2>5, <3>1, Zenon DEF Kept
  <2> QED  BY <2>3, <2>4, <2>5
<1>6. ASSUME Cancel PROVE Kept
  <2>1. pc = "cancel" /\ Stacked(jobs, stack) /\ to_dispatch' = to_dispatch
    BY <1>6 DEF Cancel, Inv, locals
  <2>2. CASE stack = <<>>
    <3>1. jobs' = jobs /\ stack' = stack
      BY <1>6, <2>2 DEF Cancel
    <3> QED  BY <2>1, <3>1, SameKept
  <2>3. CASE stack # <<>>
    <3> DEFINE i == Last(stack)
               K == Finish(jobs, i, "K")
    <3>1. jobs' = K /\ (pc' = "cancel" => stack' = Front(stack) \o Successors(K, i))
      BY <1>6, <2>3 DEF Cancel
    <3>2. Good(K, Held) /\ Filed(jobs, K) /\ Stacked(K, Front(stack) \o Successors(K, i))
      BY <1>1, <2>1, <2>3, CancelStep
    <3> HIDE DEF K
    <3> QED  BY <1>1, <2>1, <3>1, <3>2, Zenon DEF Kept, Held
  <2> QED  BY <2>2, <2>3
<1>7. ASSUME Kill PROVE Kept
  <2>1. pc = "kill" /\ to_dispatch' = to_dispatch
    BY <1>7 DEF Kill, locals
  <2>2. ASSUME KillFirst(jobs.queued) PROVE Kept
    <3>1. PICK t \in Targets : /\ jobs.queued[t] # <<>>
                               /\ KillThenCancel(jobs, Head(jobs.queued[t]), "kill")
      BY <2>2, Zenon DEF KillFirst
    <3> DEFINE i == Head(jobs.queued[t])
    <3>2. Lists(jobs.queued[t], Having(jobs, t, "Q") \ Held)
      BY <1>1 DEF Good, Placed
    <3>3. i \in Having(jobs, t, "Q") \ Held
      BY <3>1, <3>2, TailLists, Zenon
    <3>4. KillThenCancel(jobs, i, "kill")
      BY <3>1
    <3> HIDE DEF i
    <3>5. i \in ItemSet /\ i \notin Held /\ jobs.status[i] \notin Final
      BY <3>3 DEF Having, Final
    <3>6. Filed(jobs, jobs) /\ Lists(to_dispatch', Held)
      BY <1>1, <2>1, Zenon DEF Filed
    <3> QED  BY <1>1, <3>4, <3>5, <3>6, KillThenCancelKept
  <2>3. ASSUME KillFirst(jobs.running) PROVE Kept
    <3>1. PICK t \in Targets : /\ jobs.running[t] # <<>>
                               /\ KillThenCancel(jobs, Head(jobs.running[t]), "kill")
      BY <2>3, ZenonT(60) DEF KillFirst
    <3> DEFINE i == Head(jobs.running[t])
    <3>2. Lists(jobs.running[t], Having(jobs, t, "D"))
      BY <1>1, Zenon DEF Good, Placed
    <3>3. i \in Having(jobs, t, "D")
      BY <3>1, <3>2, TailLists, Zenon
    <3>4. KillThenCancel(jobs, i, "kill")
      BY <3>1, Zenon
    <3> HIDE DEF i
    <3>5. i \in ItemSet /\ i \notin Held /\ jobs.status[i] \notin Final
      BY <1>1, <3>3 DEF Having, Final, Good, Placed
    <3>6. Filed(jobs, jobs) /\ Lists(to_dispatch', Held)
      BY <1>1, <2>1 DEF Filed
    <3> QED  BY <1>1, <3>4, <3>5, <3>6, KillThenCancelKept
  <2>4. ASSUME pc' = "poll", jobs' = jobs PROVE Kept
    BY <2>1, <2>4, SameKept
  <2> QED  BY <1>7, <2>2, <2>3, <2>4 DEF Kill
<1>8. ASSUME \/ Loop \/ Poll \/ PollTarget \/ PollItemsEnd \/ Dispatch \/ DispatchTarget
             \/ DispatchItemsEnd \/ LaunchEnd \/ Check
      PROVE  Kept
  <2>1. jobs' = jobs /\ to_dispatch' = to_dispatch /\ pc' # "cancel"
    BY <1>8, Zenon
    DEF Loop, Poll, PollTarget, PollItemsEnd, Dispatch, DispatchTarget, DispatchItemsEnd,
                LaunchEnd, Check, locals
  <2> QED  BY <2>1, SameKept
<1>9. ASSUME Sigint \/ Returned \/ UNCHANGED vars PROVE Kept
  <2>1. UNCHANGED <<jobs, to_dispatch, pc, stack>>
    BY <1>9 DEF Sigint, Returned, vars, locals
  <2> QED  BY <2>1, SameKept
<1> QED
  BY <1>2, <1>3, <1>4, <1>5, <1>6, <1>7, <1>8, <1>9, SMTT(20) DEF Next, Step

(* The control state after every step *)
LEMMA NextControl ==
  ASSUME Inv, [Next]_vars PROVE Control'
<1>1. Control /\ NTargets \in Nat \ {0}
  BY BoundsAssumption DEF Inv
<1>2. NextTarget \in Targets
  BY <1>1, SMTT(20) DEF Control, NextTarget, Targets
<1>3. CASE Start
  BY <1>1, <1>3, Zenon DEF Control, Start, locals, last, Targets
<1>4. CASE Loop
  BY <1>1, <1>4 DEF Control, Loop, locals, last, Targets
<1>5. CASE Poll
  BY <1>1, <1>5 DEF Control, Poll, locals, last, Targets
<1>6. CASE PollTarget
  <2>1. \/ pc' = "dispatch" /\ target' = 0 /\ last_target' = last_target
        \/ pc' = "poll_item" /\ target' = NextTarget /\ last_target' = NextTarget
    BY <1>6, Zenon DEF PollTarget, NoTarget
  <2>2. UNCHANGED <<plan, last_item, ret>>
    BY <1>6 DEF PollTarget
  <2> QED  BY <1>1, <1>2, <2>1, <2>2 DEF Control, Targets
<1>7. ASSUME NEW s \in Outcomes \cup {"D"}, PollItem(s) PROVE Control'
  <2>1. NextPolled(target) \in Nat \ {0}
    BY <1>1, <1>7 DEF Control, PollItem, NextPolled
  <2>2. last_item' \in [Targets -> Nat]
    BY <1>1, <1>7, <2>1 DEF Control, PollItem
  <2>3. UNCHANGED <<plan, last_target, target, ret>> /\ pc' \in {pc, "error"} /\ pc = "poll_item"
    BY <1>7 DEF PollItem
  <2> QED  BY <1>1, <2>2, <2>3 DEF Control
<1>8. CASE PollItemsEnd
  BY <1>1, <1>8 DEF Control, PollItemsEnd, locals, last, Targets
<1>9. CASE Dispatch
  BY <1>1, <1>9 DEF Control, Dispatch, locals, last, Targets
<1>10. CASE DispatchTarget
  BY <1>1, <1>10 DEF Control, DispatchTarget, NoTarget, last, Targets
<1>11. CASE DispatchItem
  BY <1>1, <1>11 DEF Control, DispatchItem, last, Targets
<1>12. CASE DispatchItemsEnd
  BY <1>1, <1>12, SMTT(20) DEF Control, DispatchItemsEnd, locals, last, Targets
<1>13. ASSUME NEW fails \in BOOLEAN, Launch(fails) PROVE Control'
  BY <1>1, <1>13 DEF Control, Launch, KillThenCancel, last, Targets
<1>14. CASE LaunchEnd
  BY <1>1, <1>14 DEF Control, LaunchEnd, last, Targets
<1>15. CASE Cancel
  BY <1>1, <1>15, ZenonT(60) DEF Control, Cancel, locals, last, Targets
<1>16. CASE Kill
  BY <1>1, <1>16, Zenon DEF Control, Kill, KillFirst, KillThenCancel, locals, last, Targets
<1>17. CASE Check
  BY <1>1, <1>17 DEF Control, Check, locals, last, Targets
<1>18. CASE Sigint
  BY <1>1, <1>18 DEF Control, Sigint, locals, last, Targets
<1>19. CASE Returned \/ UNCHANGED vars
  BY <1>1, <1>19 DEF Control, Returned, vars
<1> QED
  BY <1>3, <1>4, <1>5, <1>6, <1>7, <1>8, <1>9, <1>10, <1>11, <1>12, <1>13, <1>14, <1>15, <1>16,
     <1>17, <1>18, <1>19, Zenon DEF Next, Step

(* _check_if_done counts: when as many items of every target have ended as it
   has, all of them have. *)
LEMMA DoneComplete ==
  ASSUME IsPlan(plan), NEW H, Placed(jobs, H), AllDone
  PROVE  \A i \in ItemSet : jobs.status[i] \in Final
<1> SUFFICES ASSUME NEW i \in ItemSet PROVE jobs.status[i] \in Final
  OBVIOUS
<1> DEFINE t == Target[i]
           A == UNION {jobs.finished[t][s] : s \in Final}
           B == {j \in ItemSet : Target[j] = t}
<1>1. t \in Targets
  BY DEF IsPlan, Target, ItemSet, Items
<1>2. IsFiniteSet(ItemSet)
  <2>1. Len(Items) \in Nat /\ ItemSet = {Items[n] : n \in 1..Len(Items)}
    BY DEF IsPlan, Items, ItemSet, Range
  <2>2. IsFiniteSet(1..Len(Items))
    BY <2>1, FS_Interval
  <2> DEFINE f == [n \in 1..Len(Items) |-> Items[n]]
  <2>3. f \in Surjection(1..Len(Items), ItemSet)
    BY <2>1 DEF Surjection
  <2> QED  BY <2>2, <2>3, FS_Surjection, SMTT(20)
<1>3. IsFiniteSet(B)
  BY <1>2, FS_Subset, ZenonT(60)
<1>4. A \subseteq B /\ \A j \in A : jobs.status[j] \in Final
  BY <1>1 DEF Placed, Having
<1>5. Cardinality(A) = Cardinality(B)
  BY <1>1, SMTT(20) DEF AllDone
<1> HIDE DEF A
<1>6. A = B
  BY <1>3, <1>4, <1>5, FS_Subset
<1> QED  BY <1>4, <1>6

(* Inv is an inductive invariant. *)
LEMMA NextInv ==
  ASSUME Inv, [Next]_vars PROVE Inv'
<1>1. Kept /\ Control' /\ plan' = plan
  <2>1. plan' = plan
    BY Zenon DEF Next, Step, Start, Loop, Poll, PollTarget, PollItem, PollItemsEnd, Dispatch,
           DispatchTarget, DispatchItem, DispatchItemsEnd, Launch, LaunchEnd, Cancel, Kill,
           Check, Sigint, Returned, vars
  <2> QED  BY <2>1, NextKept, NextControl, SMTT(20)
<1>2. ItemSet' = ItemSet /\ Target' = Target /\ Cfg' = Cfg /\ Deps' = Deps /\ Cfgs' = Cfgs
  BY <1>1 DEF ItemSet, Items, Target, Cfg, Deps, Cfgs
<1>3. Lists(to_dispatch, Held)'
  BY <1>1 DEF Kept, Held
<1>4. Good(jobs, Held)'
  <2>1. Placed(jobs', Held') /\ Ready(jobs', Held')
    BY <1>1, SMTT(20) DEF Kept, Held, Good
  <2>2. Placed(jobs, Held)'
    <3>1. (jobs \in JobsType)' /\ \A i \in Held' : i \in ItemSet' /\ jobs'.status[i] = "Q"
      BY <1>2, <2>1, Zenon DEF Placed, JobsType
    <3>2. \A t, s : Having(jobs, t, s)' = Having(jobs', t, s)
      BY <1>2, Zenon DEF Having
    <3>3. (\A t \in Targets, c \in Cfgs :
             Lists(jobs.scheduled[t][c], {i \in Having(jobs, t, "-") : Cfg[i] = c}))'
      <4>1. \A t, c : {i \in Having(jobs, t, "-") : Cfg[i] = c}'
                     = {i \in Having(jobs', t, "-") : Cfg[i] = c}
        BY <1>2, <3>2
      <4> QED  BY <1>2, <2>1, <4>1, SMTT(20) DEF Placed
    <3>4. (\A t \in Targets : /\ Lists(jobs.queued[t], Having(jobs, t, "Q") \ Held)
                              /\ Lists(jobs.running[t], Having(jobs, t, "D")))'
      BY <2>1, <3>2, Zenon DEF Placed
    <3>5. (\A t \in Targets, f \in Final : jobs.finished[t][f] = Having(jobs, t, f))'
      BY <2>1, <3>2, Zenon DEF Placed
    <3> QED  BY <3>1, <3>3, <3>4, <3>5, Zenon DEF Placed
  <2>3. Ready(jobs, Held)'
    BY <1>1, <1>2, <2>1, Zenon DEF Ready, OkToEnqueue, OkToRun
  <2> QED  BY <2>2, <2>3 DEF Good
<1>5. (pc = "cancel" => Stacked(jobs, stack))'
  BY <1>1, <1>2 DEF Kept, Stacked, OkToEnqueue
<1>6. ReturnsComplete'
  <2> SUFFICES ASSUME pc' = "done" PROVE \A i \in ItemSet : jobs'.status[i] \in Final
    BY <1>2 DEF ReturnsComplete
  <2>1. CASE pc = "done"
    BY <1>1, <2>1 DEF Inv, Kept, Filed, ReturnsComplete
  <2>2. CASE pc # "done"
    <3>1. Check
      BY <1>2, <2>2, Zenon DEF Next, Step, Start, Loop, Poll, PollTarget, PollItem, PollItemsEnd,
            Dispatch, DispatchTarget, DispatchItem, DispatchItemsEnd, Launch, LaunchEnd, Cancel,
            Kill, KillFirst, KillThenCancel, Sigint, Returned, vars, Inv, Control
    <3>2. AllDone /\ jobs' = jobs
      BY <3>1 DEF Check
    <3>3. IsPlan(plan) /\ Placed(jobs, Held)
      BY PlansAssumption DEF Inv, Control, Good
    <3> QED  BY <3>2, <3>3, DoneComplete, SMTT(20)
  <2> QED  BY <2>1, <2>2
<1> QED  BY <1>1, <1>3, <1>4, <1>5, <1>6 DEF Inv

(* Inv holds in every reachable state. *)
LEMMA SpecInv ==
  Spec => []Inv
<1>1. Init => Inv
  BY InitGood
<1>2. Inv /\ [Next]_vars => Inv'
  BY NextInv
<1> QED  BY <1>1, <1>2, PTL DEF Spec

-----------------------------------------------------------------------------

(* Partition: whatever the plan, and in whatever order jobs end, fail to start
   or are killed, every job is in exactly one of the scheduler's lists and sets,
   the one its status names, and it is there once. *)
THEOREM PartitionHolds ==
  Spec => []Partition
<1>1. ASSUME NEW list, NEW A, Lists(list, A), NEW i
      PROVE  Cardinality({n \in DOMAIN list : list[n] = i}) = IF i \in A THEN 1 ELSE 0
  <2> DEFINE N == {n \in DOMAIN list : list[n] = i}
  <2>1. DOMAIN list = 1..Len(list) /\ \A n \in 1..Len(list) : list[n] \in A
    BY <1>1 DEF Lists
  <2>2. CASE i \in A
    <3>1. PICK m \in 1..Len(list) : list[m] = i
      BY <1>1, <2>2 DEF Lists
    <3>2. \A n \in 1..Len(list) : list[n] = i => n = m
      BY <1>1, <3>1, Zenon DEF Lists
    <3>3. N = {m}
      BY <2>1, <3>1, <3>2
    <3> QED  BY <2>2, <3>3, FS_Singleton, Zenon
  <2>3. CASE i \notin A
    <3>1. N = {}
      BY <2>1, <2>3
    <3> QED  BY <2>3, <3>1, FS_EmptySet, Zenon
  <2> QED  BY <2>2, <2>3
<1>2. ASSUME Inv PROVE Partition
  <2> SUFFICES ASSUME NEW i \in ItemSet
               PROVE  LET t == Target[i]
                          s == jobs.status[i]
                          Count(list) == Cardinality({n \in DOMAIN list : list[n] = i})
                      IN /\ Count(jobs.scheduled[t][Cfg[i]]) = IF s = "-" THEN 1 ELSE 0
                         /\ Count(jobs.queued[t]) + Count(to_dispatch) = IF s = "Q" THEN 1 ELSE 0
                         /\ Count(jobs.running[t]) = IF s = "D" THEN 1 ELSE 0
                         /\ \A f \in Final : i \in jobs.finished[t][f] <=> s = f
    BY Zenon DEF Partition
  <2> DEFINE t == Target[i]
             s == jobs.status[i]
             Count(list) == Cardinality({n \in DOMAIN list : list[n] = i})
             S == {j \in Having(jobs, t, "-") : Cfg[j] = Cfg[i]}
             Q == Having(jobs, t, "Q") \ Held
             D == Having(jobs, t, "D")
             scheduled == jobs.scheduled[t][Cfg[i]]
             queued == jobs.queued[t]
             running == jobs.running[t]
  <2>1. t \in Targets /\ Cfg[i] \in Cfgs
    BY <1>2, PlansAssumption DEF Inv, Control, IsPlan, Target, ItemSet, Items, Cfgs
  <2>2. Placed(jobs, Held) /\ Lists(to_dispatch, Held)
    BY <1>2, SMTT(20) DEF Inv, Good
  <2>3. /\ Lists(scheduled, S) /\ Lists(queued, Q) /\ Lists(running, D)
        /\ \A f \in Final : jobs.finished[t][f] = Having(jobs, t, f)
    BY <2>1, <2>2, Zenon DEF Placed
  <2>4. /\ i \in S <=> s = "-"
        /\ i \in D <=> s = "D"
        /\ \A f \in Final : i \in Having(jobs, t, f) <=> s = f
    BY Zenon DEF Having
  <2>5. /\ i \in Q <=> s = "Q" /\ i \notin Held
        /\ i \in Held => s = "Q"
    BY <2>2, Zenon DEF Having, Placed
  <2> HIDE DEF S, Q, D, s, scheduled, queued, running
  <2>6. /\ Count(scheduled) = IF i \in S THEN 1 ELSE 0
        /\ Count(queued) = IF i \in Q THEN 1 ELSE 0
        /\ Count(running) = IF i \in D THEN 1 ELSE 0
        /\ Count(to_dispatch) = IF i \in Held THEN 1 ELSE 0
    BY <1>1, <2>2, <2>3
  <2> HIDE DEF Count
  <2>7. Count(queued) + Count(to_dispatch) = IF s = "Q" THEN 1 ELSE 0
    BY <2>5, <2>6, SMTT(20)
  <2>8. \A f \in Final : i \in jobs.finished[t][f] <=> s = f
    BY <2>3, <2>4, Zenon
  <2> QED  BY <2>4, <2>6, <2>7, <2>8, Zenon DEF Count, s, scheduled, queued, running
<1> QED  BY <1>2, SpecInv, PTL

(* DepsRespected: for every plan, a job that was launched had all its
   dependencies ended, and passed as needs_all_dependencies_passing asks, also
   after it waited in the queue while others were polled, killed or cancelled. *)
THEOREM DepsHold ==
  Spec => []DepsRespected
<1>1. ASSUME Inv PROVE DepsRespected
  <2>1. Ready(jobs, Held)
    BY <1>1 DEF Inv, Good
  <2> QED  BY <2>1 DEF Ready, DepsRespected, OkToEnqueue, OkToRun
<1> QED  BY <1>1, SpecInv, PTL

(* FiledForGood, for every plan *)
THEOREM FiledOnce ==
  Spec => FiledForGood
<1>1. Inv /\ [Next]_vars => [Filed(jobs, jobs')]_vars
  BY NextKept DEF Kept
<1> QED  BY <1>1, SpecInv, PTL DEF Spec, FiledForGood

(* ReturnsComplete, for every plan: _check_if_done compares numbers of jobs,
   and the numbers agree only when the sets do. *)
THEOREM DoneWithResults ==
  Spec => []ReturnsComplete
<1>1. Inv => ReturnsComplete
  BY DEF Inv
<1> QED  BY <1>1, SpecInv, PTL
=============================================================================
