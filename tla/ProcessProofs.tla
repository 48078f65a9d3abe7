---------------------------- MODULE ProcessProofs -----------------------------
(***************************************************************************)
(* Proofs about the process manager, for every set of processes, every     *)
(* assignment of priorities and every number of rounds.                    *)
(*                                                                         *)
(* ReadyListsMatchStatus and OneRunning hold only together, and only with  *)
(* a fact the code relies on and never tests: the init process stays       *)
(* runnable.  With it the scan of schedule() stops at the list of init at  *)
(* the latest, what it picks is on a ready list, and so the lists, the     *)
(* statuses and the CPU agree again after the switch.                      *)
(***************************************************************************)
EXTENDS Process, SequenceTheorems, TLAPS

\* The ready lists agree with the statuses: ReadyListsMatchStatus for any pair.
Match(lists, stats) ==
  /\ \A p \in Procs : Contains(lists[Priority[p]], p) <=> stats[p] \in Runnable /\ ~Unlisted(p)
  /\ \A l \in Levels : \A i, j \in DOMAIN lists[l] :
       /\ Priority[lists[l][i]] = l
       /\ lists[l][i] = lists[l][j] => i = j

\* schedule() relies on the init process being ready at any time (process.cc 177).
InitRunnable == status[InitProc] \in Runnable

ListsMatch == Match(ready_processes, status)

\* The process that is being started stays READY until it is on its list.
StartReady ==
  start_pc \in {"list", "link"} => status[start_proc] = "READY" /\ start_proc # InitProc

ProcInv ==
  /\ ProcTypeOK
  /\ ListsMatch
  /\ StartReady
  /\ OneRunning
  /\ InitRunnable

-----------------------------------------------------------------------------
(* Lemmas about lists. *)

\* A list without its element p holds the same other elements, each once.
LEMMA UnlinkFacts ==
  ASSUME NEW S, NEW s \in Seq(S), NEW p, Contains(s, p),
         \A i, j \in DOMAIN s : s[i] = s[j] => i = j
  PROVE  /\ Unlink(s, p) \in Seq(S)
         /\ \A q : Contains(Unlink(s, p), q) <=> Contains(s, q) /\ q # p
         /\ \A i, j \in DOMAIN Unlink(s, p) : Unlink(s, p)[i] = Unlink(s, p)[j] => i = j
  <1> DEFINE k == CHOOSE i \in DOMAIN s : s[i] = p
             t == Unlink(s, p)
  <1>1. k \in 1 .. Len(s) /\ s[k] = p
    BY DEF Contains
  <1> HIDE DEF k
  <1>2. t = SubSeq(s, 1, k - 1) \o SubSeq(s, k + 1, Len(s))
    BY DEF Unlink, RemoveAt, k
  <1>3. /\ t \in Seq(S)
        /\ Len(t) = Len(s) - 1
        /\ \A i \in 1 .. Len(t) : t[i] = IF i < k THEN s[i] ELSE s[i + 1]
    <2> DEFINE a == SubSeq(s, 1, k - 1)
               b == SubSeq(s, k + 1, Len(s))
    <2>1. /\ a \in Seq(S) /\ Len(a) = k - 1
          /\ \A i \in 1 .. k - 1 : a[i] = s[i]
      <3>1. \A i \in 1 .. k - 1 : s[i] \in S
        BY <1>1
      <3> QED BY <1>1, <3>1, SubSeqProperties
    <2>2. /\ b \in Seq(S) /\ Len(b) = Len(s) - k
          /\ \A i \in 1 .. Len(s) - k : b[i] = s[k + i]
      <3>1. \A i \in k + 1 .. Len(s) : s[i] \in S
        BY <1>1
      <3>2. /\ b \in Seq(S)
            /\ Len(b) = IF k + 1 <= Len(s) THEN Len(s) - (k + 1) + 1 ELSE 0
            /\ \A i \in 1 .. Len(s) - (k + 1) + 1 : b[i] = s[(k + 1) + i - 1]
        BY <1>1, <3>1, SubSeqProperties
      <3> QED BY <1>1, <3>2
    <2> HIDE DEF a, b
    <2>3. /\ a \o b \in Seq(S) /\ Len(a \o b) = Len(a) + Len(b)
          /\ \A i \in 1 .. Len(a) + Len(b) :
               (a \o b)[i] = IF i <= Len(a) THEN a[i] ELSE b[i - Len(a)]
      BY <2>1, <2>2, ConcatProperties
    <2>4. t = a \o b
      BY <1>2 DEF a, b
    <2> HIDE DEF t
    <2>5. Len(t) = Len(s) - 1 /\ t \in Seq(S)
      <3>1. t \in Seq(S) /\ Len(t) = Len(a) + Len(b)
        BY <2>3, <2>4, Zenon
      <3>2. Len(s) \in Nat /\ k \in Nat
        BY <1>1
      <3>3. (k - 1) + (Len(s) - k) = Len(s) - 1
        BY <3>2
      <3> QED BY <2>1, <2>2, <3>1, <3>3, Zenon
    <2>6. ASSUME NEW i \in 1 .. Len(t)
          PROVE  t[i] = IF i < k THEN s[i] ELSE s[i + 1]
      <3>1. t[i] = IF i <= k - 1 THEN a[i] ELSE b[i - (k - 1)]
        BY <1>1, <2>1, <2>2, <2>3, <2>4, <2>5
      <3>2. CASE i < k
        BY <1>1, <2>1, <3>1, <3>2
      <3>3. CASE i >= k
        <4>1. i - (k - 1) \in 1 .. Len(s) - k /\ k + (i - (k - 1)) = i + 1
          BY <1>1, <2>5, <3>3
        <4> QED BY <1>1, <2>2, <3>1, <3>3, <4>1
      <3> QED BY <1>1, <3>2, <3>3
    <2> QED BY <2>5, <2>6
  <1> HIDE DEF t
  <1>4. \A q : Contains(t, q) <=> Contains(s, q) /\ q # p
    <2> TAKE q
    <2>1. ASSUME Contains(t, q) PROVE Contains(s, q) /\ q # p
      <3>1. PICK i \in 1 .. Len(t) : t[i] = q
        BY <2>1 DEF Contains
      <3>2. CASE i < k
        <4>1. i \in 1 .. Len(s) /\ s[i] = q /\ i # k
          BY <1>1, <1>3, <3>1, <3>2
        <4> QED BY <1>1, <4>1 DEF Contains
      <3>3. CASE i >= k
        <4>1. i + 1 \in 1 .. Len(s) /\ s[i + 1] = q /\ i + 1 # k
          BY <1>1, <1>3, <3>1, <3>3
        <4> QED BY <1>1, <4>1 DEF Contains
      <3> QED BY <1>1, <3>2, <3>3
    <2>2. ASSUME Contains(s, q), q # p PROVE Contains(t, q)
      <3>1. PICK i \in 1 .. Len(s) : s[i] = q
        BY <2>2 DEF Contains
      <3>2. CASE i < k
        BY <1>1, <1>3, <3>1, <3>2 DEF Contains
      <3>3. CASE i > k
        <4>1. i - 1 \in 1 .. Len(t) /\ t[i - 1] = q
          BY <1>1, <1>3, <3>1, <3>3
        <4> QED BY <4>1 DEF Contains
      <3> QED BY <1>1, <2>2, <3>1, <3>2, <3>3
    <2> QED BY <2>1, <2>2
  <1>5. \A i, j \in DOMAIN t : t[i] = t[j] => i = j
    <2> DEFINE at(i) == IF i < k THEN i ELSE i + 1
    <2> SUFFICES ASSUME NEW i \in 1 .. Len(t), NEW j \in 1 .. Len(t), t[i] = t[j]
                 PROVE  i = j
      BY <1>3
    <2>1. at(i) \in 1 .. Len(s) /\ at(j) \in 1 .. Len(s)
      BY <1>1, <1>3
    <2>2. s[at(i)] = s[at(j)]
      BY <1>3
    <2>3. at(i) = at(j)
      BY <2>1, <2>2
    <2> QED BY <1>1, <2>3
  <1> QED BY <1>3, <1>4, <1>5 DEF t

\* A list with an element p behind it holds p as well, and each element once
\* if p was not there.
LEMMA AppendFacts ==
  ASSUME NEW S, NEW s \in Seq(S), NEW p \in S
  PROVE  /\ Append(s, p) \in Seq(S)
         /\ \A q : Contains(Append(s, p), q) <=> Contains(s, q) \/ q = p
         /\ (~Contains(s, p) /\ \A i, j \in DOMAIN s : s[i] = s[j] => i = j)
              => \A i, j \in DOMAIN Append(s, p) : Append(s, p)[i] = Append(s, p)[j] => i = j
  <1> DEFINE t == Append(s, p)
  <1>1. /\ t \in Seq(S) /\ Len(t) = Len(s) + 1
        /\ \A i \in 1 .. Len(s) : t[i] = s[i]
        /\ t[Len(s) + 1] = p
    OBVIOUS
  <1> HIDE DEF t
  <1>2. ASSUME NEW q PROVE Contains(t, q) <=> Contains(s, q) \/ q = p
    <2>1. ASSUME Contains(t, q) PROVE Contains(s, q) \/ q = p
      BY <1>1, <2>1 DEF Contains
    <2>2. ASSUME Contains(s, q) \/ q = p PROVE Contains(t, q)
      BY <1>1, <2>2 DEF Contains
    <2> QED BY <2>1, <2>2
  <1>3. ASSUME ~Contains(s, p), \A i, j \in DOMAIN s : s[i] = s[j] => i = j
        PROVE  \A i, j \in DOMAIN t : t[i] = t[j] => i = j
    BY <1>1, <1>3 DEF Contains
  <1> QED BY <1>1, <1>2, <1>3 DEF t

\* The first element of a list is in it.
LEMMA HeadFacts ==
  ASSUME NEW S, NEW s \in Seq(S), s # <<>>
  PROVE  Head(s) \in S /\ Contains(s, Head(s))
  <1>1. 1 \in 1 .. Len(s) /\ Head(s) = s[1] /\ s[1] \in S
    OBVIOUS
  <1> QED BY <1>1 DEF Contains

-----------------------------------------------------------------------------
(* Lemmas about schedule(). *)

\* If the list of the lowest level is not empty the scan stops at a list that
\* is not empty, of a level that is not passed over.
LEMMA ChosenFacts ==
  ASSUME ProcTypeOK, NEW lists, lists[PRIORITY_KIND - 1] # <<>>
  PROVE  /\ ChosenLevel(lists) \in Levels
         /\ ChosenLevel(lists) # PRIORITY_KIND
         /\ lists[ChosenLevel(lists)] # <<>>
         /\ ~PassedOver(ChosenLevel(lists))
  <1> DEFINE C == Candidates(lists)
  <1>1. max_priority \in 0 .. 4
    BY DEF ProcTypeOK, Levels, PRIORITY_KIND
  <1>2. C \subseteq 0 .. 4 /\ C \subseteq Levels
    BY <1>1 DEF Candidates, Levels, PRIORITY_KIND
  <1>3. 4 \in C
    BY <1>1 DEF Candidates, PassedOver, PRIORITY_KIND, BUDGETED
  <1>4. \E l \in C : \A m \in C : l <= m
    <2> HIDE DEF C
    <2>1. CASE 0 \in C
      BY <1>2, <2>1
    <2>2. CASE 0 \notin C /\ 1 \in C
      BY <1>2, <2>2
    <2>3. CASE 0 \notin C /\ 1 \notin C /\ 2 \in C
      BY <1>2, <2>3
    <2>4. CASE 0 \notin C /\ 1 \notin C /\ 2 \notin C /\ 3 \in C
      BY <1>2, <2>4
    <2>5. CASE 0 \notin C /\ 1 \notin C /\ 2 \notin C /\ 3 \notin C
      BY <1>2, <1>3, <2>5
    <2> QED BY <2>1, <2>2, <2>3, <2>4, <2>5
  <1>5. ChosenLevel(lists) = CHOOSE l \in C : \A m \in C : l <= m
    BY <1>3 DEF ChosenLevel
  <1>6. ChosenLevel(lists) \in C
    BY <1>4, <1>5
  <1>7. ChosenLevel(lists) \in 0 .. 4
    BY <1>2, <1>6
  <1> QED BY <1>2, <1>6, <1>7 DEF Candidates, PRIORITY_KIND

\* The current process is on the list of its level.
LEMMA CurrentListed ==
  ASSUME ProcInv
  PROVE  Contains(ready_processes[Priority[cur_proc]], cur_proc)
  <1>1. cur_proc \in Procs /\ status[cur_proc] = "RUNNING"
    BY DEF ProcInv, ProcTypeOK, OneRunning
  <1>2. ~Unlisted(cur_proc)
    BY <1>1 DEF ProcInv, StartReady, Unlisted
  <1> QED BY <1>1, <1>2 DEF ProcInv, ListsMatch, Match, Runnable

\* schedule(), called with ready lists that agree with the statuses once the
\* current process has its new one, keeps all parts of the invariant.
LEMMA ScheduleFacts ==
  ASSUME ProcInv,
         NEW stat \in Blocked \cup {"READY"},
         stat = "READY" \/ cur_proc # InitProc,
         NEW lists \in [Levels -> Seq(Procs)],
         Match(lists, [status EXCEPT ![cur_proc] = stat]),
         Schedule(stat, lists)
  PROVE  ProcInv'
  <1> DEFINE left == [status EXCEPT ![cur_proc] = stat]
             l == ChosenLevel(lists)
             next == NextProc(lists)
  <1> USE PriorityAssumption
  <1>1. /\ cur_proc \in Procs /\ status \in [Procs -> Status]
        /\ ready_processes \in [Levels -> Seq(Procs)]
        /\ max_rounds \in [0 .. BUDGETED - 1 -> 0 .. MaxRounds]
        /\ max_priority \in Levels
    BY DEF ProcInv, ProcTypeOK
  <1>2. left \in [Procs -> Status] /\ left[cur_proc] = stat
        /\ \A p \in Procs \ {cur_proc} : left[p] = status[p]
    BY <1>1 DEF Status, Runnable
  <1>3. left[InitProc] \in Runnable /\ ~Unlisted(InitProc)
    BY <1>2 DEF ProcInv, InitRunnable, Runnable, StartReady, Unlisted
  <1>4. Match(lists, left)
    OBVIOUS
  <1> HIDE DEF left
  <1>5. lists[PRIORITY_KIND - 1] # <<>>
    <2>1. Contains(lists[Priority[InitProc]], InitProc)
      BY <1>3, <1>4 DEF Match
    <2> QED BY <2>1 DEF Contains
  <1>6. l \in Levels /\ l # PRIORITY_KIND /\ lists[l] # <<>> /\ ~PassedOver(l)
    BY <1>5, ChosenFacts DEF ProcInv
  <1> HIDE DEF l
  <1>7. next \in Procs /\ left[next] \in Runnable /\ Contains(lists[Priority[next]], next)
    <2>0. \A q \in Procs : left[q] \in Runnable /\ ~Unlisted(q)
                            => Contains(lists[Priority[q]], q)
      BY <1>4 DEF Match
    <2>1. /\ Head(lists[l]) \in Procs /\ left[Head(lists[l])] \in Runnable
          /\ Contains(lists[Priority[Head(lists[l])]], Head(lists[l]))
      <3>1. Head(lists[l]) \in Procs /\ Contains(lists[l], Head(lists[l]))
        BY <1>6, HeadFacts
      <3>2. Priority[Head(lists[l])] = l
        BY <1>4, <1>6, <3>1 DEF Match, Contains
      <3> QED BY <1>4, <3>1, <3>2 DEF Match
    <2>2. CASE l = Priority[cur_proc]
      <3> DEFINE old == ready_processes[l]
                 here == CHOOSE i \in DOMAIN old : old[i] = cur_proc
      <3>1. old \in Seq(Procs)
        BY <1>1, <1>6
      <3>2. Contains(old, cur_proc)
        BY <1>1, <2>2, CurrentListed
      <3>3. here \in 1 .. Len(old) /\ old[here] = cur_proc
        BY <3>1, <3>2 DEF Contains
      <3>4. next = IF here = Len(old) THEN Head(lists[l]) ELSE old[here + 1]
        BY <1>6, <2>2 DEF NextProc, NextElem, l
      <3> HIDE DEF here, old, next
      <3>5. CASE here = Len(old)
        BY <2>1, <3>4, <3>5
      <3>6. CASE here # Len(old)
        <4>1. here + 1 \in DOMAIN old /\ here \in DOMAIN old /\ next = old[here + 1]
          BY <3>1, <3>3, <3>4, <3>6
        <4>2. next \in Procs /\ Contains(old, next)
          <5>1. here + 1 \in 1 .. Len(old)
            BY <3>1, <4>1
          <5>2. next \in Procs
            BY <3>1, <4>1, <5>1, ElementOfSeq
          <5> QED BY <4>1, <5>1, <5>2, Zenon DEF Contains
        <4>3. next # cur_proc
          <5>1. old[here + 1] = old[here] => here + 1 = here
            BY <1>6, <4>1 DEF ProcInv, ListsMatch, Match, old
          <5> QED BY <3>1, <3>3, <4>1, <5>1
        <4>4. Priority[next] = l
          BY <1>6, <4>1 DEF ProcInv, ListsMatch, Match, old
        <4>5. status[next] \in Runnable /\ ~Unlisted(next)
          BY <4>2, <4>4 DEF ProcInv, ListsMatch, Match, old
        <4> QED BY <1>2, <2>0, <4>2, <4>3, <4>5
      <3> QED BY <3>5, <3>6
    <2>3. CASE l # Priority[cur_proc]
      BY <1>6, <2>1, <2>3 DEF NextProc, l
    <2> QED BY <2>2, <2>3
  <1>8. /\ ready_processes' = lists /\ cur_proc' = next
        /\ max_rounds' = RoundsAfter(lists) /\ max_priority' = max_priority
        /\ status' = [left EXCEPT ![next] = "RUNNING"]
        /\ start_pc' = start_pc /\ start_proc' = start_proc /\ torn' \in BOOLEAN
    BY <1>6 DEF Schedule, Relist, startVars, l, left, ProcInv, ProcTypeOK
  <1> HIDE DEF next
  <1>9. RoundsAfter(lists) \in [0 .. BUDGETED - 1 -> 0 .. MaxRounds]
    <2> SUFFICES ASSUME NEW k \in 0 .. BUDGETED - 1
                 PROVE  RoundsAfter(lists)[k] \in 0 .. MaxRounds
      BY DEF RoundsAfter
    <2>1. max_rounds[k] \in 0 .. MaxRounds /\ MaxRounds \in Nat
      BY <1>1, RoundsAssumption
    <2>2. k = l => max_rounds[k] # 0
      BY <1>6 DEF PassedOver, BUDGETED
    <2>3. RoundsAfter(lists)[k] \in {MaxRounds, max_rounds[k]}
          \/ (k = l /\ RoundsAfter(lists)[k] = max_rounds[k] - 1)
      BY DEF RoundsAfter, l
    <2> QED BY <2>1, <2>2, <2>3
  <1>10. /\ status' \in [Procs -> Status]
         /\ status'[next] = "RUNNING"
         /\ \A p \in Procs \ {next} : status'[p] = left[p]
    BY <1>2, <1>7, <1>8 DEF Status, Runnable
  <1>11. ProcTypeOK'
    BY <1>1, <1>7, <1>8, <1>9, <1>10 DEF ProcInv, ProcTypeOK
  <1>12. \A p \in Procs : status'[p] \in Runnable <=> left[p] \in Runnable
    BY <1>7, <1>10 DEF Runnable
  <1>13. ListsMatch'
    BY <1>4, <1>8, <1>12 DEF Match, ListsMatch, Unlisted
  <1>14. OneRunning'
    <2>1. \A p \in Procs : left[p] # "RUNNING"
      BY <1>2 DEF ProcInv, OneRunning, Blocked
    <2> QED BY <1>8, <1>10, <2>1 DEF OneRunning
  <1>15. InitRunnable'
    BY <1>3, <1>12 DEF InitRunnable
  <1>16. StartReady'
    <2> SUFFICES ASSUME start_pc \in {"list", "link"}
                 PROVE  status'[start_proc] = "READY" /\ start_proc # InitProc
      BY <1>8 DEF StartReady
    <2>1. start_proc \in Procs /\ status[start_proc] = "READY" /\ start_proc # InitProc
      BY DEF ProcInv, ProcTypeOK, StartReady
    <2>2. left[start_proc] = "READY"
      BY <1>1, <1>2, <2>1 DEF ProcInv, OneRunning
    <2>3. ~Contains(lists[Priority[start_proc]], start_proc)
      BY <1>4, <2>1 DEF Match, Unlisted
    <2>4. Contains(lists[Priority[next]], next)
      BY <1>7
    <2> QED BY <1>10, <2>1, <2>2, <2>3, <2>4
  <1> QED BY <1>11, <1>13, <1>14, <1>15, <1>16 DEF ProcInv

\* Making a process ready that is on no list keeps all parts of the invariant.
LEMMA EnqueueFacts ==
  ASSUME ProcInv, NEW p \in Procs, status[p] \notin Runnable, UnblockProc(p)
  PROVE  ProcInv'
  <1> DEFINE l == Priority[p]
             s == ready_processes[l]
  <1> USE PriorityAssumption
  <1>1. /\ cur_proc \in Procs /\ status \in [Procs -> Status]
        /\ ready_processes \in [Levels -> Seq(Procs)]
        /\ l \in Levels /\ s \in Seq(Procs)
    BY DEF ProcInv, ProcTypeOK
  <1>2. /\ status' = [status EXCEPT ![p] = "READY"]
        /\ ready_processes' = [ready_processes EXCEPT ![l] = Append(s, p)]
        /\ max_priority' \in {l, max_priority}
        /\ cur_proc' = cur_proc /\ max_rounds' = max_rounds
        /\ start_pc' = start_pc /\ start_proc' = start_proc /\ torn' \in BOOLEAN
    BY <1>1 DEF UnblockProc, Relist, Enlisted, Raise, startVars, ProcInv, ProcTypeOK
  <1>3. /\ ready_processes'[l] = Append(s, p)
        /\ \A k \in Levels \ {l} : ready_processes'[k] = ready_processes[k]
    BY <1>1, <1>2
  <1>4. ~Contains(s, p) /\ \A i, j \in DOMAIN s : s[i] = s[j] => i = j
    BY <1>1 DEF ProcInv, ListsMatch, Match
  <1>5. /\ Append(s, p) \in Seq(Procs)
        /\ \A q : Contains(Append(s, p), q) <=> Contains(s, q) \/ q = p
        /\ \A i, j \in DOMAIN Append(s, p) : Append(s, p)[i] = Append(s, p)[j] => i = j
    BY <1>1, <1>4, AppendFacts
  <1>6. status'[p] = "READY" /\ \A q \in Procs \ {p} : status'[q] = status[q]
    BY <1>1, <1>2
  <1>7. ProcTypeOK'
    BY <1>1, <1>2, <1>5 DEF ProcInv, ProcTypeOK, Status, Runnable
  <1>8. \A q \in Procs : Contains(ready_processes'[Priority[q]], q)
                          <=> status'[q] \in Runnable /\ ~Unlisted(q)
    <2> TAKE q \in Procs
    <2>1. CASE q = p
      BY <1>3, <1>5, <1>6, <2>1 DEF Runnable, ProcInv, StartReady, Unlisted
    <2>2. CASE q # p
      <3>1. Contains(ready_processes'[Priority[q]], q) <=> Contains(ready_processes[Priority[q]], q)
        BY <1>3, <1>5, <2>2
      <3> QED BY <1>6, <2>2, <3>1 DEF ProcInv, ListsMatch, Match
    <2> QED BY <2>1, <2>2
  <1>9. \A k \in Levels : \A i, j \in DOMAIN ready_processes'[k] :
          /\ Priority[ready_processes'[k][i]] = k
          /\ ready_processes'[k][i] = ready_processes'[k][j] => i = j
    <2> TAKE k \in Levels
    <2>1. CASE k # l
      BY <1>3, <2>1 DEF ProcInv, ListsMatch, Match
    <2>2. CASE k = l
      <3>1. \A i \in DOMAIN s : Priority[s[i]] = l
        BY <1>1 DEF ProcInv, ListsMatch, Match
      <3>2. \A i \in DOMAIN Append(s, p) : Priority[Append(s, p)[i]] = l
        BY <1>1, <3>1
      <3> QED BY <1>3, <1>5, <2>2, <3>2
    <2> QED BY <2>1, <2>2
  <1>10. ListsMatch'
    BY <1>2, <1>8, <1>9 DEF ListsMatch, Match, Unlisted
  <1>11. OneRunning'
    BY <1>1, <1>2, <1>6 DEF ProcInv, OneRunning, Runnable
  <1>12. InitRunnable'
    BY <1>6 DEF ProcInv, InitRunnable, Runnable
  <1>13. StartReady'
    BY <1>2, <1>6 DEF ProcInv, ProcTypeOK, StartReady
  <1> QED BY <1>7, <1>10, <1>11, <1>12, <1>13 DEF ProcInv

\* Starting a process keeps all parts of the invariant, step by step.
LEMMA StartFacts ==
  ASSUME ProcInv, Start
  PROVE  ProcInv'
  <1> USE PriorityAssumption
  <1>1. /\ cur_proc \in Procs /\ status \in [Procs -> Status] /\ start_proc \in Procs
        /\ ready_processes \in [Levels -> Seq(Procs)] /\ max_priority \in Levels
    BY DEF ProcInv, ProcTypeOK
  <1>2. ASSUME NEW p \in Procs, StartProcess(p) PROVE ProcInv'
    <2>1. /\ status[p] = "FREE" /\ start_pc = "none" /\ start_pc' = "list" /\ start_proc' = p
          /\ status' = [status EXCEPT ![p] = "READY"]
          /\ UNCHANGED <<cur_proc, ready_processes, max_rounds, max_priority, torn>>
      BY <1>2 DEF StartProcess, KernelAt
    <2>2. status'[p] = "READY" /\ \A q \in Procs \ {p} : status'[q] = status[q]
      BY <1>1, <2>1
    <2>3. p # InitProc /\ p # cur_proc
      BY <1>1, <2>1 DEF ProcInv, InitRunnable, OneRunning, Runnable
    <2>4. ProcTypeOK'
      BY <1>1, <2>1 DEF ProcInv, ProcTypeOK, Status, Runnable
    <2>5. ListsMatch'
      <3>1. \A q \in Procs : Contains(ready_processes'[Priority[q]], q)
                              <=> status'[q] \in Runnable /\ ~Unlisted(q)'
        <4> TAKE q \in Procs
        <4>1. CASE q = p
          BY <2>1, <4>1 DEF ProcInv, ListsMatch, Match, Unlisted, Runnable
        <4>2. CASE q # p
          BY <2>1, <2>2, <4>2 DEF ProcInv, ListsMatch, Match, Unlisted
        <4> QED BY <4>1, <4>2
      <3> QED BY <2>1, <3>1 DEF ProcInv, ListsMatch, Match
    <2>6. StartReady'
      BY <2>1, <2>2, <2>3 DEF StartReady
    <2>7. OneRunning' /\ InitRunnable'
      BY <2>1, <2>2, <2>3 DEF ProcInv, OneRunning, InitRunnable
    <2> QED BY <2>4, <2>5, <2>6, <2>7 DEF ProcInv
  <1>3. CASE StartAppend
    <2>0. PICK p \in Procs : p = start_proc
      BY <1>1
    <2> DEFINE l == Priority[p]
               s == ready_processes[l]
    <2>1. /\ start_pc = "link" /\ start_pc' = "tail" /\ start_proc' = p
          /\ ready_processes' = [ready_processes EXCEPT ![l] = Append(s, p)]
          /\ UNCHANGED <<cur_proc, status, max_rounds, max_priority, torn>>
      BY <1>1, <1>3, <2>0 DEF StartAppend, KernelAt, Enlisted
    <2>2. /\ s \in Seq(Procs) /\ l \in Levels /\ ready_processes'[l] = Append(s, p)
          /\ \A k \in Levels \ {l} : ready_processes'[k] = ready_processes[k]
      BY <1>1, <2>1
    <2>3. status[p] \in Runnable /\ Unlisted(p)
      BY <2>0, <2>1 DEF ProcInv, StartReady, Unlisted, Runnable
    <2>4. ~Contains(s, p) /\ \A i, j \in DOMAIN s : s[i] = s[j] => i = j
      BY <1>1, <2>2, <2>3 DEF ProcInv, ListsMatch, Match
    <2>5. /\ Append(s, p) \in Seq(Procs)
          /\ \A q : Contains(Append(s, p), q) <=> Contains(s, q) \/ q = p
          /\ \A i, j \in DOMAIN Append(s, p) : Append(s, p)[i] = Append(s, p)[j] => i = j
      <3> HIDE DEF s
      <3> QED BY <2>2, <2>4, AppendFacts
    <2>6. \A q \in Procs : Contains(ready_processes'[Priority[q]], q)
                            <=> status'[q] \in Runnable /\ ~Unlisted(q)'
      <3> TAKE q \in Procs
      <3>1. ~Unlisted(q)'
        BY <2>1 DEF Unlisted
      <3>2. CASE q = p
        BY <2>1, <2>2, <2>3, <2>5, <3>1, <3>2
      <3>3. CASE q # p
        <4>1. Contains(ready_processes'[Priority[q]], q) <=> Contains(ready_processes[Priority[q]], q)
          BY <2>2, <2>5, <3>3
        <4>2. ~Unlisted(q)
          BY <2>0, <3>3 DEF Unlisted
        <4> QED BY <2>1, <3>1, <4>1, <4>2 DEF ProcInv, ListsMatch, Match
      <3> QED BY <3>2, <3>3
    <2>7. \A k \in Levels : \A i, j \in DOMAIN ready_processes'[k] :
            /\ Priority[ready_processes'[k][i]] = k
            /\ ready_processes'[k][i] = ready_processes'[k][j] => i = j
      <3> TAKE k \in Levels
      <3>1. CASE k # l
        BY <2>2, <3>1 DEF ProcInv, ListsMatch, Match
      <3>2. CASE k = l
        <4>1. \A i \in DOMAIN s : Priority[s[i]] = l
          BY <2>2 DEF ProcInv, ListsMatch, Match
        <4>2. \A i \in DOMAIN Append(s, p) : Priority[Append(s, p)[i]] = l
          BY <1>1, <2>2, <4>1
        <4> QED BY <2>2, <2>5, <3>2, <4>2
      <3> QED BY <3>1, <3>2
    <2>8. ListsMatch'
      BY <2>6, <2>7 DEF ListsMatch, Match
    <2>9. ProcTypeOK'
      BY <1>1, <2>1, <2>2, <2>5 DEF ProcInv, ProcTypeOK
    <2>10. StartReady' /\ OneRunning' /\ InitRunnable'
      BY <2>1 DEF ProcInv, StartReady, OneRunning, InitRunnable
    <2> QED BY <2>8, <2>9, <2>10 DEF ProcInv
  <1>4. CASE StartLink \/ StartTail \/ StartLevel
    <2>1. /\ start_pc \in {"list", "link"} <=> start_pc' \in {"list", "link"}
          /\ start_pc' \in {"none", "list", "link", "tail", "level"}
          /\ max_priority' \in Levels
          /\ UNCHANGED <<cur_proc, status, ready_processes, max_rounds, start_proc, torn>>
      BY <1>1, <1>4 DEF StartLink, StartTail, StartLevel, KernelAt, Raise
    <2>2. ProcTypeOK'
      BY <2>1 DEF ProcInv, ProcTypeOK
    <2>3. ListsMatch'
      BY <2>1 DEF ProcInv, ListsMatch, Match, Unlisted
    <2>4. StartReady' /\ OneRunning' /\ InitRunnable'
      BY <2>1 DEF ProcInv, StartReady, OneRunning, InitRunnable
    <2> QED BY <2>2, <2>3, <2>4 DEF ProcInv
  <1> QED BY <1>2, <1>3, <1>4 DEF Start

\* The current process may leave the CPU and stay ready.
LEMMA YieldFacts ==
  ASSUME ProcInv, Schedule("READY", ready_processes)
  PROVE  ProcInv'
  <1>1. /\ cur_proc \in Procs /\ status \in [Procs -> Status]
        /\ ready_processes \in [Levels -> Seq(Procs)]
    BY DEF ProcInv, ProcTypeOK
  <1>2. status[cur_proc] \in Runnable
    BY <1>1 DEF ProcInv, OneRunning, Runnable
  <1>3. \A p \in Procs :
          [status EXCEPT ![cur_proc] = "READY"][p] \in Runnable <=> status[p] \in Runnable
    BY <1>1, <1>2 DEF Runnable
  <1>4. Match(ready_processes, [status EXCEPT ![cur_proc] = "READY"])
    BY <1>3 DEF ProcInv, ListsMatch, Match
  <1> QED BY <1>1, <1>4, ScheduleFacts

\* Any process but init may block: it leaves its ready list with the CPU.
LEMMA SelfBlockFacts ==
  ASSUME ProcInv, cur_proc # InitProc, NEW stat \in Blocked, SelfBlock(stat)
  PROVE  ProcInv'
  <1> DEFINE l == Priority[cur_proc]
             s == ready_processes[l]
             t == Unlink(s, cur_proc)
             lists == [ready_processes EXCEPT ![l] = t]
             left == [status EXCEPT ![cur_proc] = stat]
  <1> USE PriorityAssumption
  <1>1. /\ cur_proc \in Procs /\ status \in [Procs -> Status]
        /\ ready_processes \in [Levels -> Seq(Procs)]
        /\ l \in Levels /\ s \in Seq(Procs)
    BY DEF ProcInv, ProcTypeOK
  <1>2. Contains(s, cur_proc) /\ \A i, j \in DOMAIN s : s[i] = s[j] => i = j
    BY <1>1, CurrentListed DEF ProcInv, ListsMatch, Match
  <1>3. /\ t \in Seq(Procs)
        /\ \A q : Contains(t, q) <=> Contains(s, q) /\ q # cur_proc
        /\ \A i, j \in DOMAIN t : t[i] = t[j] => i = j
    BY <1>1, <1>2, UnlinkFacts
  <1> HIDE DEF t
  <1>4. /\ lists \in [Levels -> Seq(Procs)]
        /\ lists[l] = t
        /\ \A k \in Levels \ {l} : lists[k] = ready_processes[k]
    BY <1>1, <1>3
  <1>5. left[cur_proc] = stat /\ \A q \in Procs \ {cur_proc} : left[q] = status[q]
    BY <1>1
  <1>6. Schedule(stat, lists)
    BY DEF SelfBlock, t
  <1> HIDE DEF lists, left
  <1>7. \A q \in Procs : Contains(lists[Priority[q]], q) <=> left[q] \in Runnable /\ ~Unlisted(q)
    <2> TAKE q \in Procs
    <2>1. CASE q = cur_proc
      BY <1>3, <1>4, <1>5, <2>1 DEF Blocked, Runnable
    <2>2. CASE q # cur_proc
      <3>1. Contains(lists[Priority[q]], q) <=> Contains(ready_processes[Priority[q]], q)
        BY <1>3, <1>4, <2>2
      <3> QED BY <1>5, <2>2, <3>1 DEF ProcInv, ListsMatch, Match
    <2> QED BY <2>1, <2>2
  <1>8. \A k \in Levels : \A i, j \in DOMAIN lists[k] :
          /\ Priority[lists[k][i]] = k
          /\ lists[k][i] = lists[k][j] => i = j
    <2> TAKE k \in Levels
    <2>1. CASE k # l
      <3>1. lists[k] = ready_processes[k]
        BY <1>4, <2>1
      <3>2. \A i, j \in DOMAIN ready_processes[k] :
              /\ Priority[ready_processes[k][i]] = k
              /\ ready_processes[k][i] = ready_processes[k][j] => i = j
        BY DEF ProcInv, ListsMatch, Match
      <3> QED BY <3>1, <3>2
    <2>2. CASE k = l
      <3>1. \A q : Contains(s, q) => Priority[q] = l
        BY <1>1 DEF ProcInv, ListsMatch, Match, Contains
      <3>2. \A i \in DOMAIN t : Contains(t, t[i])
        BY <1>3 DEF Contains
      <3>3. \A i \in DOMAIN t : Priority[t[i]] = l
        BY <1>3, <3>1, <3>2, Zenon
      <3> QED BY <1>3, <1>4, <2>2, <3>3, Zenon
    <2> QED BY <2>1, <2>2
  <1>9. Match(lists, left)
    BY <1>7, <1>8 DEF Match
  <1> QED BY <1>4, <1>6, <1>9, ScheduleFacts DEF left

-----------------------------------------------------------------------------
(* The invariant. *)

\* After boot the lists hold the processes that were started.
LEMMA ProcInvInit == ProcInit => ProcInv
  <1> SUFFICES ASSUME ProcInit PROVE ProcInv
    OBVIOUS
  <1> USE PriorityAssumption, BootAssumption
  <1>1. ProcTypeOK
    <2>1. \E l \in Levels : BootLists[l] # <<>> /\ \A k \in Levels : k < l => BootLists[k] = <<>>
      <3> DEFINE C == {l \in Levels : BootLists[l] # <<>>}
                 first(l) == l \in C /\ \A k \in Levels : k < l => k \notin C
      <3>1. 4 \in C
        BY DEF Contains, Levels, PRIORITY_KIND
      <3>2. Levels = 0 .. 4
        BY DEF Levels, PRIORITY_KIND
      <3> HIDE DEF C
      <3>3. \E l \in Levels : first(l)
        <4>1. CASE 0 \in C
          BY <3>2, <4>1
        <4>2. CASE 0 \notin C /\ 1 \in C
          BY <3>2, <4>2
        <4>3. CASE 0 \notin C /\ 1 \notin C /\ 2 \in C
          BY <3>2, <4>3
        <4>4. CASE 0 \notin C /\ 1 \notin C /\ 2 \notin C /\ 3 \in C
          BY <3>2, <4>4
        <4>5. CASE 0 \notin C /\ 1 \notin C /\ 2 \notin C /\ 3 \notin C
          BY <3>1, <3>2, <4>5
        <4> QED BY <4>1, <4>2, <4>3, <4>4, <4>5
      <3> QED BY <3>3 DEF C
    <2>2. max_priority \in Levels
      BY <2>1 DEF ProcInit
    <2>3. max_rounds \in [0 .. BUDGETED - 1 -> 0 .. MaxRounds]
      BY RoundsAssumption DEF ProcInit
    <2>4. status \in [Procs -> Status]
      BY DEF ProcInit, Status, Runnable
    <2> QED BY <2>2, <2>3, <2>4 DEF ProcInit, ProcTypeOK
  <1>2. \A p \in Procs : status[p] \in Runnable <=> Contains(BootLists[Priority[p]], p)
    BY DEF ProcInit, Runnable
  <1>3. ListsMatch
    BY <1>2 DEF ListsMatch, Match, ProcInit, Unlisted
  <1>4. OneRunning /\ InitRunnable /\ StartReady
    BY DEF ProcInit, OneRunning, InitRunnable, Runnable, StartReady
  <1> QED BY <1>1, <1>3, <1>4 DEF ProcInv

\* Every operation of the process manager keeps the invariant.
LEMMA ProcInvNext == ProcInv /\ [ProcNext]_procVars => ProcInv'
  <1> SUFFICES ASSUME ProcInv, [ProcNext]_procVars PROVE ProcInv'
    OBVIOUS
  <1>1. CASE TimerHandler
    BY <1>1, YieldFacts DEF TimerHandler
  <1>2. CASE Yield
    BY <1>2, YieldFacts DEF Yield, ProcYield
  <1>3. CASE Block
    BY <1>3, SelfBlockFacts DEF Block
  <1>4. ASSUME NEW p \in Procs, Unblock(p) PROVE ProcInv'
    BY <1>4, EnqueueFacts DEF Unblock, Runnable
  <1>5. CASE Start
    BY <1>5, StartFacts
  <1>6. CASE UNCHANGED procVars
    BY <1>6 DEF procVars, ProcInv, ProcTypeOK, ListsMatch, Match, Unlisted, StartReady,
                OneRunning, InitRunnable
  <1> QED BY <1>1, <1>2, <1>3, <1>4, <1>5, <1>6 DEF ProcNext

\* The types, the lists, the CPU and the init process agree throughout.
THEOREM ProcInvariant == ProcSpec => []ProcInv
  BY ProcInvInit, ProcInvNext, PTL DEF ProcSpec

\* Status, ready lists and round counters keep their ranges: in particular a
\* level that is out of rounds is never charged another one.
THEOREM ProcTypeCorrect == ProcSpec => []ProcTypeOK
  <1>1. ProcInv => ProcTypeOK
    BY DEF ProcInv
  <1> QED BY <1>1, ProcInvariant, PTL

\* No order of preemption, blocking, waking and starting puts a process on a
\* ready list twice or leaves a runnable one off it, but for the one being
\* started, for every set of processes, until a list is changed while the
\* kernel process is in the middle of an append to it.
THEOREM ReadyListsStayRight == ProcSpec => []ReadyListsMatchStatus
  <1>1. ProcInv => ReadyListsMatchStatus
    BY DEF ProcInv, ListsMatch, Match, ReadyListsMatchStatus
  <1> QED BY <1>1, ProcInvariant, PTL

\* schedule() always finds a process, for every assignment of priorities that
\* leaves the init process at the lowest level.
THEOREM AlwaysOneRunning == ProcSpec => []OneRunning
  <1>1. ProcInv => OneRunning
    BY DEF ProcInv
  <1> QED BY <1>1, ProcInvariant, PTL

=============================================================================
