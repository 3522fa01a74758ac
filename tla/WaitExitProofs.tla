--------------------------- MODULE WaitExitProofs ---------------------------
(***************************************************************************)
(* Proofs about module WaitExit, for any number of processes.              *)
(*                                                                         *)
(* LifeInv holds whatever programs pass to wait4(): who owns which lock,   *)
(* what the locals of a running function name, and where every pid is.     *)
(* FamilyInv adds the lists of children; it needs WaitOnly, which says     *)
(* that programs call wait4() the way initrc and ksh do, as wait() with a  *)
(* good address: wait4(pid) reaps without unlinking, and a failed copy of  *)
(* the status leaves an unlinked zombie.                                   *)
(***************************************************************************)
EXTENDS WaitExit, SequenceTheorems, TLAPS

Elems(s) == {s[i] : i \in DOMAIN s}
Once(s) == \A i, j \in DOMAIN s : i # j => s[i] # s[j]

(* The points at which the kernel thread of p owns wait_lock, the pcblock  *)
(* of tgt[p], and its own pcblock.                                         *)
WaitHeld == {"ex_repar", "ex_init", "ex_child", "ex_self", "ex_wake", "ex_off",
             "wt_scan", "wt_killed", "reap", "reap_clr"}
TgtHeld  == {"fk_link", "fk_ready", "wt_killed", "ws_test", "reap", "reap_clr"}
SelfHeld == {"resume", "wt_off", "ws_off", "ws_stale", "ex_wake", "ex_off", "dead"}

(* The state of a process, from the point its kernel thread is at.         *)
Exiting == {"ex_repar", "ex_init", "ex_child", "ex_self", "ex_wake", "ex_off", "dead"}
StateInv ==
    \A p \in Pids :
      /\ pc[p] = "resume" => st[p] \in {"NULL", "INITING", "READY", "RUNNING"}
      /\ pc[p] \in {"wt_off", "ws_off", "ws_stale"} => st[p] \in {"BLOCK", "READY", "RUNNING"}
      /\ pc[p] \in {"ex_wake", "ex_off"} => st[p] = "ZOMBIE"
      /\ pc[p] = "dead" => st[p] \in {"ZOMBIE", "NULL"}
      /\ pc[p] \notin SelfHeld => st[p] = "RUNNING"
      /\ pc[p] \in Exiting => p # InitPid

WlockInv == \A p \in Pids : wlock = p <=> pc[p] \in WaitHeld

PlockInv ==
    /\ \A p, q \in Pids : p # q =>
         (plock[q] = p <=> \/ pc[p] \in TgtHeld /\ tgt[p] = q
                           \/ pc[p] = "ex_child" /\ q = InitPid)
    /\ \A p \in Pids :
         /\ plock[p] = p => pc[p] \in SelfHeld /\ st[p] \in {"RUNNING", "BLOCK", "ZOMBIE"}
         /\ pc[p] \in {"resume", "wt_off", "ws_off"} /\ st[p] = "RUNNING" => plock[p] = p
         /\ pc[p] \in {"ex_wake", "ex_off"} => plock[p] = p

(* What tgt[p] names.                                                      *)
TgtOK(p) ==
    /\ pc[p] \in TgtHeld \cup {"fk_lock", "ws_off", "ws_relk"} => tgt[p] \in Pids \ {p}
    /\ pc[p] \in {"ex_init", "ex_child"} => tgt[p] \in Pids
    /\ pc[p] \in {"fk_link", "fk_ready"} => st[tgt[p]] = "INITING"
    /\ pc[p] \in {"wt_killed", "reap", "reap_clr"} => st[tgt[p]] = "ZOMBIE"
    /\ pc[p] \in {"ws_test", "ws_off", "ws_relk"} => st[tgt[p]] \notin {"NULL", "INITING"}
TgtInv == \A p \in Pids : TgtOK(p)

(* sys_wait4() scans the list from its first node.                         *)
ScanInv == \A p \in Pids : pc[p] = "wt_scan" => num[p] # 0

InitingInv ==
    \A c \in Pids : st[c] = "INITING" =>
       \E p \in Pids : pc[p] \in {"fk_link", "fk_ready"} /\ tgt[p] = c

(* Sleepers: in wait(), and on the wait_list of the one they wait for.     *)
SleepInv ==
    /\ \A q \in Pids : w4child[q] => pc[q] = "wt_off"
    /\ \A t, q \in Pids : q \in waitlist[t] =>
          st[q] = "BLOCK" /\ pc[q] = "ws_off" /\ tgt[q] = t
    /\ \A t \in Pids : pc[t] \in {"ex_off", "dead"} => waitlist[t] = {}

(* A pid is in the queue or being given out exactly when it names no       *)
(* process, or one whose pcb is about to be cleared.                       *)
Taking(c) == \E p \in Pids : pc[p] = "fk_lock" /\ tgt[p] = c
Clearing(c) == \E p \in Pids : pc[p] = "reap_clr" /\ tgt[p] = c
PidInv ==
    /\ st[InitPid] \notin {"NULL", "INITING", "ZOMBIE"}
    /\ Once(pidq)
    /\ \A c \in Pids :
         /\ (c \in Elems(pidq) \/ Taking(c)) <=> (st[c] = "NULL" \/ Clearing(c))
         /\ ~ (c \in Elems(pidq) /\ Taking(c))
    /\ \A p, q \in Pids : p # q /\ pc[p] = "fk_lock" /\ pc[q] = "fk_lock" => tgt[p] # tgt[q]

LifeInv == TypeOK /\ StateInv /\ WlockInv /\ PlockInv /\ TgtInv /\ ScanInv
           /\ InitingInv /\ SleepInv /\ PidInv

(* Programs call wait4() as wait(), with a status address that is mapped.  *)
WaitOnly == WaitPids = {} /\ StatusFaults = {FALSE}

(* Nobody waits by pid.                                                    *)
PidWait == {"ws_test", "ws_off", "ws_relk", "ws_stale"}
NoPidWait == \A p \in Pids : waitlist[p] = {} /\ pc[p] \notin PidWait

(* The child is off its parent's list: on its way to init, or being reaped.*)
InHand == {"ex_init", "ex_child", "wt_killed", "reap", "reap_clr"}

(* The points from which on p has no children.                             *)
Childless == {"ex_self", "ex_wake", "ex_off", "dead"}

(* The list of children of q: each once, none of them init, all with q as  *)
(* their parent; empty once q has handed them over, and before q runs.     *)
MemberOK(q) ==
    /\ Once(children[q])
    /\ \A c \in Elems(children[q]) :
         /\ c \in Pids \ {InitPid} /\ parent[c] = q /\ st[c] # "NULL"
         /\ st[c] = "INITING" => pc[q] = "fk_ready" /\ tgt[q] = c
    /\ pc[q] \in Childless \/ st[q] \in {"NULL", "INITING"} => children[q] = <<>>
MemberInv == \A q \in Pids : MemberOK(q)

(* The child a function of p has taken off the list, or has just put there.*)
HandOK(p) ==
    /\ pc[p] \in InHand => /\ tgt[p] # InitPid /\ parent[tgt[p]] = p
                           /\ tgt[p] \notin Elems(children[p])
                           /\ st[tgt[p]] \notin {"NULL", "INITING"}
    /\ pc[p] = "fk_ready" => tgt[p] \in Elems(children[p])
HandInv == \A p \in Pids : HandOK(p)

(* A process is on its parent's list, or in its parent's hands.            *)
ListedOK(c) ==
    c # InitPid /\ st[c] \notin {"NULL", "INITING"} =>
       /\ parent[c] \in Pids
       /\ \/ c \in Elems(children[parent[c]])
          \/ pc[parent[c]] \in InHand /\ tgt[parent[c]] = c
ListedInv == \A c \in Pids : ListedOK(c)

FamilyInv == LifeInv /\ NoPidWait /\ MemberInv /\ HandInv /\ ListedInv
-----------------------------------------------------------------------------
(* Pid 0 is no process of the model; init is one.                          *)
LEMMA PidsFacts == InitPid \in Pids /\ 0 \notin Pids /\ Pids \subseteq Nat
BY WaitExitAssumption DEF Pids, InitPid

(* A step that neither gives out nor takes back a pid, and clears no pcb.  *)
LEMMA PidsQuiet ==
  ASSUME PidInv, pidq' = pidq, st'[InitPid] \notin {"NULL", "INITING", "ZOMBIE"},
         \A q \in Pids : /\ pc'[q] = "fk_lock" <=> pc[q] = "fk_lock"
                         /\ pc'[q] = "reap_clr" <=> pc[q] = "reap_clr"
                         /\ pc[q] \in {"fk_lock", "reap_clr"} => tgt'[q] = tgt[q]
                         /\ st'[q] = "NULL" <=> st[q] = "NULL"
  PROVE  PidInv'
<1>1. ASSUME NEW c \in Pids
      PROVE  (Taking(c)' <=> Taking(c)) /\ (Clearing(c)' <=> Clearing(c))
  BY DEF Taking, Clearing
<1>2. Once(pidq)' /\ Elems(pidq)' = Elems(pidq)
  BY DEF PidInv, Once, Elems
<1>3. \A p, q \in Pids : (p # q /\ pc[p] = "fk_lock" /\ pc[q] = "fk_lock" => tgt[p] # tgt[q])'
  BY DEF PidInv
<1> QED BY <1>1, <1>2, <1>3 DEF PidInv

(* What is left of a list without repetitions when its head is taken off.  *)
LEMMA TailElems ==
  ASSUME NEW S, NEW s \in Seq(S), s # <<>>, Once(s)
  PROVE  /\ Head(s) \in Elems(s) /\ Head(s) \in S /\ Tail(s) \in Seq(S)
         /\ Once(Tail(s)) /\ Elems(Tail(s)) = Elems(s) \ {Head(s)}
<1>1. /\ Len(s) \in Nat \ {0} /\ DOMAIN s = 1 .. Len(s) /\ Head(s) = s[1]
      /\ Tail(s) \in Seq(S) /\ DOMAIN Tail(s) = 1 .. (Len(s) - 1)
      /\ \A i \in 1 .. (Len(s) - 1) : Tail(s)[i] = s[i + 1]
  OBVIOUS
<1>2. Head(s) \in Elems(s) /\ Head(s) \in S
  BY <1>1 DEF Elems
<1>3. Once(Tail(s))
  BY <1>1 DEF Once
<1>4. ASSUME NEW i \in DOMAIN Tail(s) PROVE Tail(s)[i] \in Elems(s) /\ Tail(s)[i] # Head(s)
  BY <1>1 DEF Once, Elems
<1>5. ASSUME NEW i \in DOMAIN s, s[i] # Head(s) PROVE s[i] \in Elems(Tail(s))
  <2>1. (i - 1) \in DOMAIN Tail(s) /\ Tail(s)[i - 1] = s[i]
    BY <1>1, <1>5
  <2> QED BY <2>1 DEF Elems
<1>6. Elems(Tail(s)) = Elems(s) \ {Head(s)}
  BY <1>4, <1>5 DEF Elems
<1> QED BY <1>1, <1>2, <1>3, <1>6

(* A list with a new element at its end, and at its front.                 *)
LEMMA AppendElems ==
  ASSUME NEW S, NEW s \in Seq(S), NEW e \in S, Once(s), e \notin Elems(s)
  PROVE  /\ Append(s, e) \in Seq(S) /\ Once(Append(s, e))
         /\ Elems(Append(s, e)) = Elems(s) \cup {e}
<1>1. /\ Len(s) \in Nat /\ DOMAIN s = 1 .. Len(s) /\ Append(s, e) \in Seq(S)
      /\ DOMAIN Append(s, e) = 1 .. (Len(s) + 1)
      /\ \A i \in 1 .. Len(s) : Append(s, e)[i] = s[i]
      /\ Append(s, e)[Len(s) + 1] = e
  OBVIOUS
<1>2. \A i \in DOMAIN Append(s, e) : i \in DOMAIN s \/ i = Len(s) + 1
  BY <1>1
<1>3. Once(Append(s, e))
  BY <1>1, <1>2 DEF Once, Elems
<1>4. Elems(Append(s, e)) = Elems(s) \cup {e}
  <2>1. \A i \in DOMAIN s : i \in DOMAIN Append(s, e)
    BY <1>1
  <2>2. Len(s) + 1 \in DOMAIN Append(s, e)
    BY <1>1
  <2> QED BY <1>1, <1>2, <2>1, <2>2 DEF Elems
<1> QED BY <1>1, <1>3, <1>4

(* A list with a new element at its front.                                 *)
LEMMA FrontElems ==
  ASSUME NEW S, NEW s \in Seq(S), NEW e \in S, Once(s), e \notin Elems(s)
  PROVE  /\ <<e>> \o s \in Seq(S) /\ Once(<<e>> \o s)
         /\ Elems(<<e>> \o s) = Elems(s) \cup {e}
<1> DEFINE t == <<e>> \o s
<1>1. /\ Len(s) \in Nat /\ DOMAIN s = 1 .. Len(s) /\ t \in Seq(S)
      /\ DOMAIN t = 1 .. (Len(s) + 1) /\ t[1] = e
      /\ \A i \in 1 .. Len(s) : t[i + 1] = s[i]
  OBVIOUS
<1> HIDE DEF t
<1>2. \A i \in DOMAIN t : i = 1 \/ (i - 1 \in DOMAIN s /\ t[i] = s[i - 1])
  <2> SUFFICES ASSUME NEW i \in DOMAIN t, i # 1 PROVE i - 1 \in DOMAIN s /\ t[i] = s[i - 1]
    OBVIOUS
  <2>1. i - 1 \in 1 .. Len(s) /\ (i - 1) + 1 = i
    BY <1>1
  <2> QED BY <1>1, <2>1
<1>3. Once(t)
  <2> SUFFICES ASSUME NEW i \in DOMAIN t, NEW j \in DOMAIN t, i # j PROVE t[i] # t[j]
    BY DEF Once
  <2>1. CASE i = 1
    BY <2>1, <1>1, <1>2 DEF Elems
  <2>2. CASE j = 1
    BY <2>2, <1>1, <1>2 DEF Elems
  <2>3. CASE i # 1 /\ j # 1
    <3>1. i - 1 # j - 1
      BY <1>1
    <3> QED BY <2>3, <1>2, <3>1 DEF Once
  <2> QED BY <2>1, <2>2, <2>3
<1>4. Elems(t) = Elems(s) \cup {e}
  <2>1. \A i \in DOMAIN s : i + 1 \in DOMAIN t /\ t[i + 1] = s[i]
    BY <1>1
  <2>2. 1 \in DOMAIN t
    BY <1>1
  <2> QED BY <1>1, <1>2, <2>1, <2>2 DEF Elems
<1> QED BY <1>1, <1>3, <1>4 DEF t

(* list_del() takes off the list the node at its position and no other.    *)
LEMMA DelElems ==
  ASSUME NEW S, NEW s \in Seq(S), NEW k \in DOMAIN s
  PROVE  /\ list_del(s, k) \in Seq(S)
         /\ Once(s) => /\ Once(list_del(s, k))
                       /\ Elems(list_del(s, k)) = Elems(s) \ {s[k]}
<1>1. k \in 1 .. Len(s) /\ Len(s) \in Nat /\ DOMAIN s = 1 .. Len(s)
  OBVIOUS
<1> DEFINE u == SubSeq(s, 1, k - 1)
           v == SubSeq(s, k + 1, Len(s))
           t == u \o v
<1>2. list_del(s, k) = t
  BY DEF list_del
<1>3. u \in Seq(S) /\ Len(u) = k - 1 /\ \A i \in 1 .. (k - 1) : u[i] = s[i]
  BY <1>1
<1>4. v \in Seq(S) /\ Len(v) = Len(s) - k
      /\ \A i \in 1 .. (Len(s) - k) : v[i] = s[k + i]
  BY <1>1
<1> HIDE DEF u, v
<1>5. t \in Seq(S) /\ Len(t) = Len(s) - 1 /\ DOMAIN t = 1 .. (Len(s) - 1)
  <2>1. t \in Seq(S) /\ Len(t) = Len(u) + Len(v)
    BY <1>3, <1>4, ConcatProperties
  <2>2. DOMAIN t = 1 .. Len(t)
    BY <2>1
  <2> QED BY <2>1, <2>2, <1>1, <1>3, <1>4
<1>6. \A n \in 1 .. (Len(s) - 1) : t[n] = IF n < k THEN s[n] ELSE s[n + 1]
  <2> SUFFICES ASSUME NEW n \in 1 .. (Len(s) - 1)
               PROVE  t[n] = IF n < k THEN s[n] ELSE s[n + 1]
    OBVIOUS
  <2>1. t[n] = IF n <= Len(u) THEN u[n] ELSE v[n - Len(u)]
    BY <1>1, <1>3, <1>4, ConcatProperties
  <2>2. CASE n < k
    BY <2>1, <2>2, <1>1, <1>3
  <2>3. CASE n >= k
    <3>1. n - (k - 1) \in 1 .. (Len(s) - k) /\ k + (n - (k - 1)) = n + 1
      BY <2>3, <1>1
    <3>2. t[n] = v[n - (k - 1)]
      BY <2>1, <2>3, <1>1, <1>3
    <3>3. v[n - (k - 1)] = s[n + 1]
      BY <3>1, <1>4
    <3>4. ~ n < k
      BY <2>3, <1>1
    <3> QED BY <3>2, <3>3, <3>4
  <2>4. n < k \/ n >= k
    BY <1>1
  <2> QED BY <2>2, <2>3, <2>4
<1> HIDE DEF t
<1>7. ASSUME Once(s) PROVE Once(t) /\ Elems(t) = Elems(s) \ {s[k]}
  <2> DEFINE f(n) == IF n < k THEN n ELSE n + 1
  <2>1. \A n \in DOMAIN t : f(n) \in DOMAIN s /\ f(n) # k /\ t[n] = s[f(n)]
    BY <1>1, <1>5, <1>6
  <2>2. \A m, n \in DOMAIN t : m # n => f(m) # f(n)
    BY <1>1, <1>5
  <2>3. \A i \in DOMAIN s : i # k => \E n \in DOMAIN t : f(n) = i
    <3> SUFFICES ASSUME NEW i \in DOMAIN s, i # k PROVE \E n \in DOMAIN t : f(n) = i
      OBVIOUS
    <3>1. CASE i < k
      BY <3>1, <1>1, <1>5
    <3>2. CASE i > k
      <4>1. i - 1 \in DOMAIN t /\ f(i - 1) = i
        BY <3>2, <1>1, <1>5
      <4> QED BY <4>1
    <3> QED BY <3>1, <3>2, <1>1
  <2> HIDE DEF f
  <2>4. Once(t)
    BY <1>7, <2>1, <2>2 DEF Once
  <2>5. Elems(t) = Elems(s) \ {s[k]}
    <3>1. \A n \in DOMAIN t : t[n] \in Elems(s) /\ t[n] # s[k]
      BY <1>7, <2>1 DEF Once, Elems
    <3>2. \A i \in DOMAIN s : s[i] # s[k] => s[i] \in Elems(t)
      BY <2>1, <2>3 DEF Elems
    <3> QED BY <3>1, <3>2 DEF Elems
  <2> QED BY <2>4, <2>5
<1> QED BY <1>2, <1>5, <1>7

(* The one whose pcblock a function has taken: it is another process, and  *)
(* no other function has it.                                               *)
LEMMA HeldTgt ==
  ASSUME LifeInv, NEW p \in Pids, pc[p] \in TgtHeld
  PROVE  /\ tgt[p] \in Pids /\ tgt[p] # p /\ plock[tgt[p]] = p
         /\ \A q \in Pids : pc[q] \in TgtHeld /\ tgt[q] = tgt[p] => q = p
<1>1. tgt[p] \in Pids /\ tgt[p] # p
  BY DEF LifeInv, TgtInv, TgtOK
<1>2. plock[tgt[p]] = p
  BY <1>1 DEF LifeInv, PlockInv
<1>3. \A q \in Pids : pc[q] \in TgtHeld /\ tgt[q] = tgt[p] => plock[tgt[p]] = q
  BY <1>1 DEF LifeInv, PlockInv, TgtInv, TgtOK
<1> QED BY <1>1, <1>2, <1>3

(* The new process of a fork.                                              *)
LEMMA ForkTgt ==
  ASSUME LifeInv, NEW p \in Pids, pc[p] \in {"fk_link", "fk_ready"}
  PROVE  st[tgt[p]] = "INITING" /\ pc[tgt[p]] = "resume" /\ tgt[p] # InitPid
<1>1. pc[p] \in TgtHeld
  BY DEF TgtHeld
<1>2. tgt[p] \in Pids /\ st[tgt[p]] = "INITING"
  BY <1>1, HeldTgt DEF LifeInv, TgtInv, TgtOK
<1> QED BY <1>2 DEF LifeInv, StateInv, SelfHeld, PidInv

(* The zombie that wait4() has found.                                      *)
LEMMA ZombieTgt ==
  ASSUME LifeInv, NEW p \in Pids, pc[p] \in {"wt_killed", "reap", "reap_clr"}
  PROVE  /\ st[tgt[p]] = "ZOMBIE" /\ pc[tgt[p]] = "dead" /\ tgt[p] # InitPid
         /\ waitlist[tgt[p]] = {}
<1>1. pc[p] \in TgtHeld
  BY DEF TgtHeld
<1>2. tgt[p] \in Pids /\ tgt[p] # p /\ plock[tgt[p]] = p /\ st[tgt[p]] = "ZOMBIE"
  BY <1>1, HeldTgt DEF LifeInv, TgtInv, TgtOK
<1>3. pc[tgt[p]] = "dead"
  <2>1. pc[tgt[p]] \notin {"ex_wake", "ex_off"}
    BY <1>2 DEF LifeInv, PlockInv
  <2> QED BY <1>2, <2>1 DEF LifeInv, StateInv, SelfHeld
<1> QED BY <1>2, <1>3 DEF LifeInv, SleepInv, PidInv

(* Nothing happens.                                                        *)
LEMMA LifeStutter ==
  ASSUME LifeInv, UNCHANGED vars
  PROVE  LifeInv'
<1>1. TypeOK' /\ StateInv' /\ WlockInv' /\ PlockInv'
  BY DEF vars, LifeInv, TypeOK, StateInv, WlockInv, PlockInv
<1>2. TgtInv' /\ ScanInv' /\ InitingInv' /\ SleepInv'
  BY DEF vars, LifeInv, TgtInv, TgtOK, ScanInv, InitingInv, SleepInv
<1>3. PidInv'
  BY DEF vars, LifeInv, PidInv, Taking, Clearing
<1> QED BY <1>1, <1>2, <1>3 DEF LifeInv

-----------------------------------------------------------------------------
(* LifeInv is preserved, action by action.                                 *)

(* scheduler() runs a ready process.                                       *)
LEMMA DispatchLife ==
  ASSUME LifeInv, NEW p \in Pids, Dispatch(p)
  PROVE  LifeInv'
<1> USE PidsFacts DEF LifeInv, At, Goto, Lock, Unlock, Forget, Dispatch
<1>1. TypeOK'
  BY DEF PCs, TypeOK
<1>2. StateInv'
  BY DEF TypeOK, StateInv, SelfHeld, Exiting
<1>3. WlockInv'
  BY DEF TypeOK, WlockInv, WaitHeld
<1>4. PlockInv'
  BY DEF TypeOK, PlockInv, TgtHeld, SelfHeld, StateInv, TgtInv, TgtOK, Exiting, SleepInv, PidInv
<1>5. TgtInv'
  BY DEF TypeOK, TgtInv, TgtOK, TgtHeld
<1>6. InitingInv'
  BY DEF TypeOK, InitingInv
<1>7. SleepInv'
  BY DEF TypeOK, SleepInv, TgtInv, TgtOK
<1>8. PidInv'
  BY PidsQuiet DEF TypeOK, PidInv
<1>9. ScanInv'
  BY DEF TypeOK, ScanInv
<1> QED BY <1>1, <1>2, <1>3, <1>4, <1>5, <1>6, <1>7, <1>8, <1>9

(* The pcblock of a process that is off its stack is released.             *)
LEMMA DescheduledLife ==
  ASSUME LifeInv, NEW p \in Pids, Descheduled(p)
  PROVE  LifeInv'
<1> USE PidsFacts DEF LifeInv, At, Goto, Lock, Unlock, Forget, Descheduled
<1>1. TypeOK'
  BY DEF PCs, TypeOK
<1>2. StateInv'
  BY DEF TypeOK, StateInv, SelfHeld, Exiting
<1>3. WlockInv'
  BY DEF TypeOK, WlockInv, WaitHeld
<1>4. PlockInv'
  BY DEF TypeOK, PlockInv, TgtHeld, SelfHeld, TgtInv, TgtOK
<1>5. TgtInv'
  BY DEF TypeOK, TgtInv, TgtOK, TgtHeld
<1>6. InitingInv'
  BY DEF TypeOK, InitingInv
<1>7. SleepInv'
  BY DEF TypeOK, SleepInv, TgtInv, TgtOK
<1>8. PidInv'
  BY PidsQuiet DEF TypeOK, PidInv
<1>9. ScanInv'
  BY DEF TypeOK, ScanInv
<1> QED BY <1>1, <1>2, <1>3, <1>4, <1>5, <1>6, <1>7, <1>8, <1>9

(* A new process runs for the first time.                                  *)
LEMMA ForkretLife ==
  ASSUME LifeInv, NEW p \in Pids, Forkret(p)
  PROVE  LifeInv'
<1> USE PidsFacts DEF LifeInv, At, Goto, Lock, Unlock, Forget, Forkret
<1>1. TypeOK'
  BY DEF PCs, TypeOK
<1>2. StateInv'
  BY DEF TypeOK, StateInv, SelfHeld, Exiting
<1>3. WlockInv'
  BY DEF TypeOK, WlockInv, WaitHeld
<1>4. PlockInv'
  <2>0. PlockInv /\ pc[p] = "resume" /\ plock[p] = p
    <3>1. pc[p] = "resume" /\ st[p] = "RUNNING"
      BY DEF StateInv
    <3> QED BY <3>1 DEF PlockInv
  <2>1. /\ pc'[p] = "user" /\ plock'[p] = 0
        /\ \A q \in Pids \ {p} : plock'[q] = plock[q] /\ pc'[q] = pc[q]
        /\ st' = st /\ tgt' = tgt
    BY DEF TypeOK
  <2> HIDE DEF LifeInv, Forkret
  <2>2. ASSUME NEW q \in Pids, NEW r \in Pids, q # r
        PROVE  plock'[r] = q <=> \/ pc'[q] \in TgtHeld /\ tgt'[q] = r
                                 \/ pc'[q] = "ex_child" /\ r = InitPid
    BY <2>0, <2>1, <2>2 DEF PlockInv, TgtHeld
  <2>3. ASSUME NEW q \in Pids
        PROVE  /\ plock'[q] = q => /\ pc'[q] \in SelfHeld
                                  /\ st'[q] \in {"RUNNING", "BLOCK", "ZOMBIE"}
               /\ pc'[q] \in {"resume", "wt_off", "ws_off"} /\ st'[q] = "RUNNING" => plock'[q] = q
               /\ pc'[q] \in {"ex_wake", "ex_off"} => plock'[q] = q
    BY <2>0, <2>1 DEF PlockInv, SelfHeld
  <2> QED BY <2>2, <2>3 DEF PlockInv
<1>5. TgtInv'
  BY DEF TypeOK, TgtInv, TgtOK, TgtHeld
<1>6. InitingInv'
  BY DEF TypeOK, InitingInv
<1>7. SleepInv'
  BY DEF TypeOK, SleepInv, TgtInv, TgtOK
<1>8. PidInv'
  BY PidsQuiet DEF TypeOK, PidInv
<1>9. ScanInv'
  BY DEF TypeOK, ScanInv
<1> QED BY <1>1, <1>2, <1>3, <1>4, <1>5, <1>6, <1>7, <1>8, <1>9

(* allocpid() takes a pid off the queue.                                   *)
LEMMA ForkAllocpidLife ==
  ASSUME LifeInv, NEW p \in Pids, ForkAllocpid(p)
  PROVE  LifeInv'
<1> USE PidsFacts DEF LifeInv, At, Goto, Lock, Unlock, Forget, ForkAllocpid
<1>0. /\ Head(pidq) \in Elems(pidq) /\ Head(pidq) \in Pids
      /\ Tail(pidq) \in Seq(Pids) /\ Once(Tail(pidq))
      /\ Elems(Tail(pidq)) = Elems(pidq) \ {Head(pidq)}
  BY TailElems DEF TypeOK, PidInv
<1>c. Head(pidq) # p /\ ~ Taking(Head(pidq))
  <2>1. st[p] = "RUNNING" /\ pc[p] = "user"
    BY DEF StateInv, SelfHeld
  <2>2. st[Head(pidq)] = "NULL" \/ Clearing(Head(pidq))
    BY <1>0 DEF PidInv
  <2>3. ~ Taking(Head(pidq))
    BY <1>0 DEF PidInv
  <2>4. Clearing(Head(pidq)) => st[Head(pidq)] = "ZOMBIE"
    BY DEF Clearing, TgtInv, TgtOK
  <2> QED BY <2>1, <2>2, <2>3, <2>4
<1>1. TypeOK'
  <2>1. pc' \in [Pids -> PCs]
    BY DEF PCs, TypeOK
  <2>2. tgt' \in [Pids -> Pids \cup {0}]
    BY <1>0 DEF TypeOK
  <2> QED BY <1>0, <2>1, <2>2 DEF TypeOK
<1>2. StateInv'
  BY <1>0 DEF TypeOK, StateInv, SelfHeld, Exiting
<1>3. WlockInv'
  BY <1>0 DEF TypeOK, WlockInv, WaitHeld
<1>4. PlockInv'
  BY <1>0, SMTT(30) DEF TypeOK, PlockInv, TgtHeld, SelfHeld, TgtInv, TgtOK
<1>5. TgtInv'
  <2>1. /\ pc'[p] = "fk_lock" /\ tgt'[p] = Head(pidq) /\ st' = st
        /\ \A q \in Pids \ {p} : pc'[q] = pc[q] /\ tgt'[q] = tgt[q]
    BY DEF TypeOK
  <2>2. ASSUME NEW q \in Pids PROVE TgtOK(q)'
    <3>1. TgtOK(q)
      BY DEF TgtInv, TgtOK
    <3> HIDE DEF LifeInv, ForkAllocpid
    <3> QED BY <1>0, <1>c, <2>1, <3>1 DEF TgtOK, TgtHeld
  <2> QED BY <2>2 DEF TgtInv, TgtOK
<1>6. InitingInv'
  BY <1>0 DEF TypeOK, InitingInv
<1>7. SleepInv'
  BY <1>0 DEF TypeOK, SleepInv, TgtInv, TgtOK
<1>8. PidInv'
  <2>1. /\ \A q \in Pids \ {p} : pc'[q] = pc[q] /\ tgt'[q] = tgt[q]
        /\ pc[p] = "user" /\ pc'[p] = "fk_lock" /\ tgt'[p] = Head(pidq)
        /\ st' = st /\ pidq' = Tail(pidq)
    BY DEF TypeOK
  <2>2. ASSUME NEW c \in Pids
        PROVE  (Taking(c)' <=> Taking(c) \/ c = Head(pidq)) /\ (Clearing(c)' <=> Clearing(c))
    BY <2>1 DEF Taking, Clearing
  <2>3. Once(pidq)' /\ Elems(pidq)' = Elems(pidq) \ {Head(pidq)}
    BY <1>0, <2>1
  <2>4. \A q \in Pids : pc[q] = "fk_lock" => tgt[q] # Head(pidq)
    BY <1>c DEF Taking
  <2>5. ASSUME NEW q \in Pids, NEW r \in Pids, q # r, pc'[q] = "fk_lock", pc'[r] = "fk_lock"
        PROVE  tgt'[q] # tgt'[r]
    BY <2>1, <2>4, <2>5 DEF PidInv
  <2>6. /\ st'[InitPid] \notin {"NULL", "INITING", "ZOMBIE"}
        /\ \A c \in Pids : /\ (c \in Elems(pidq) \/ Taking(c))'
                                <=> (st[c] = "NULL" \/ Clearing(c))'
                           /\ ~ (c \in Elems(pidq) /\ Taking(c))'
    BY <1>0, <1>c, <2>1, <2>2, <2>3 DEF PidInv
  <2> QED BY <2>3, <2>5, <2>6 DEF PidInv
<1>9. ScanInv'
  BY <1>0 DEF TypeOK, ScanInv
<1> QED BY <1>1, <1>2, <1>3, <1>4, <1>5, <1>6, <1>7, <1>8, <1>9

(* allocproc() fills in a pcb that nobody uses.                            *)
LEMMA ForkAllocprocLife ==
  ASSUME LifeInv, NEW p \in Pids, ForkAllocproc(p)
  PROVE  LifeInv'
<1> USE PidsFacts
<1>a. PICK c \in Pids : c = tgt[p] /\ c # p
  BY DEF ForkAllocproc, At, LifeInv, TgtInv, TgtOK
<1>b. plock[c] = 0 /\ pc[p] = "fk_lock" /\ st[p] = "RUNNING"
  BY <1>a DEF ForkAllocproc, At, Lock, LifeInv, StateInv, SelfHeld
<1>c. ~ Clearing(c) /\ Taking(c)
  <2>1. \A q \in Pids : pc[q] = "reap_clr" => plock[tgt[q]] = q
    BY HeldTgt DEF TgtHeld
  <2> QED BY <1>a, <1>b, <2>1 DEF Clearing, Taking
<1>d. st[c] = "NULL" /\ pc[c] \in {"resume", "dead"} /\ c # InitPid
  BY <1>a, <1>c DEF LifeInv, PidInv, StateInv, SelfHeld
<1>e. /\ \A q \in Pids \ {c, p} : pc'[q] = pc[q]
      /\ \A q \in Pids \ {c} : /\ st'[q] = st[q] /\ w4child'[q] = w4child[q]
                               /\ waitlist'[q] = waitlist[q] /\ plock'[q] = plock[q]
      /\ pc'[c] = "resume" /\ pc'[p] = "fk_link" /\ st'[c] = "INITING" /\ ~ w4child'[c]
      /\ waitlist'[c] = {} /\ plock'[c] = p
      /\ wlock' = wlock /\ tgt' = tgt /\ pidq' = pidq /\ num' = num
  BY <1>a DEF ForkAllocproc, Lock, LifeInv, TypeOK
<1>f. LifeInv
  OBVIOUS
<1>1. TypeOK'
  <2>1. TypeOK
    BY DEF LifeInv
  <2>2. pc' \in [Pids -> PCs]
    BY <1>a, <2>1 DEF ForkAllocproc, TypeOK, PCs
  <2>3. children' \in [Pids -> Seq(Pids \cup {0})]
    BY <1>a, <2>1 DEF ForkAllocproc, TypeOK
  <2>5. waitlist' \in [Pids -> SUBSET Pids]
    BY <1>a, <2>1 DEF ForkAllocproc, TypeOK
  <2>4. st' \in [Pids -> {"NULL", "INITING", "READY", "RUNNING", "BLOCK", "ZOMBIE"}]
    BY <1>a, <2>1 DEF ForkAllocproc, TypeOK
  <2> QED BY <1>a, <2>1, <2>2, <2>3, <2>4, <2>5 DEF ForkAllocproc, Lock, TypeOK
<1>2. StateInv'
  BY <1>a, <1>b, <1>d, <1>e, <1>f DEF LifeInv, StateInv, SelfHeld, Exiting
<1>3. WlockInv'
  BY <1>a, <1>b, <1>d, <1>e, <1>f DEF LifeInv, WlockInv, WaitHeld
<1>4. PlockInv'
  <2>1. PlockInv
    BY <1>f DEF LifeInv
  <2>2. ASSUME NEW q \in Pids, NEW r \in Pids, q # r
        PROVE  plock'[r] = q <=> \/ pc'[q] \in TgtHeld /\ tgt'[q] = r
                                 \/ pc'[q] = "ex_child" /\ r = InitPid
    BY <1>a, <1>b, <1>d, <1>e, <2>1, <2>2 DEF PlockInv, TgtHeld
  <2>3. ASSUME NEW q \in Pids
        PROVE  /\ plock'[q] = q => /\ pc'[q] \in SelfHeld
                                  /\ st'[q] \in {"RUNNING", "BLOCK", "ZOMBIE"}
               /\ pc'[q] \in {"resume", "wt_off", "ws_off"} /\ st'[q] = "RUNNING" => plock'[q] = q
               /\ pc'[q] \in {"ex_wake", "ex_off"} => plock'[q] = q
    BY <1>a, <1>b, <1>d, <1>e, <2>1 DEF PlockInv, SelfHeld
  <2> QED BY <2>2, <2>3 DEF PlockInv
<1>5. TgtInv'
  <2>1. ASSUME NEW q \in Pids PROVE TgtOK(q)'
    <3>1. TgtOK(q) /\ StateInv
      BY <1>f DEF LifeInv, LifeInv, TgtInv, TgtOK
    <3>2. CASE q = p
      BY <1>a, <1>b, <1>e, <3>1, <3>2 DEF TgtOK, TgtHeld
    <3>3. CASE q = c
      BY <1>e, <3>3 DEF TgtOK, TgtHeld
    <3>4. CASE q \notin {p, c}
      <4>1. pc'[q] = pc[q] /\ tgt'[q] = tgt[q]
        BY <1>e, <3>4
      <4>2. pc[q] \in TgtHeld \cup {"ws_off", "ws_relk"} => tgt[q] # c
        BY <1>d, <3>1 DEF TgtOK, TgtHeld, LifeInv, PlockInv
      <4>3. tgt[q] \in Pids /\ tgt[q] # c => st'[tgt[q]] = st[tgt[q]]
        BY <1>e
      <4> QED BY <3>1, <4>1, <4>2, <4>3 DEF TgtOK, TgtHeld
    <3> QED BY <3>2, <3>3, <3>4
  <2> QED BY <2>1 DEF TgtInv, TgtOK
<1>6. InitingInv'
  BY <1>a, <1>b, <1>d, <1>e, <1>f DEF LifeInv, InitingInv
<1>7. SleepInv'
  BY <1>a, <1>b, <1>d, <1>e, <1>f DEF LifeInv, SleepInv
<1>8. PidInv'
  <2>1. PidInv
    BY DEF LifeInv
  <2>2. ASSUME NEW d \in Pids
        PROVE  (Taking(d)' <=> Taking(d) /\ d # c) /\ (Clearing(d)' <=> Clearing(d))
    BY <1>a, <1>b, <1>d, <1>e, <2>1 DEF Taking, Clearing, PidInv
  <2>3. ASSUME NEW q \in Pids, NEW r \in Pids, q # r, pc'[q] = "fk_lock", pc'[r] = "fk_lock"
        PROVE  tgt'[q] # tgt'[r]
    BY <1>e, <2>1, <2>3 DEF PidInv
  <2>4. /\ st'[InitPid] \notin {"NULL", "INITING", "ZOMBIE"} /\ Once(pidq')
        /\ \A d \in Pids : /\ (d \in Elems(pidq') \/ Taking(d)')
                                <=> (st'[d] = "NULL" \/ Clearing(d)')
                           /\ ~ (d \in Elems(pidq') /\ Taking(d)')
    BY <1>c, <1>d, <1>e, <2>1, <2>2 DEF PidInv
  <2> QED BY <2>3, <2>4 DEF PidInv
<1>9. ScanInv'
  BY <1>a, <1>b, <1>d, <1>e, <1>f DEF LifeInv, ScanInv
<1> QED BY <1>1, <1>2, <1>3, <1>4, <1>5, <1>6, <1>7, <1>8, <1>9 DEF LifeInv

(* do_fork() links the new process to its parent.                          *)
LEMMA ForkLinkLife ==
  ASSUME LifeInv, NEW p \in Pids, ForkLink(p)
  PROVE  LifeInv'
<1> USE PidsFacts DEF LifeInv, At, Goto, Lock, Unlock, Forget, ForkLink
<1>0. tgt[p] \in Pids \ {p} /\ <<tgt[p]>> \o children[p] \in Seq(Pids \cup {0})
  <2>1. tgt[p] \in Pids \ {p} /\ children[p] \in Seq(Pids \cup {0})
    BY DEF TypeOK, TgtInv, TgtOK, TgtHeld
  <2> QED BY <2>1
<1>1. TypeOK'
  BY <1>0 DEF PCs, TypeOK
<1>2. StateInv'
  BY <1>0 DEF TypeOK, StateInv, SelfHeld, Exiting
<1>3. WlockInv'
  BY <1>0 DEF TypeOK, WlockInv, WaitHeld
<1>4. PlockInv'
  BY <1>0, SMTT(30) DEF TypeOK, PlockInv, TgtHeld, SelfHeld, TgtInv, TgtOK
<1>5. TgtInv'
  BY <1>0 DEF TypeOK, TgtInv, TgtOK, TgtHeld
<1>6. InitingInv'
  BY <1>0 DEF TypeOK, InitingInv
<1>7. SleepInv'
  BY <1>0 DEF TypeOK, SleepInv, TgtInv, TgtOK
<1>8. PidInv'
  BY <1>0, PidsQuiet DEF TypeOK, PidInv
<1>9. ScanInv'
  BY <1>0 DEF TypeOK, ScanInv
<1> QED BY <1>1, <1>2, <1>3, <1>4, <1>5, <1>6, <1>7, <1>8, <1>9

(* do_fork() makes the new process ready and unlocks it.                   *)
LEMMA ForkReadyLife ==
  ASSUME LifeInv, NEW p \in Pids, ForkReady(p)
  PROVE  LifeInv'
<1> USE PidsFacts
<1>a. PICK c \in Pids : c = tgt[p] /\ c # p /\ plock[c] = p
  BY HeldTgt DEF ForkReady, At, TgtHeld
<1>b. pc[p] = "fk_ready" /\ st[c] = "INITING" /\ pc[c] = "resume" /\ c # InitPid
  BY <1>a, ForkTgt DEF ForkReady, At
<1>c. \A q \in Pids \ {p} : pc[q] \in TgtHeld => tgt[q] # c
  BY <1>a, <1>b, HeldTgt DEF TgtHeld
<1>d. /\ \A q \in Pids \ {p} : pc'[q] = pc[q] /\ tgt'[q] = tgt[q] /\ num'[q] = num[q]
      /\ \A q \in Pids \ {c} : st'[q] = st[q] /\ plock'[q] = plock[q]
      /\ pc'[p] = "user" /\ st'[c] = "READY" /\ plock'[c] = 0
      /\ wlock' = wlock /\ w4child' = w4child /\ waitlist' = waitlist /\ pidq' = pidq
  BY <1>a DEF ForkReady, Unlock, Goto, Forget, LifeInv, TypeOK
<1>e. LifeInv
  OBVIOUS
<1>1. TypeOK'
  <2>1. TypeOK
    BY DEF LifeInv
  <2> QED BY <1>a, <2>1 DEF ForkReady, Unlock, Goto, Forget, TypeOK, PCs
<1>2. StateInv'
  BY <1>a, <1>b, <1>c, <1>d, <1>e DEF LifeInv, StateInv, SelfHeld, Exiting
<1>3. WlockInv'
  BY <1>a, <1>b, <1>c, <1>d, <1>e DEF LifeInv, WlockInv, WaitHeld
<1>4. PlockInv'
  <2>1. PlockInv /\ c # InitPid
    BY <1>b DEF LifeInv
  <2>2. ASSUME NEW q \in Pids, NEW r \in Pids, q # r
        PROVE  plock'[r] = q <=> \/ pc'[q] \in TgtHeld /\ tgt'[q] = r
                                 \/ pc'[q] = "ex_child" /\ r = InitPid
    <3>1. plock[r] = q <=> \/ pc[q] \in TgtHeld /\ tgt[q] = r
                           \/ pc[q] = "ex_child" /\ r = InitPid
      BY <2>1, <2>2 DEF PlockInv
    <3>2. CASE q = p
      BY <1>a, <1>b, <1>d, <2>1, <2>2, <3>1, <3>2 DEF TgtHeld
    <3>3. CASE q # p
      BY <1>a, <1>c, <1>d, <2>1, <3>1, <3>3
    <3> QED BY <3>2, <3>3
  <2>3. ASSUME NEW q \in Pids
        PROVE  /\ plock'[q] = q => /\ pc'[q] \in SelfHeld
                                  /\ st'[q] \in {"RUNNING", "BLOCK", "ZOMBIE"}
               /\ pc'[q] \in {"resume", "wt_off", "ws_off"} /\ st'[q] = "RUNNING" => plock'[q] = q
               /\ pc'[q] \in {"ex_wake", "ex_off"} => plock'[q] = q
    BY <1>a, <1>b, <1>d, <2>1 DEF PlockInv, SelfHeld
  <2> QED BY <2>2, <2>3 DEF PlockInv
<1>5. TgtInv'
  <2>1. ASSUME NEW q \in Pids PROVE TgtOK(q)'
    <3>1. TgtOK(q)
      BY DEF LifeInv, TgtInv, TgtOK
    <3>2. CASE q = p
      BY <1>d, <3>2 DEF TgtOK, TgtHeld
    <3>3. CASE q # p
      <4>1. pc'[q] = pc[q] /\ tgt'[q] = tgt[q] /\ (tgt[q] \in Pids /\ tgt[q] # c
              => st'[tgt[q]] = st[tgt[q]])
        BY <1>d, <3>3
      <4>2. pc[q] \in TgtHeld \cup {"ws_off", "ws_relk"} => tgt[q] # c
        BY <1>b, <1>c, <3>1, <3>3 DEF TgtOK
      <4> QED BY <3>1, <4>1, <4>2 DEF TgtOK, TgtHeld
    <3> QED BY <3>2, <3>3
  <2> QED BY <2>1 DEF TgtInv, TgtOK
<1>6. InitingInv'
  BY <1>a, <1>b, <1>c, <1>d, <1>e DEF LifeInv, InitingInv
<1>7. SleepInv'
  BY <1>a, <1>b, <1>c, <1>d, <1>e DEF LifeInv, SleepInv
<1>8. PidInv'
  BY <1>a, <1>b, <1>d, PidsQuiet DEF LifeInv, PidInv
<1>9. ScanInv'
  BY <1>a, <1>b, <1>c, <1>d, <1>e DEF LifeInv, ScanInv
<1> QED BY <1>1, <1>2, <1>3, <1>4, <1>5, <1>6, <1>7, <1>8, <1>9 DEF LifeInv

(* do_exit() takes wait_lock.                                              *)
LEMMA ExitEnterLife ==
  ASSUME LifeInv, NEW p \in Pids, ExitEnter(p)
  PROVE  LifeInv'
<1> USE PidsFacts DEF LifeInv, At, Goto, Lock, Unlock, Forget, ExitEnter
<1>1. TypeOK'
  BY DEF PCs, TypeOK
<1>2. StateInv'
  BY DEF TypeOK, StateInv, SelfHeld, Exiting
<1>3. WlockInv'
  BY DEF TypeOK, WlockInv, WaitHeld
<1>4. PlockInv'
  BY DEF TypeOK, PlockInv, TgtHeld, SelfHeld, TgtInv, TgtOK
<1>5. TgtInv'
  BY DEF TypeOK, TgtInv, TgtOK, TgtHeld
<1>6. InitingInv'
  BY DEF TypeOK, InitingInv
<1>7. SleepInv'
  BY DEF TypeOK, SleepInv, TgtInv, TgtOK
<1>8. PidInv'
  BY PidsQuiet DEF TypeOK, PidInv
<1>9. ScanInv'
  BY DEF TypeOK, ScanInv
<1> QED BY <1>1, <1>2, <1>3, <1>4, <1>5, <1>6, <1>7, <1>8, <1>9

(* reparent() takes the next child off the list.                           *)
LEMMA ReparentNextLife ==
  ASSUME LifeInv, NEW p \in Pids, ReparentNext(p)
  PROVE  LifeInv'
<1> USE PidsFacts
<1>a. children[p] # <<>> => /\ Head(children[p]) \in Pids
                            /\ Tail(children[p]) \in Seq(Pids \cup {0})
  <2>1. children[p] \in Seq(Pids \cup {0})
    BY DEF LifeInv, TypeOK
  <2>2. children[p] # <<>> => /\ Head(children[p]) \in Pids \cup {0}
          /\ 1 \in 1 .. Len(children[p])
                              /\ Head(children[p]) = children[p][1]
                              /\ Tail(children[p]) \in Seq(Pids \cup {0})
    BY <2>1
  <2> QED BY <2>2 DEF Intact, ReparentNext
<1>b. /\ \A q \in Pids \ {p} : pc'[q] = pc[q] /\ tgt'[q] = tgt[q]
      /\ pc[p] = "ex_repar"
      /\ (pc'[p] = "ex_init" /\ tgt'[p] \in Pids) \/ (pc'[p] = "ex_self" /\ tgt'[p] = tgt[p])
      /\ st' = st /\ plock' = plock /\ wlock' = wlock /\ w4child' = w4child
      /\ waitlist' = waitlist /\ pidq' = pidq /\ num' = num
  BY <1>a DEF ReparentNext, At, Goto, LifeInv, TypeOK
<1>c. LifeInv
  OBVIOUS
<1>1. TypeOK'
  <2>1. TypeOK
    BY DEF LifeInv
  <2>2. pc' \in [Pids -> PCs]
    BY <2>1 DEF ReparentNext, Goto, TypeOK, PCs
  <2>3. children' \in [Pids -> Seq(Pids \cup {0})]
    BY <1>a, <2>1 DEF ReparentNext, TypeOK
  <2>4. tgt' \in [Pids -> Pids \cup {0}]
    BY <1>a, <2>1, SMTT(30) DEF ReparentNext, TypeOK
  <2> QED BY <2>1, <2>2, <2>3, <2>4 DEF ReparentNext, TypeOK
<1>2. StateInv'
  BY <1>b, <1>c DEF LifeInv, StateInv, SelfHeld, Exiting
<1>3. WlockInv'
  BY <1>b, <1>c DEF LifeInv, WlockInv, WaitHeld
<1>4. PlockInv'
  BY <1>b, <1>c DEF LifeInv, PlockInv, TgtHeld, SelfHeld, TgtInv, TgtOK
<1>5. TgtInv'
  <2>1. ASSUME NEW q \in Pids PROVE TgtOK(q)'
    <3>1. TgtOK(q) /\ StateInv
      BY <1>c DEF LifeInv, LifeInv, TgtInv, TgtOK
    <3> QED BY <1>b, <3>1 DEF TgtOK, TgtHeld
  <2> QED BY <2>1 DEF TgtInv, TgtOK
<1>6. InitingInv'
  BY <1>b, <1>c DEF LifeInv, InitingInv
<1>7. SleepInv'
  BY <1>b, <1>c DEF LifeInv, SleepInv
<1>8. PidInv'
  BY <1>b, PidsQuiet DEF LifeInv, PidInv
<1>9. ScanInv'
  BY <1>b, <1>c DEF LifeInv, ScanInv
<1> QED BY <1>1, <1>2, <1>3, <1>4, <1>5, <1>6, <1>7, <1>8, <1>9 DEF LifeInv

(* reparent() takes init's lock.                                           *)
LEMMA ReparentInitLife ==
  ASSUME LifeInv, NEW p \in Pids, ReparentInit(p)
  PROVE  LifeInv'
<1> USE PidsFacts DEF LifeInv, At, Goto, Lock, Unlock, Forget, ReparentInit
<1>1. TypeOK'
  BY DEF PCs, TypeOK
<1>2. StateInv'
  BY DEF TypeOK, StateInv, SelfHeld, Exiting
<1>3. WlockInv'
  BY DEF TypeOK, WlockInv, WaitHeld
<1>4. PlockInv'
  BY DEF TypeOK, PlockInv, TgtHeld, SelfHeld, StateInv, TgtInv, TgtOK, Exiting, SleepInv, PidInv
<1>5. TgtInv'
  BY DEF TypeOK, TgtInv, TgtOK, TgtHeld
<1>6. InitingInv'
  BY DEF TypeOK, InitingInv
<1>7. SleepInv'
  BY DEF TypeOK, SleepInv, TgtInv, TgtOK
<1>8. PidInv'
  BY PidsQuiet DEF TypeOK, PidInv
<1>9. ScanInv'
  BY DEF TypeOK, ScanInv
<1> QED BY <1>1, <1>2, <1>3, <1>4, <1>5, <1>6, <1>7, <1>8, <1>9

(* reparent() gives the child to init, and wakes an init in wait().        *)
LEMMA ReparentChildLife ==
  ASSUME LifeInv, NEW p \in Pids, ReparentChild(p)
  PROVE  LifeInv'
<1> USE PidsFacts DEF LifeInv, At, Goto, Lock, Unlock, Forget, ReparentChild
<1>0. /\ tgt[p] \in Pids /\ p # InitPid /\ plock[InitPid] = p
      /\ <<tgt[p]>> \o children[InitPid] \in Seq(Pids \cup {0})
      /\ \A r \in Pids : \/ st'[r] = st[r]
                         \/ /\ r = InitPid /\ w4child[r] /\ pc[r] = "wt_off" /\ st'[r] = "READY"
                            /\ st[r] \in {"BLOCK", "READY"} /\ r # p
  <2>1. tgt[p] \in Pids /\ p # InitPid /\ plock[InitPid] = p
          /\ children[InitPid] \in Seq(Pids \cup {0})
    BY DEF TypeOK, TgtInv, TgtOK, TgtHeld, StateInv, Exiting, PlockInv
  <2>2. <<tgt[p]>> \o children[InitPid] \in Seq(Pids \cup {0})
    BY <2>1
  <2>3. w4child[InitPid] => pc[InitPid] = "wt_off" /\ st[InitPid] \in {"BLOCK", "READY"}
    BY <2>1 DEF SleepInv, StateInv, PlockInv
  <2> QED BY <2>1, <2>2, <2>3 DEF TypeOK
<1>1. TypeOK'
  BY <1>0 DEF PCs, TypeOK
<1>2. StateInv'
  BY <1>0 DEF TypeOK, StateInv, SelfHeld, Exiting
<1>3. WlockInv'
  BY <1>0 DEF TypeOK, WlockInv, WaitHeld
<1>4. PlockInv'
  BY <1>0 DEF TypeOK, PlockInv, TgtHeld, SelfHeld, TgtInv, TgtOK
<1>5. TgtInv'
  BY <1>0 DEF TypeOK, TgtInv, TgtOK, TgtHeld
<1>6. InitingInv'
  BY <1>0, SMTT(30) DEF TypeOK, InitingInv, TgtInv, TgtOK, PlockInv, TgtHeld, SelfHeld, StateInv, SleepInv
<1>7. SleepInv'
  BY <1>0, SMTT(30) DEF TypeOK, SleepInv, TgtInv, TgtOK
<1>8. PidInv'
  <2>1. /\ PidInv /\ pidq' = pidq /\ tgt' = tgt /\ pc[p] = "ex_child" /\ pc'[p] = "ex_repar"
        /\ \A q \in Pids \ {p} : pc'[q] = pc[q]
    BY DEF TypeOK
  <2> HIDE DEF LifeInv, ReparentChild
  <2>2. st'[InitPid] \notin {"NULL", "INITING", "ZOMBIE"} /\ \A q \in Pids : st'[q] = "NULL" <=> st[q] = "NULL"
    BY <1>0, <2>1 DEF PidInv
  <2> QED BY <2>1, <2>2, PidsQuiet
<1>9. ScanInv'
  BY <1>0 DEF TypeOK, ScanInv
<1> QED BY <1>1, <1>2, <1>3, <1>4, <1>5, <1>6, <1>7, <1>8, <1>9

(* do_exit() takes its own lock and becomes a zombie.                      *)
LEMMA ExitZombieLife ==
  ASSUME LifeInv, NEW p \in Pids, ExitZombie(p)
  PROVE  LifeInv'
<1> USE PidsFacts DEF LifeInv, At, Goto, Lock, Unlock, Forget, ExitZombie
<1>1. TypeOK'
  BY DEF PCs, TypeOK
<1>2. StateInv'
  BY DEF TypeOK, StateInv, SelfHeld, Exiting
<1>3. WlockInv'
  BY DEF TypeOK, WlockInv, WaitHeld
<1>4. PlockInv'
  BY SMTT(30) DEF TypeOK, PlockInv, TgtHeld, SelfHeld, TgtInv, TgtOK
<1>5. TgtInv'
  BY DEF TypeOK, TgtInv, TgtOK, TgtHeld
<1>6. InitingInv'
  BY DEF TypeOK, InitingInv
<1>7. SleepInv'
  BY DEF TypeOK, SleepInv, TgtInv, TgtOK
<1>8. PidInv'
  BY PidsQuiet
     DEF TypeOK, PidInv, TgtInv, TgtOK, PlockInv, TgtHeld, SelfHeld, StateInv, Exiting, SleepInv
<1>9. ScanInv'
  BY DEF TypeOK, ScanInv
<1> QED BY <1>1, <1>2, <1>3, <1>4, <1>5, <1>6, <1>7, <1>8, <1>9

(* do_exit() wakes one that waits for it by pid.                           *)
LEMMA ExitUnblockLife ==
  ASSUME LifeInv, NEW p \in Pids, ExitUnblock(p)
  PROVE  LifeInv'
<1> USE PidsFacts DEF LifeInv, At, Goto, Lock, Unlock, Forget, ExitUnblock
<1>0. \A q \in waitlist[p] : /\ q \in Pids /\ st[q] = "BLOCK" /\ pc[q] = "ws_off" /\ tgt[q] = p
                             /\ q # p
  BY DEF TypeOK, SleepInv, StateInv
<1>1. TypeOK'
  <2>1. waitlist' \in [Pids -> SUBSET Pids]
    BY DEF TypeOK
  <2>2. num' \in [Pids -> Nat]
    BY DEF TypeOK
  <2>3. st' \in [Pids -> {"NULL", "INITING", "READY", "RUNNING", "BLOCK", "ZOMBIE"}]
    BY DEF TypeOK
  <2> QED BY <2>1, <2>2, <2>3 DEF TypeOK
<1>2. StateInv'
  BY <1>0 DEF TypeOK, StateInv, SelfHeld, Exiting
<1>3. WlockInv'
  BY <1>0 DEF TypeOK, WlockInv, WaitHeld
<1>4. PlockInv'
  BY <1>0 DEF TypeOK, PlockInv, TgtHeld, SelfHeld, TgtInv, TgtOK
<1>5. TgtInv'
  BY <1>0 DEF TypeOK, TgtInv, TgtOK, TgtHeld
<1>6. InitingInv'
  BY <1>0 DEF TypeOK, InitingInv
<1>7. SleepInv'
  BY <1>0, SMTT(40) DEF TypeOK, SleepInv, TgtInv, TgtOK
<1>8. PidInv'
  BY <1>0, PidsQuiet DEF TypeOK, PidInv
<1>9. ScanInv'
  BY <1>0 DEF TypeOK, ScanInv
<1> QED BY <1>1, <1>2, <1>3, <1>4, <1>5, <1>6, <1>7, <1>8, <1>9

(* do_exit() wakes its parent.                                             *)
LEMMA ExitWakeParentLife ==
  ASSUME LifeInv, NEW p \in Pids, ExitWakeParent(p)
  PROVE  LifeInv'
<1> USE PidsFacts DEF LifeInv, At, Goto, Lock, Unlock, Forget, ExitWakeParent
<1>0. \A r \in Pids : \/ st'[r] = st[r]
                      \/ /\ w4child[r] /\ pc[r] = "wt_off" /\ st'[r] = "READY"
                         /\ st[r] \in {"BLOCK", "READY"} /\ r # p /\ plock[r] = 0
  <2>1. \A r \in Pids : w4child[r] /\ plock[r] = 0 =>
           pc[r] = "wt_off" /\ st[r] \in {"BLOCK", "READY"} /\ r # p
    BY DEF SleepInv, StateInv, PlockInv
  <2> QED BY <2>1 DEF TypeOK
<1>1. TypeOK'
  BY <1>0 DEF PCs, TypeOK
<1>2. StateInv'
  BY <1>0 DEF TypeOK, StateInv, SelfHeld, Exiting
<1>3. WlockInv'
  BY <1>0 DEF TypeOK, WlockInv, WaitHeld
<1>4. PlockInv'
  BY <1>0 DEF TypeOK, PlockInv, TgtHeld, SelfHeld, TgtInv, TgtOK
<1>5. TgtInv'
  <2>1. ASSUME NEW q \in Pids PROVE TgtOK(q)'
    <3>1. /\ TgtOK(q) /\ tgt'[q] = tgt[q]
          /\ pc'[q] = pc[q] \/ (q = p /\ pc'[q] = "ex_off")
      BY DEF TypeOK, TgtInv, TgtOK
    <3>2. tgt[q] \in Pids => \/ st'[tgt[q]] = st[tgt[q]]
                             \/ st[tgt[q]] \in {"BLOCK", "READY"} /\ st'[tgt[q]] = "READY"
      BY <1>0
    <3> QED BY <3>1, <3>2 DEF TgtOK, TgtHeld
  <2> QED BY <2>1 DEF TgtInv, TgtOK
<1>6. InitingInv'
  BY <1>0 DEF TypeOK, InitingInv
<1>7. SleepInv'
  BY <1>0 DEF TypeOK, SleepInv, TgtInv, TgtOK
<1>8. PidInv'
  BY <1>0, PidsQuiet DEF TypeOK, PidInv
<1>9. ScanInv'
  BY <1>0 DEF TypeOK, ScanInv
<1> QED BY <1>1, <1>2, <1>3, <1>4, <1>5, <1>6, <1>7, <1>8, <1>9

(* do_exit() gives up wait_lock and calls sched().                         *)
LEMMA ExitSchedLife ==
  ASSUME LifeInv, NEW p \in Pids, ExitSched(p)
  PROVE  LifeInv'
<1> USE PidsFacts DEF LifeInv, At, Goto, Lock, Unlock, Forget, ExitSched
<1>1. TypeOK'
  BY DEF PCs, TypeOK
<1>2. StateInv'
  BY DEF TypeOK, StateInv, SelfHeld, Exiting
<1>3. WlockInv'
  BY DEF TypeOK, WlockInv, WaitHeld
<1>4. PlockInv'
  BY DEF TypeOK, PlockInv, TgtHeld, SelfHeld, TgtInv, TgtOK
<1>5. TgtInv'
  BY DEF TypeOK, TgtInv, TgtOK, TgtHeld
<1>6. InitingInv'
  BY DEF TypeOK, InitingInv
<1>7. SleepInv'
  BY DEF TypeOK, SleepInv, TgtInv, TgtOK
<1>8. PidInv'
  BY PidsQuiet DEF TypeOK, PidInv
<1>9. ScanInv'
  BY DEF TypeOK, ScanInv
<1> QED BY <1>1, <1>2, <1>3, <1>4, <1>5, <1>6, <1>7, <1>8, <1>9

(* sys_wait4(-1) takes wait_lock.                                          *)
LEMMA WaitEnterLife ==
  ASSUME LifeInv, NEW p \in Pids, WaitEnter(p)
  PROVE  LifeInv'
<1> USE PidsFacts DEF LifeInv, At, Goto, Lock, Unlock, Forget, WaitEnter
<1>1. TypeOK'
  BY DEF PCs, TypeOK
<1>2. StateInv'
  BY DEF TypeOK, StateInv, SelfHeld, Exiting
<1>3. WlockInv'
  BY DEF TypeOK, WlockInv, WaitHeld
<1>4. PlockInv'
  <2>1. /\ PlockInv /\ pc[p] \in {"user", "wt_again"} /\ pc'[p] = "wt_scan"
        /\ \A q \in Pids \ {p} : pc'[q] = pc[q]
        /\ plock' = plock /\ st' = st /\ tgt' = tgt
    BY DEF TypeOK
  <2>2. ASSUME NEW q \in Pids, NEW r \in Pids, q # r
        PROVE  plock'[r] = q <=> \/ pc'[q] \in TgtHeld /\ tgt'[q] = r
                                 \/ pc'[q] = "ex_child" /\ r = InitPid
    BY <2>1, <2>2 DEF PlockInv, TgtHeld
  <2>3. ASSUME NEW q \in Pids
        PROVE  /\ plock'[q] = q => /\ pc'[q] \in SelfHeld
                                  /\ st'[q] \in {"RUNNING", "BLOCK", "ZOMBIE"}
               /\ pc'[q] \in {"resume", "wt_off", "ws_off"} /\ st'[q] = "RUNNING" => plock'[q] = q
               /\ pc'[q] \in {"ex_wake", "ex_off"} => plock'[q] = q
    BY <2>1 DEF PlockInv, SelfHeld
  <2> QED BY <2>2, <2>3 DEF PlockInv
<1>5. TgtInv'
  BY DEF TypeOK, TgtInv, TgtOK, TgtHeld
<1>6. InitingInv'
  BY DEF TypeOK, InitingInv
<1>7. SleepInv'
  BY DEF TypeOK, SleepInv, TgtInv, TgtOK
<1>8. PidInv'
  BY PidsQuiet DEF TypeOK, PidInv
<1>9. ScanInv'
  BY DEF TypeOK, ScanInv
<1> QED BY <1>1, <1>2, <1>3, <1>4, <1>5, <1>6, <1>7, <1>8, <1>9

(* sys_wait4(-1) looks at a child and keeps the lock of a zombie.          *)
LEMMA WaitScanLife ==
  ASSUME LifeInv, NEW p \in Pids, WaitScan(p)
  PROVE  LifeInv'
<1> USE PidsFacts
<1>a. /\ children[p] \in Seq(Pids \cup {0}) /\ num[p] \in Nat /\ num[p] # 0
      /\ pc[p] = "wt_scan" /\ st[p] = "RUNNING"
  BY DEF LifeInv, TypeOK, ScanInv, WaitScan, At, StateInv, SelfHeld
<1>b. num[p] \in DOMAIN children[p] /\ DOMAIN children[p] = 1 .. Len(children[p])
  BY <1>a DEF WaitScan
<1>c. PICK c \in Pids : c = children[p][num[p]] /\ plock[c] = 0
  <2>1. children[p][num[p]] \in Pids \cup {0} /\ children[p][num[p]] # 0
    BY <1>a, <1>b DEF WaitScan, Intact
  <2> QED BY <2>1 DEF WaitScan
<1>d. CASE st[c] # "ZOMBIE"
  <2>1. /\ UNCHANGED <<st, pc, parent, children, plock, wlock, tgt, w4child, waitlist, pidq>>
        /\ num' = [num EXCEPT ![p] = @ + 1]
    BY <1>c, <1>d DEF WaitScan
  <2>2. num' \in [Pids -> Nat] /\ \A q \in Pids : num[q] # 0 => num'[q] # 0
    BY <1>a, <2>1 DEF LifeInv, TypeOK
  <2>3. TypeOK' /\ ScanInv'
    BY <2>1, <2>2 DEF LifeInv, TypeOK, ScanInv
  <2>4. StateInv' /\ WlockInv' /\ PlockInv' /\ SleepInv'
    BY <2>1 DEF LifeInv, StateInv, WlockInv, PlockInv, SleepInv
  <2>6. TgtInv' /\ InitingInv'
    BY <2>1 DEF LifeInv, TgtInv, TgtOK, InitingInv
  <2>5. PidInv'
    BY <2>1 DEF LifeInv, PidInv, Taking, Clearing
  <2> QED BY <2>3, <2>4, <2>5, <2>6 DEF LifeInv
<1>e. CASE st[c] = "ZOMBIE"
  <2> USE <1>a, <1>c, <1>e
  <2>a. c # p /\ c # InitPid
    BY DEF LifeInv, PidInv
  <2>b. /\ \A q \in Pids \ {p} : pc'[q] = pc[q] /\ tgt'[q] = tgt[q]
        /\ \A q \in Pids \ {c} : plock'[q] = plock[q]
        /\ pc'[p] = "wt_killed" /\ tgt'[p] = c /\ plock'[c] = p
        /\ st' = st /\ wlock' = wlock /\ w4child' = w4child /\ waitlist' = waitlist
        /\ pidq' = pidq /\ num' = num
    BY DEF WaitScan, Goto, LifeInv, TypeOK
  <2>c. list_del(children[p], num[p]) \in Seq(Pids \cup {0})
    BY <1>b, DelElems
  <2>d. LifeInv
    OBVIOUS
  <2>1. TypeOK'
    <3>1. TypeOK
      BY DEF LifeInv
    <3>2. pc' \in [Pids -> PCs]
      <4>1. pc' = [pc EXCEPT ![p] = "wt_killed"]
        BY DEF WaitScan, Goto
      <4> QED BY <3>1, <4>1 DEF TypeOK, PCs
    <3>3. children' \in [Pids -> Seq(Pids \cup {0})]
      <4>1. children' = [children EXCEPT ![p] = list_del(children[p], num[p])]
        BY DEF WaitScan
      <4> QED BY <2>c, <3>1, <4>1 DEF TypeOK
    <3>6. plock' = [plock EXCEPT ![c] = p] /\ tgt' = [tgt EXCEPT ![p] = c]
      BY DEF WaitScan
    <3>4. plock' \in [Pids -> Pids \cup {0}]
      BY <3>1, <3>6 DEF TypeOK
    <3>5. tgt' \in [Pids -> Pids \cup {0}]
      BY <3>1, <3>6 DEF TypeOK
    <3> QED BY <3>1, <3>2, <3>3, <3>4, <3>5 DEF WaitScan, TypeOK
  <2>2. StateInv'
    BY <2>a, <2>b, <2>d DEF LifeInv, StateInv, SelfHeld, Exiting
  <2>3. WlockInv'
    BY <2>a, <2>b, <2>d DEF LifeInv, WlockInv, WaitHeld
  <2>4. PlockInv'
    <3>1. PlockInv /\ plock[c] = 0
      BY <2>d DEF WaitScan, LifeInv
    <3>2. ASSUME NEW q \in Pids, NEW r \in Pids, q # r
          PROVE  plock'[r] = q <=> \/ pc'[q] \in TgtHeld /\ tgt'[q] = r
                                   \/ pc'[q] = "ex_child" /\ r = InitPid
      BY <2>a, <2>b, <3>1, <3>2 DEF PlockInv, TgtHeld
    <3>3. ASSUME NEW q \in Pids
          PROVE  /\ plock'[q] = q => /\ pc'[q] \in SelfHeld
                                    /\ st'[q] \in {"RUNNING", "BLOCK", "ZOMBIE"}
                 /\ pc'[q] \in {"resume", "wt_off", "ws_off"} /\ st'[q] = "RUNNING" => plock'[q] = q
                 /\ pc'[q] \in {"ex_wake", "ex_off"} => plock'[q] = q
      BY <2>a, <2>b, <3>1 DEF PlockInv, SelfHeld
    <3> QED BY <3>2, <3>3 DEF PlockInv
  <2>5. TgtInv'
    <3>1. ASSUME NEW q \in Pids PROVE TgtOK(q)'
      <4>1. TgtOK(q) /\ StateInv
        BY <2>d DEF LifeInv, LifeInv, TgtInv, TgtOK
      <4> QED BY <2>a, <2>b, <4>1 DEF TgtOK, TgtHeld
    <3> QED BY <3>1 DEF TgtInv, TgtOK
  <2>6. InitingInv'
    BY <2>a, <2>b, <2>d DEF LifeInv, InitingInv
  <2>7. SleepInv'
    BY <2>a, <2>b, <2>d DEF LifeInv, SleepInv
  <2>8. PidInv'
    BY <2>b, PidsQuiet DEF LifeInv, PidInv
  <2>9. ScanInv'
    BY <2>a, <2>b, <2>d DEF LifeInv, ScanInv
  <2> QED BY <2>1, <2>2, <2>3, <2>4, <2>5, <2>6, <2>7, <2>8, <2>9 DEF LifeInv
<1> QED BY <1>d, <1>e

(* sys_wait4(-1) has found a zombie.                                       *)
LEMMA WaitFoundLife ==
  ASSUME LifeInv, NEW p \in Pids, WaitFound(p)
  PROVE  LifeInv'
<1> USE PidsFacts DEF LifeInv, At, Goto, Lock, Unlock, Forget, WaitFound
<1>1. TypeOK'
  BY DEF PCs, TypeOK
<1>2. StateInv'
  BY DEF TypeOK, StateInv, SelfHeld, Exiting
<1>3. WlockInv'
  BY DEF TypeOK, WlockInv, WaitHeld
<1>4. PlockInv'
  BY DEF TypeOK, PlockInv, TgtHeld, SelfHeld, TgtInv, TgtOK
<1>5. TgtInv'
  BY DEF TypeOK, TgtInv, TgtOK, TgtHeld
<1>6. InitingInv'
  BY DEF TypeOK, InitingInv
<1>7. SleepInv'
  BY DEF TypeOK, SleepInv, TgtInv, TgtOK
<1>8. PidInv'
  BY PidsQuiet DEF TypeOK, PidInv
<1>9. ScanInv'
  BY DEF TypeOK, ScanInv
<1> QED BY <1>1, <1>2, <1>3, <1>4, <1>5, <1>6, <1>7, <1>8, <1>9

(* sys_wait4(-1) has found none.                                           *)
LEMMA WaitNoneLife ==
  ASSUME LifeInv, NEW p \in Pids, WaitNone(p)
  PROVE  LifeInv'
<1> USE PidsFacts DEF LifeInv, At, Goto, Lock, Unlock, Forget, WaitNone
<1>1. TypeOK'
  <2>1. pc' \in [Pids -> PCs]
    BY DEF PCs, TypeOK
  <2>2. tgt' \in [Pids -> Pids \cup {0}] /\ num' \in [Pids -> Nat]
    BY DEF TypeOK
  <2> QED BY <2>1, <2>2 DEF TypeOK
<1>2. StateInv'
  BY DEF TypeOK, StateInv, SelfHeld, Exiting
<1>3. WlockInv'
  BY DEF TypeOK, WlockInv, WaitHeld
<1>4. PlockInv'
  <2>1. /\ PlockInv /\ pc[p] = "wt_scan" /\ pc'[p] \in {"user", "wt_sleep"}
        /\ \A q \in Pids \ {p} : pc'[q] = pc[q] /\ tgt'[q] = tgt[q]
        /\ plock' = plock /\ st' = st
    BY DEF TypeOK
  <2>2. ASSUME NEW q \in Pids, NEW r \in Pids, q # r
        PROVE  plock'[r] = q <=> \/ pc'[q] \in TgtHeld /\ tgt'[q] = r
                                 \/ pc'[q] = "ex_child" /\ r = InitPid
    BY <2>1, <2>2 DEF PlockInv, TgtHeld
  <2>3. ASSUME NEW q \in Pids
        PROVE  /\ plock'[q] = q => /\ pc'[q] \in SelfHeld
                                  /\ st'[q] \in {"RUNNING", "BLOCK", "ZOMBIE"}
               /\ pc'[q] \in {"resume", "wt_off", "ws_off"} /\ st'[q] = "RUNNING" => plock'[q] = q
               /\ pc'[q] \in {"ex_wake", "ex_off"} => plock'[q] = q
    BY <2>1 DEF PlockInv, SelfHeld
  <2> QED BY <2>2, <2>3 DEF PlockInv
<1>5. TgtInv'
  BY DEF TypeOK, TgtInv, TgtOK, TgtHeld
<1>6. InitingInv'
  BY DEF TypeOK, InitingInv
<1>7. SleepInv'
  <2>1. /\ pc[p] = "wt_scan" /\ pc'[p] \in {"user", "wt_sleep"} /\ SleepInv
        /\ \A q \in Pids \ {p} : pc'[q] = pc[q] /\ tgt'[q] = tgt[q]
        /\ st' = st /\ w4child' = w4child /\ waitlist' = waitlist
    BY DEF TypeOK
  <2> HIDE DEF LifeInv, WaitNone
  <2>2. ASSUME NEW q \in Pids, w4child'[q] PROVE pc'[q] = "wt_off"
    BY <2>1, <2>2 DEF SleepInv
  <2>3. ASSUME NEW t \in Pids, NEW q \in Pids, q \in waitlist'[t]
        PROVE  st'[q] = "BLOCK" /\ pc'[q] = "ws_off" /\ tgt'[q] = t
    BY <2>1, <2>3 DEF SleepInv
  <2>4. ASSUME NEW t \in Pids, pc'[t] \in {"ex_off", "dead"} PROVE waitlist'[t] = {}
    BY <2>1, <2>4 DEF SleepInv
  <2> QED BY <2>2, <2>3, <2>4 DEF SleepInv
<1>8. PidInv'
  BY PidsQuiet DEF TypeOK, PidInv
<1>9. ScanInv'
  BY DEF TypeOK, ScanInv
<1> QED BY <1>1, <1>2, <1>3, <1>4, <1>5, <1>6, <1>7, <1>8, <1>9

(* sys_wait4(-1) goes to sleep.                                            *)
LEMMA WaitSleepLife ==
  ASSUME LifeInv, NEW p \in Pids, WaitSleep(p)
  PROVE  LifeInv'
<1> USE PidsFacts DEF LifeInv, At, Goto, Lock, Unlock, Forget, WaitSleep
<1>1. TypeOK'
  BY DEF PCs, TypeOK
<1>2. StateInv'
  BY DEF TypeOK, StateInv, SelfHeld, Exiting
<1>3. WlockInv'
  BY DEF TypeOK, WlockInv, WaitHeld
<1>4. PlockInv'
  BY DEF TypeOK, PlockInv, TgtHeld, SelfHeld, TgtInv, TgtOK
<1>5. TgtInv'
  BY DEF TypeOK, TgtInv, TgtOK, PlockInv, TgtHeld, SelfHeld, StateInv, SleepInv, PidInv
<1>6. InitingInv'
  BY DEF TypeOK, InitingInv
<1>7. SleepInv'
  BY DEF TypeOK, SleepInv, TgtInv, TgtOK
<1>8. PidInv'
  BY PidsQuiet DEF TypeOK, PidInv
<1>9. ScanInv'
  BY DEF TypeOK, ScanInv
<1> QED BY <1>1, <1>2, <1>3, <1>4, <1>5, <1>6, <1>7, <1>8, <1>9

(* sys_wait4(-1) wakes up.                                                 *)
LEMMA WaitResumeLife ==
  ASSUME LifeInv, NEW p \in Pids, WaitResume(p)
  PROVE  LifeInv'
<1> USE PidsFacts DEF LifeInv, At, Goto, Lock, Unlock, Forget, WaitResume
<1>1. TypeOK'
  BY DEF PCs, TypeOK
<1>2. StateInv'
  BY DEF TypeOK, StateInv, SelfHeld, Exiting
<1>3. WlockInv'
  BY DEF TypeOK, WlockInv, WaitHeld
<1>4. PlockInv'
  <2>1. /\ PlockInv /\ pc[p] = "wt_off" /\ plock[p] = p /\ pc'[p] = "wt_again" /\ plock'[p] = 0
        /\ \A q \in Pids \ {p} : plock'[q] = plock[q] /\ pc'[q] = pc[q]
        /\ st' = st /\ tgt' = tgt
    BY SMTT(30) DEF TypeOK, StateInv, PlockInv
  <2> QED BY <2>1 DEF PlockInv, TgtHeld, SelfHeld
<1>5. TgtInv'
  BY DEF TypeOK, TgtInv, TgtOK, TgtHeld
<1>6. InitingInv'
  BY DEF TypeOK, InitingInv
<1>7. SleepInv'
  BY DEF TypeOK, SleepInv, TgtInv, TgtOK
<1>8. PidInv'
  BY PidsQuiet DEF TypeOK, PidInv
<1>9. ScanInv'
  BY DEF TypeOK, ScanInv
<1> QED BY <1>1, <1>2, <1>3, <1>4, <1>5, <1>6, <1>7, <1>8, <1>9

(* sys_wait4(pid) takes the lock of its target.                            *)
LEMMA WaitPidEnterLife ==
  ASSUME LifeInv, NEW p \in Pids, WaitPidEnter(p)
  PROVE  LifeInv'
<1> USE PidsFacts
<1>a. pc[p] = "user" /\ st[p] = "RUNNING"
  BY DEF WaitPidEnter, At, LifeInv, StateInv, SelfHeld
<1>b. PICK t \in WaitPids \ {p} :
        /\ plock[t] = 0
        /\ \/ st[t] = "NULL" /\ UNCHANGED <<tgt, plock, pc>>
           \/ /\ st[t] # "NULL" /\ plock' = [plock EXCEPT ![t] = p]
              /\ tgt' = [tgt EXCEPT ![p] = t] /\ Goto(p, "ws_test")
  BY DEF WaitPidEnter
<1>c. t \in Pids /\ t # p
  BY <1>b, WaitExitAssumption DEF Pids
<1>d. UNCHANGED <<st, parent, children, waitlist, w4child, wlock, pidq, num>>
  BY DEF WaitPidEnter
<1>e. CASE st[t] = "NULL"
  <2>1. UNCHANGED vars
    BY <1>b, <1>d, <1>e DEF vars
  <2> QED BY <2>1, LifeStutter
<1>f. CASE st[t] # "NULL"
  <2>a. st[t] # "INITING"
    <3>1. \A q \in Pids : pc[q] \in {"fk_link", "fk_ready"} => plock[tgt[q]] = q
      BY HeldTgt DEF TgtHeld
    <3> QED BY <1>b, <1>c, <3>1 DEF LifeInv, InitingInv
  <2>b. /\ \A q \in Pids \ {p} : pc'[q] = pc[q] /\ tgt'[q] = tgt[q]
        /\ \A q \in Pids \ {t} : plock'[q] = plock[q]
        /\ pc'[p] = "ws_test" /\ tgt'[p] = t /\ plock'[t] = p /\ plock[t] = 0
        /\ st' = st /\ wlock' = wlock /\ w4child' = w4child /\ waitlist' = waitlist
        /\ pidq' = pidq /\ num' = num
    BY <1>a, <1>b, <1>c, <1>d, <1>f DEF Goto, LifeInv, TypeOK
  <2>d. LifeInv
    OBVIOUS
  <2>1. TypeOK'
    <3>1. TypeOK
      BY DEF LifeInv
    <3>2. pc' \in [Pids -> PCs]
      BY <1>b, <1>f, <3>1 DEF Goto, TypeOK, PCs
    <3>3. plock' \in [Pids -> Pids \cup {0}]
      BY <1>b, <1>c, <1>f, <3>1, SMTT(30) DEF TypeOK
    <3>4. tgt' \in [Pids -> Pids \cup {0}]
      BY <1>b, <1>c, <1>f, <3>1, SMTT(30) DEF TypeOK
    <3> QED BY <1>d, <3>1, <3>2, <3>3, <3>4 DEF TypeOK
  <2>2. StateInv'
    BY <1>a, <1>c, <1>f, <2>a, <2>b, <2>d DEF LifeInv, StateInv, SelfHeld, Exiting
  <2>3. WlockInv'
    BY <1>a, <1>c, <1>f, <2>a, <2>b, <2>d DEF LifeInv, WlockInv, WaitHeld
  <2>4. PlockInv'
    BY <1>a, <1>c, <1>f, <2>a, <2>b, <2>d
       DEF LifeInv, PlockInv, TgtHeld, SelfHeld, TgtInv, TgtOK
  <2>5. TgtInv'
    <3>1. ASSUME NEW q \in Pids PROVE TgtOK(q)'
      <4>1. TgtOK(q) /\ StateInv
        BY <2>d DEF LifeInv, LifeInv, TgtInv, TgtOK
      <4> QED BY <1>a, <1>c, <1>f, <2>a, <2>b, <4>1 DEF TgtOK, TgtHeld
    <3> QED BY <3>1 DEF TgtInv, TgtOK
  <2>6. InitingInv'
    BY <1>a, <1>c, <1>f, <2>a, <2>b, <2>d DEF LifeInv, InitingInv
  <2>7. SleepInv'
    BY <1>a, <1>c, <1>f, <2>a, <2>b, <2>d DEF LifeInv, SleepInv
  <2>8. PidInv'
    BY <1>a, <2>b, PidsQuiet DEF LifeInv, PidInv
  <2>9. ScanInv'
    BY <1>a, <1>c, <1>f, <2>a, <2>b, <2>d DEF LifeInv, ScanInv
  <2> QED BY <2>1, <2>2, <2>3, <2>4, <2>5, <2>6, <2>7, <2>8, <2>9 DEF LifeInv
<1> QED BY <1>e, <1>f

(* sys_wait4(pid) goes to sleep on the wait_list of its target.            *)
LEMMA WaitPidBlockLife ==
  ASSUME LifeInv, NEW p \in Pids, WaitPidBlock(p)
  PROVE  LifeInv'
<1> USE PidsFacts DEF LifeInv, At, Goto, Lock, Unlock, Forget, WaitPidBlock
<1>1. TypeOK'
  BY DEF PCs, TypeOK
<1>2. StateInv'
  BY DEF TypeOK, StateInv, SelfHeld, Exiting
<1>3. WlockInv'
  BY DEF TypeOK, WlockInv, WaitHeld
<1>4. PlockInv'
  <2>0. PICK t \in Pids \ {p} : t = tgt[p] /\ plock[t] = p
    <3>1. pc[p] = "ws_test" /\ tgt[p] \in Pids \ {p}
      BY DEF TgtInv, TgtOK, TgtHeld
    <3>2. plock[tgt[p]] = p
      BY <3>1 DEF PlockInv, TgtHeld
    <3> QED BY <3>1, <3>2
  <2>1. /\ pc[p] = "ws_test" /\ pc'[p] = "ws_off" /\ plock'[p] = p /\ plock'[t] = 0
        /\ \A q \in Pids \ {p} : pc'[q] = pc[q] /\ st'[q] = st[q]
        /\ \A q \in Pids \ {p, t} : plock'[q] = plock[q]
        /\ plock[p] = 0 /\ st'[p] = "BLOCK" /\ tgt' = tgt /\ PlockInv
    BY <2>0 DEF TypeOK
  <2> HIDE DEF LifeInv, WaitPidBlock
  <2>2. ASSUME NEW q \in Pids, NEW r \in Pids, q # r
        PROVE  plock'[r] = q <=> \/ pc'[q] \in TgtHeld /\ tgt'[q] = r
                                 \/ pc'[q] = "ex_child" /\ r = InitPid
    <3>1. plock[r] = q <=> \/ pc[q] \in TgtHeld /\ tgt[q] = r
                           \/ pc[q] = "ex_child" /\ r = InitPid
      BY <2>1, <2>2 DEF PlockInv
    <3>2. CASE q = p
      BY <2>0, <2>1, <2>2, <3>1, <3>2 DEF TgtHeld
    <3>3. CASE q # p
      BY <2>0, <2>1, <2>2, <3>1, <3>3
    <3> QED BY <3>2, <3>3
  <2>3. ASSUME NEW q \in Pids
        PROVE  /\ plock'[q] = q => /\ pc'[q] \in SelfHeld
                                  /\ st'[q] \in {"RUNNING", "BLOCK", "ZOMBIE"}
               /\ pc'[q] \in {"resume", "wt_off", "ws_off"} /\ st'[q] = "RUNNING" => plock'[q] = q
               /\ pc'[q] \in {"ex_wake", "ex_off"} => plock'[q] = q
    <3>1. CASE q = p
      BY <2>1, <3>1 DEF SelfHeld
    <3>2. CASE q # p
      BY <2>0, <2>1, <3>2 DEF PlockInv, SelfHeld
    <3> QED BY <3>1, <3>2
  <2> QED BY <2>2, <2>3 DEF PlockInv
<1>5. TgtInv'
  BY DEF TypeOK, TgtInv, TgtOK, PlockInv, TgtHeld, SelfHeld, StateInv, SleepInv, PidInv
<1>6. InitingInv'
  BY DEF TypeOK, InitingInv
<1>7. SleepInv'
  BY DEF TypeOK, SleepInv, TgtInv, TgtOK, PlockInv, TgtHeld, SelfHeld, StateInv
<1>8. PidInv'
  BY PidsQuiet DEF TypeOK, PidInv
<1>9. ScanInv'
  BY DEF TypeOK, ScanInv
<1> QED BY <1>1, <1>2, <1>3, <1>4, <1>5, <1>6, <1>7, <1>8, <1>9

(* sys_wait4(pid) wakes up.                                                *)
LEMMA WaitPidResumeLife ==
  ASSUME LifeInv, NEW p \in Pids, WaitPidResume(p)
  PROVE  LifeInv'
<1> USE PidsFacts DEF LifeInv, At, Goto, Lock, Unlock, Forget, WaitPidResume
<1>1. TypeOK'
  BY DEF PCs, TypeOK
<1>2. StateInv'
  BY DEF TypeOK, StateInv, SelfHeld, Exiting
<1>3. WlockInv'
  BY DEF TypeOK, WlockInv, WaitHeld
<1>4. PlockInv'
  <2>0. PlockInv /\ pc[p] = "ws_off" /\ plock[p] = p
    <3>1. pc[p] = "ws_off" /\ st[p] = "RUNNING"
      BY DEF StateInv
    <3> QED BY <3>1 DEF PlockInv
  <2>1. /\ pc'[p] = "ws_relk" /\ plock'[p] = 0
        /\ \A q \in Pids \ {p} : plock'[q] = plock[q] /\ pc'[q] = pc[q]
        /\ st' = st /\ tgt' = tgt
    BY DEF TypeOK
  <2> HIDE DEF LifeInv, WaitPidResume
  <2>2. ASSUME NEW q \in Pids, NEW r \in Pids, q # r
        PROVE  plock'[r] = q <=> \/ pc'[q] \in TgtHeld /\ tgt'[q] = r
                                 \/ pc'[q] = "ex_child" /\ r = InitPid
    BY <2>0, <2>1, <2>2 DEF PlockInv, TgtHeld
  <2>3. ASSUME NEW q \in Pids
        PROVE  /\ plock'[q] = q => /\ pc'[q] \in SelfHeld
                                  /\ st'[q] \in {"RUNNING", "BLOCK", "ZOMBIE"}
               /\ pc'[q] \in {"resume", "wt_off", "ws_off"} /\ st'[q] = "RUNNING" => plock'[q] = q
               /\ pc'[q] \in {"ex_wake", "ex_off"} => plock'[q] = q
    BY <2>0, <2>1 DEF PlockInv, SelfHeld
  <2> QED BY <2>2, <2>3 DEF PlockInv
<1>5. TgtInv'
  BY DEF TypeOK, TgtInv, TgtOK, TgtHeld
<1>6. InitingInv'
  BY DEF TypeOK, InitingInv
<1>7. SleepInv'
  BY DEF TypeOK, SleepInv, TgtInv, TgtOK
<1>8. PidInv'
  BY PidsQuiet DEF TypeOK, PidInv
<1>9. ScanInv'
  BY DEF TypeOK, ScanInv
<1> QED BY <1>1, <1>2, <1>3, <1>4, <1>5, <1>6, <1>7, <1>8, <1>9

(* sys_wait4(pid) takes the lock of its target again.                      *)
LEMMA WaitPidRelockLife ==
  ASSUME LifeInv, NEW p \in Pids, WaitPidRelock(p)
  PROVE  LifeInv'
<1> USE PidsFacts DEF LifeInv, At, Goto, Lock, Unlock, Forget, WaitPidRelock
<1>1. TypeOK'
  BY DEF PCs, TypeOK
<1>2. StateInv'
  BY DEF TypeOK, StateInv, SelfHeld, Exiting
<1>3. WlockInv'
  BY DEF TypeOK, WlockInv, WaitHeld
<1>4. PlockInv'
  BY DEF TypeOK, PlockInv, TgtHeld, SelfHeld, TgtInv, TgtOK
<1>5. TgtInv'
  BY DEF TypeOK, TgtInv, TgtOK, TgtHeld
<1>6. InitingInv'
  BY DEF TypeOK, InitingInv
<1>7. SleepInv'
  BY DEF TypeOK, SleepInv, TgtInv, TgtOK
<1>8. PidInv'
  BY PidsQuiet DEF TypeOK, PidInv
<1>9. ScanInv'
  BY DEF TypeOK, ScanInv
<1> QED BY <1>1, <1>2, <1>3, <1>4, <1>5, <1>6, <1>7, <1>8, <1>9

(* sys_wait4(pid) takes wait_lock to reap its target.                      *)
LEMMA WaitPidFoundLife ==
  ASSUME LifeInv, NEW p \in Pids, WaitPidFound(p)
  PROVE  LifeInv'
<1> USE PidsFacts DEF LifeInv, At, Goto, Lock, Unlock, Forget, WaitPidFound
<1>1. TypeOK'
  BY DEF PCs, TypeOK
<1>2. StateInv'
  BY DEF TypeOK, StateInv, SelfHeld, Exiting
<1>3. WlockInv'
  BY DEF TypeOK, WlockInv, WaitHeld
<1>4. PlockInv'
  BY DEF TypeOK, PlockInv, TgtHeld, SelfHeld, TgtInv, TgtOK
<1>5. TgtInv'
  BY DEF TypeOK, TgtInv, TgtOK, TgtHeld
<1>6. InitingInv'
  BY DEF TypeOK, InitingInv
<1>7. SleepInv'
  BY DEF TypeOK, SleepInv, TgtInv, TgtOK
<1>8. PidInv'
  BY PidsQuiet DEF TypeOK, PidInv
<1>9. ScanInv'
  BY DEF TypeOK, ScanInv
<1> QED BY <1>1, <1>2, <1>3, <1>4, <1>5, <1>6, <1>7, <1>8, <1>9

(* sys_wait4() fails, or gives the target's pid back.                      *)
LEMMA ReapLife ==
  ASSUME LifeInv, NEW p \in Pids, Reap(p)
  PROVE  LifeInv'
<1> USE PidsFacts
<1>a. pc[p] = "reap" /\ st[p] = "RUNNING" /\ wlock = p
  BY DEF Reap, At, LifeInv, StateInv, SelfHeld, WlockInv, WaitHeld
<1>b. PICK t \in Pids : /\ t = tgt[p] /\ t # p /\ plock[t] = p /\ st[t] = "ZOMBIE" /\ t # InitPid
                        /\ \A q \in Pids \ {p} : pc[q] \in TgtHeld => tgt[q] # t
  <2>1. pc[p] \in TgtHeld
    BY <1>a DEF TgtHeld
  <2> QED BY <1>a, <2>1, HeldTgt, ZombieTgt
<1>c. ~ Clearing(t)
  BY <1>a, <1>b DEF Clearing, TgtHeld
<1>d. t \notin Elems(pidq) /\ ~ Taking(t)
  BY <1>b, <1>c DEF LifeInv, PidInv
<1>e. /\ Append(pidq, t) \in Seq(Pids) /\ Once(Append(pidq, t))
      /\ Elems(Append(pidq, t)) = Elems(pidq) \cup {t}
  BY <1>b, <1>d, AppendElems DEF LifeInv, TypeOK, PidInv
<1>f. /\ \A q \in Pids \ {p} : pc'[q] = pc[q] /\ tgt'[q] = tgt[q] /\ num'[q] = num[q]
      /\ \A q \in Pids \ {t} : plock'[q] = plock[q]
      /\ \/ wlock' = 0 /\ plock'[t] = 0 /\ pc'[p] = "user" /\ pidq' = pidq
         \/ wlock' = wlock /\ plock' = plock /\ pc'[p] = "reap_clr" /\ tgt' = tgt
            /\ pidq' = Append(pidq, t)
      /\ st' = st /\ w4child' = w4child /\ waitlist' = waitlist
  BY <1>b, SMTT(30) DEF Reap, Goto, Unlock, Forget, LifeInv, TypeOK
<1>g. LifeInv
  OBVIOUS
<1>1. TypeOK'
  <2>1. TypeOK
    BY DEF LifeInv
  <2>2. pc' \in [Pids -> PCs]
    BY <2>1 DEF Reap, Goto, TypeOK, PCs
  <2>3. pidq' \in Seq(Pids)
    BY <1>b, <1>e, <2>1 DEF Reap, TypeOK
  <2>4. plock' \in [Pids -> Pids \cup {0}]
    BY <1>b, <2>1 DEF Reap, Unlock, TypeOK
  <2>5. tgt' \in [Pids -> Pids \cup {0}] /\ num' \in [Pids -> Nat]
    BY <2>1, SMTT(40) DEF Reap, Forget, TypeOK
  <2>6. wlock' \in Pids \cup {0}
    BY <2>1 DEF Reap, TypeOK
  <2> QED BY <2>1, <2>2, <2>3, <2>4, <2>5, <2>6 DEF Reap, TypeOK
<1>2. StateInv'
  BY <1>a, <1>b, <1>f, <1>g DEF LifeInv, StateInv, SelfHeld, Exiting
<1>3. WlockInv'
  BY <1>a, <1>b, <1>f, <1>g DEF LifeInv, WlockInv, WaitHeld
<1>4. PlockInv'
  <2>1. PlockInv
    BY <1>g DEF LifeInv
  <2>2. ASSUME NEW q \in Pids, NEW r \in Pids, q # r
        PROVE  plock'[r] = q <=> \/ pc'[q] \in TgtHeld /\ tgt'[q] = r
                                 \/ pc'[q] = "ex_child" /\ r = InitPid
    BY <1>a, <1>b, <1>f, <2>1, <2>2 DEF PlockInv, TgtHeld
  <2>3. ASSUME NEW q \in Pids
        PROVE  /\ plock'[q] = q => /\ pc'[q] \in SelfHeld
                                  /\ st'[q] \in {"RUNNING", "BLOCK", "ZOMBIE"}
               /\ pc'[q] \in {"resume", "wt_off", "ws_off"} /\ st'[q] = "RUNNING" => plock'[q] = q
               /\ pc'[q] \in {"ex_wake", "ex_off"} => plock'[q] = q
    BY <1>a, <1>b, <1>f, <2>1 DEF PlockInv, SelfHeld
  <2> QED BY <2>2, <2>3 DEF PlockInv
<1>5. TgtInv'
  <2>1. ASSUME NEW q \in Pids PROVE TgtOK(q)'
    <3>1. TgtOK(q) /\ StateInv
      BY <1>g DEF LifeInv, LifeInv, TgtInv, TgtOK
    <3> QED BY <1>a, <1>b, <1>f, <3>1 DEF TgtOK, TgtHeld
  <2> QED BY <2>1 DEF TgtInv, TgtOK
<1>6. InitingInv'
  <2>1. ASSUME NEW d \in Pids, st'[d] = "INITING"
        PROVE  \E q \in Pids : pc'[q] \in {"fk_link", "fk_ready"} /\ tgt'[q] = d
    <3>1. PICK q \in Pids : pc[q] \in {"fk_link", "fk_ready"} /\ tgt[q] = d
      BY <1>f, <2>1 DEF LifeInv, InitingInv
    <3> QED BY <1>a, <1>f, <3>1
  <2> QED BY <2>1 DEF InitingInv
<1>7. SleepInv'
  BY <1>a, <1>b, <1>f, <1>g DEF LifeInv, SleepInv
<1>8. PidInv'
  <2>1. CASE pc'[p] = "user"
    <3>1. pidq' = pidq /\ ~ (pc'[p] = "reap_clr")
      BY <2>1, <1>f
    <3> QED BY <1>a, <1>f, <2>1, <3>1, PidsQuiet DEF LifeInv, PidInv
  <2>2. CASE pc'[p] = "reap_clr"
    <3>0. PidInv /\ pidq' = Append(pidq, t) /\ tgt' = tgt
      BY <2>2, <1>f DEF LifeInv
    <3>1. ASSUME NEW d \in Pids
          PROVE  (Taking(d)' <=> Taking(d)) /\ (Clearing(d)' <=> Clearing(d) \/ d = t)
      BY <1>a, <1>b, <1>f, <2>2, <3>0 DEF Taking, Clearing
    <3>2. ASSUME NEW q \in Pids, NEW r \in Pids, q # r, pc'[q] = "fk_lock", pc'[r] = "fk_lock"
          PROVE  tgt'[q] # tgt'[r]
      BY <1>a, <1>f, <2>2, <3>0, <3>2 DEF PidInv
    <3>3. /\ st'[InitPid] \notin {"NULL", "INITING", "ZOMBIE"} /\ Once(pidq')
          /\ \A d \in Pids : /\ (d \in Elems(pidq') \/ Taking(d)')
                                <=> (st'[d] = "NULL" \/ Clearing(d)')
                             /\ ~ (d \in Elems(pidq') /\ Taking(d)')
      BY <1>b, <1>d, <1>e, <1>f, <3>0, <3>1 DEF PidInv
    <3> QED BY <3>2, <3>3 DEF PidInv
  <2> QED BY <2>1, <2>2, <1>f
<1>9. ScanInv'
  BY <1>a, <1>b, <1>f, <1>g DEF LifeInv, ScanInv
<1> QED BY <1>1, <1>2, <1>3, <1>4, <1>5, <1>6, <1>7, <1>8, <1>9 DEF LifeInv

(* sys_wait4() clears the target's pcb and releases both locks.            *)
LEMMA ReapClearLife ==
  ASSUME LifeInv, NEW p \in Pids, ReapClear(p)
  PROVE  LifeInv'
<1> USE PidsFacts
<1>a. pc[p] = "reap_clr" /\ st[p] = "RUNNING" /\ wlock = p
  BY DEF ReapClear, At, LifeInv, StateInv, SelfHeld, WlockInv, WaitHeld
<1>b. PICK t \in Pids : /\ t = tgt[p] /\ t # p /\ plock[t] = p /\ st[t] = "ZOMBIE" /\ t # InitPid
                        /\ pc[t] = "dead" /\ waitlist[t] = {}
                        /\ \A q \in Pids \ {p} : pc[q] \in TgtHeld => tgt[q] # t
  <2>1. pc[p] \in TgtHeld
    BY <1>a DEF TgtHeld
  <2> QED BY <1>a, <2>1, HeldTgt, ZombieTgt
<1>c. /\ \A q \in Pids \ {p} :
           \/ pc'[q] = pc[q] /\ ~ (pc[q] \in {"ws_off", "ws_relk"} /\ tgt[q] = t)
           \/ pc'[q] = "ws_stale" /\ pc[q] \in {"ws_off", "ws_relk"} /\ tgt[q] = t
      /\ \A q \in Pids \ {p} : tgt'[q] = tgt[q] /\ num'[q] = num[q]
      /\ \A q \in Pids \ {t} : st'[q] = st[q] /\ plock'[q] = plock[q]
      /\ pc'[p] = "user" /\ pc'[t] = "dead" /\ st'[t] = "NULL" /\ plock'[t] = 0 /\ wlock' = 0
      /\ waitlist' = waitlist /\ w4child' = w4child /\ pidq' = pidq
  BY <1>a, <1>b DEF ReapClear, Unlock, Forget, WithStale, LifeInv, TypeOK
<1>d. LifeInv
  OBVIOUS
<1>1. TypeOK'
  <2>1. TypeOK
    BY DEF LifeInv
  <2>2. pc' \in [Pids -> PCs]
    BY <2>1 DEF ReapClear, TypeOK, PCs, WithStale
  <2>3. ASSUME NEW q \in Pids
        PROVE  [i \in DOMAIN children[q] |-> IF children[q][i] = t THEN 0 ELSE children[q][i]]
                  \in Seq(Pids \cup {0})
    <3>1. children[q] \in Seq(Pids \cup {0})
      BY <2>1 DEF TypeOK
    <3>2. DOMAIN children[q] = 1 .. Len(children[q]) /\ Len(children[q]) \in Nat
          /\ \A i \in 1 .. Len(children[q]) : children[q][i] \in Pids \cup {0}
      BY <3>1
    <3> QED BY <3>2
  <2>4. children' \in [Pids -> Seq(Pids \cup {0})]
    BY <1>b, <2>3 DEF ReapClear
  <2> QED BY <1>b, <2>1, <2>2, <2>4 DEF ReapClear, Unlock, Forget, TypeOK
<1>2. StateInv'
  BY <1>a, <1>b, <1>c, <1>d DEF LifeInv, StateInv, SelfHeld, Exiting
<1>3. WlockInv'
  BY <1>a, <1>b, <1>c, <1>d DEF LifeInv, WlockInv, WaitHeld
<1>4. PlockInv'
  BY <1>a, <1>b, <1>c, <1>d DEF LifeInv, PlockInv, TgtHeld, SelfHeld, TgtInv, TgtOK
<1>5. TgtInv'
  <2>1. ASSUME NEW q \in Pids PROVE TgtOK(q)'
    <3>1. TgtOK(q) /\ StateInv
      BY <1>d DEF LifeInv, LifeInv, TgtInv, TgtOK
    <3>2. CASE pc'[q] \in {"user", "dead", "ws_stale"}
      BY <3>2 DEF TgtOK, TgtHeld
    <3>3. CASE pc'[q] \notin {"user", "dead", "ws_stale"}
      <4>1. q \in Pids \ {p, t} /\ pc'[q] = pc[q] /\ tgt'[q] = tgt[q]
            /\ ~ (pc[q] \in {"ws_off", "ws_relk"} /\ tgt[q] = t)
        BY <1>b, <1>c, <3>3
      <4>2. pc[q] \in TgtHeld \cup {"ws_off", "ws_relk"} => tgt[q] # t
        BY <1>b, <4>1
      <4>3. pc[q] \in TgtHeld \cup {"ws_off", "ws_relk"}
              => tgt[q] \in Pids /\ st'[tgt[q]] = st[tgt[q]]
        BY <1>c, <3>1, <4>2 DEF TgtOK
      <4> QED BY <3>1, <4>1, <4>3 DEF TgtOK, TgtHeld
    <3> QED BY <3>2, <3>3
  <2> QED BY <2>1 DEF TgtInv, TgtOK
<1>6. InitingInv'
  BY <1>a, <1>b, <1>c, <1>d DEF LifeInv, InitingInv
<1>7. SleepInv'
  BY <1>a, <1>b, <1>c, <1>d DEF LifeInv, SleepInv
<1>8. PidInv'
  <2>0. PidInv
    BY DEF LifeInv
  <2>1. ASSUME NEW d \in Pids
        PROVE  (Taking(d)' <=> Taking(d)) /\ (Clearing(d)' <=> Clearing(d) /\ d # t)
    BY <1>a, <1>b, <1>c DEF Taking, Clearing, TgtHeld
  <2>2. Clearing(t)
    BY <1>a, <1>b DEF Clearing
  <2>3. ASSUME NEW q \in Pids, NEW r \in Pids, q # r, pc'[q] = "fk_lock", pc'[r] = "fk_lock"
        PROVE  tgt'[q] # tgt'[r]
    BY <1>a, <1>c, <2>0, <2>3 DEF PidInv
  <2>4. /\ st'[InitPid] \notin {"NULL", "INITING", "ZOMBIE"} /\ Once(pidq')
        /\ \A d \in Pids : /\ (d \in Elems(pidq') \/ Taking(d)')
                                <=> (st'[d] = "NULL" \/ Clearing(d)')
                           /\ ~ (d \in Elems(pidq') /\ Taking(d)')
    BY <1>b, <1>c, <2>0, <2>1, <2>2 DEF PidInv
  <2> QED BY <2>3, <2>4 DEF PidInv
<1>9. ScanInv'
  BY <1>a, <1>b, <1>c, <1>d DEF LifeInv, ScanInv
<1> QED BY <1>1, <1>2, <1>3, <1>4, <1>5, <1>6, <1>7, <1>8, <1>9 DEF LifeInv
-----------------------------------------------------------------------------
(* The table starts with init alone and every other pid in the queue.      *)
LEMMA InitLife == Init => LifeInv
<1> SUFFICES ASSUME Init PROVE LifeInv
  OBVIOUS
<1> USE PidsFacts DEF Init
<1>1. Pids = 1 .. (NPROC - 1) /\ InitPid = 1 /\ NPROC \in Nat /\ NPROC > 2
  BY WaitExitAssumption DEF Pids, InitPid
<1>2. pidq \in Seq(Pids) /\ DOMAIN pidq = 1 .. (NPROC - 2)
      /\ \A i \in 1 .. (NPROC - 2) : pidq[i] = i + 1
  BY <1>1
<1>3. Once(pidq)
  BY <1>1, <1>2 DEF Once
<1>4. Elems(pidq) = Pids \ {InitPid}
  <2>1. \A i \in DOMAIN pidq : pidq[i] \in Pids /\ pidq[i] # InitPid
    BY <1>1, <1>2
  <2>2. \A c \in Pids : c # InitPid => c - 1 \in DOMAIN pidq /\ pidq[c - 1] = c
    BY <1>1, <1>2
  <2> QED BY <2>1, <2>2 DEF Elems
<1>5. TypeOK
  BY <1>2 DEF TypeOK, PCs
<1>6. StateInv /\ WlockInv /\ ScanInv /\ SleepInv
  BY DEF StateInv, SelfHeld, Exiting, WlockInv, WaitHeld, ScanInv, SleepInv
<1>7. PlockInv
  BY DEF PlockInv, TgtHeld, SelfHeld
<1>8. TgtInv /\ InitingInv
  BY DEF TgtInv, TgtOK, TgtHeld, InitingInv
<1>9. PidInv
  BY <1>3, <1>4 DEF PidInv, Taking, Clearing
<1> QED BY <1>5, <1>6, <1>7, <1>8, <1>9 DEF LifeInv

(* Every step of any process preserves the invariant.                      *)
LEMMA NextLife == LifeInv /\ [Next]_vars => LifeInv'
<1> SUFFICES ASSUME LifeInv, [Next]_vars PROVE LifeInv'
  OBVIOUS
<1>1. CASE UNCHANGED vars
  BY <1>1, LifeStutter
<1>2. CASE Next
  <2> PICK p \in Pids : KernelStep(p) \/ ForkAllocpid(p) \/ ExitEnter(p)
                        \/ WaitEnter(p) \/ WaitPidEnter(p)
    BY <1>2 DEF Next
  <2> QED
    BY DispatchLife, DescheduledLife, ForkretLife, ForkAllocpidLife,
         ForkAllocprocLife, ForkLinkLife, ForkReadyLife, ExitEnterLife,
         ReparentNextLife, ReparentInitLife, ReparentChildLife,
         ExitZombieLife, ExitUnblockLife, ExitWakeParentLife, ExitSchedLife,
         WaitEnterLife, WaitScanLife, WaitFoundLife, WaitNoneLife,
         WaitSleepLife, WaitResumeLife, WaitPidEnterLife, WaitPidBlockLife,
         WaitPidResumeLife, WaitPidRelockLife, WaitPidFoundLife, ReapLife,
         ReapClearLife
       DEF KernelStep
<1> QED BY <1>1, <1>2

(* The invariant of the process table: the owner of every pcblock and of   *)
(* wait_lock, the process each running function works on, sleepers, and    *)
(* where every pid is, for all calls of fork(), exit() and wait4().        *)
THEOREM Life == Spec => []LifeInv
BY InitLife, NextLife, PTL DEF Spec

(* Types of the process table, of the locks and of the calls.              *)
THEOREM TypeCorrect == Spec => []TypeOK
<1>1. LifeInv => TypeOK
  BY DEF LifeInv
<1> QED BY <1>1, Life, PTL

(* Pids are conserved: every pid is in pids_queue, on its way from         *)
(* allocpid() to a pcb, or in use, and only one of these, although         *)
(* sys_wait4() frees the pid before it clears the pcb.                     *)
THEOREM PidsAreConserved == Spec => []PidPool
<1>1. LifeInv => PidPool
  <2> SUFFICES ASSUME LifeInv PROVE PidPool
    OBVIOUS
  <2>1. DOMAIN pidq = 1 .. Len(pidq)
    BY DEF LifeInv, TypeOK
  <2>2. \A i, j \in 1 .. Len(pidq) : i # j => pidq[i] # pidq[j]
    BY <2>1 DEF LifeInv, PidInv, Once
  <2>3. ASSUME NEW p \in Pids, pc[p] = "fk_lock"
        PROVE  /\ \A i \in 1 .. Len(pidq) : pidq[i] # tgt[p]
               /\ plock[tgt[p]] = 0 => st[tgt[p]] = "NULL"
    <3>1. tgt[p] \in Pids /\ Taking(tgt[p])
      BY <2>3 DEF LifeInv, TgtInv, TgtOK, Taking
    <3>2. tgt[p] \notin Elems(pidq)
      BY <3>1 DEF LifeInv, PidInv
    <3>3. Clearing(tgt[p]) => plock[tgt[p]] # 0
      BY HeldTgt, PidsFacts DEF Clearing, TgtHeld
    <3>4. st[tgt[p]] = "NULL" \/ Clearing(tgt[p])
      BY <3>1 DEF LifeInv, PidInv
    <3> QED BY <2>1, <3>2, <3>3, <3>4 DEF Elems
  <2>4. PidKept
    <3> SUFFICES ASSUME NEW c \in Pids, st[c] = "NULL"
                 PROVE  c \in Elems(pidq) \/ Taking(c)
      BY <2>1 DEF PidKept, Taking, Elems
    <3> QED BY DEF LifeInv, PidInv
  <2> QED BY <2>2, <2>3, <2>4 DEF PidPool, PidUnique
<1> QED BY <1>1, Life, PTL

(* Whoever an exit makes ready is off its stack: the parent whose w4child  *)
(* is set, and those that do_exit() takes off the wait_list.               *)
THEOREM WokenProcessesAreAsleep == Spec => []WokenAreAsleep
<1>1. LifeInv => W4childAsleep
  BY PidsFacts DEF LifeInv, W4childAsleep, SleepInv, StateInv, PlockInv
<1>2. LifeInv => WaitersBlocked
  BY DEF LifeInv, WaitersBlocked, SleepInv, TypeOK, At
<1> QED BY <1>1, <1>2, Life, PTL DEF WokenAreAsleep

-----------------------------------------------------------------------------
(* The lists of children, when programs only call wait().                  *)

(* A step of p that leaves lists and parents alone and neither takes a     *)
(* child in hand nor lets go of one.                                       *)
LEMMA FamilyQuiet ==
  ASSUME FamilyInv, LifeInv', NEW p \in Pids,
         children' = children, parent' = parent, waitlist' = waitlist,
         \A q \in Pids \ {p} : pc'[q] = pc[q] /\ tgt'[q] = tgt[q],
         \A q \in Pids : st'[q] = st[q] \/ {st[q], st'[q]} \cap {"NULL", "INITING"} = {},
         pc'[p] \notin PidWait, pc[p] # "fk_ready" /\ pc'[p] # "fk_ready",
         pc'[p] \in Childless => pc[p] \in Childless \/ children[p] = <<>>,
         pc[p] \in InHand <=> pc'[p] \in InHand,
         pc[p] \in InHand => tgt'[p] = tgt[p]
  PROVE  FamilyInv'
<1> USE PidsFacts
<1>1. NoPidWait'
  BY DEF FamilyInv, NoPidWait
<1>2. ASSUME NEW q \in Pids PROVE MemberOK(q)'
  <2>1. MemberOK(q)
    BY DEF FamilyInv, MemberInv
  <2>2. \A c \in Elems(children[q]) :
          /\ c \in Pids \ {InitPid} /\ parent[c] = q /\ st'[c] # "NULL"
          /\ st'[c] = "INITING" => pc'[q] = "fk_ready" /\ tgt'[q] = c
    BY <2>1 DEF MemberOK
  <2>3. pc'[q] \in Childless \/ st'[q] \in {"NULL", "INITING"} => children[q] = <<>>
    BY <2>1 DEF MemberOK
  <2> QED BY <2>1, <2>2, <2>3 DEF MemberOK, Once, Elems
<1>3. ASSUME NEW q \in Pids PROVE HandOK(q)'
  <2>1. HandOK(q) /\ (pc[q] \in InHand => tgt[q] \in Pids)
    BY DEF FamilyInv, HandInv, LifeInv, TgtInv, TgtOK, TgtHeld, InHand
  <2>2. (pc'[q] = "fk_ready" => pc[q] = "fk_ready") /\ (pc'[q] \in InHand => pc[q] \in InHand)
    OBVIOUS
  <2>3. pc[q] \in InHand \/ pc[q] = "fk_ready" => tgt'[q] = tgt[q]
    OBVIOUS
  <2>4. Elems(children[q])' = Elems(children[q])
    BY DEF Elems
  <2>5. pc[q] \in InHand => st'[tgt[q]] \notin {"NULL", "INITING"}
    BY <2>1 DEF HandOK
  <2> QED BY <2>1, <2>2, <2>3, <2>4, <2>5 DEF HandOK
<1>4. ASSUME NEW c \in Pids PROVE ListedOK(c)'
  <2>1. ListedOK(c)
    BY DEF FamilyInv, ListedInv
  <2> QED BY <2>1 DEF ListedOK, Elems
<1> QED BY <1>1, <1>2, <1>3, <1>4 DEF FamilyInv, MemberInv, HandInv, ListedInv

(* The actions that are such steps.                                        *)
LEMMA QuietSteps ==
  ASSUME FamilyInv, LifeInv', NEW p \in Pids,
         \/ Dispatch(p) \/ Descheduled(p) \/ Forkret(p) \/ ForkAllocpid(p) \/ ExitEnter(p)
         \/ ReparentInit(p) \/ ExitZombie(p) \/ ExitWakeParent(p) \/ ExitSched(p)
         \/ WaitEnter(p) \/ WaitFound(p) \/ WaitNone(p) \/ WaitSleep(p) \/ WaitResume(p)
  PROVE  FamilyInv'
<1> USE PidsFacts DEF At, Goto, Lock, Unlock, Forget, InHand, Childless, PidWait
<1>0. TypeOK /\ LifeInv /\ pc[p] \notin PidWait
  BY DEF FamilyInv, LifeInv, NoPidWait
<1>1. CASE Dispatch(p)
  <2>1. \A r \in Pids : st'[r] = st[r] \/ {st[r], st'[r]} \cap {"NULL", "INITING"} = {}
    BY <1>0, <1>1 DEF Dispatch, TypeOK
  <2>2. pc[p] # "fk_ready"
    BY <1>0, <1>1 DEF Dispatch, LifeInv, StateInv, SelfHeld
  <2> QED BY <1>0, <1>1, <2>1, <2>2, FamilyQuiet DEF Dispatch
<1>2. CASE Descheduled(p)
  BY <1>0, <1>2, FamilyQuiet DEF Descheduled
<1>3. CASE Forkret(p)
  BY <1>0, <1>3, FamilyQuiet DEF Forkret, TypeOK
<1>4. CASE ForkAllocpid(p)
  BY <1>0, <1>4, FamilyQuiet DEF ForkAllocpid, TypeOK
<1>5. CASE ExitEnter(p)
  BY <1>0, <1>5, FamilyQuiet DEF ExitEnter, TypeOK
<1>6. CASE ReparentInit(p)
  BY <1>0, <1>6, FamilyQuiet DEF ReparentInit, TypeOK
<1>7. CASE ExitZombie(p)
  <2>1. \A r \in Pids : st'[r] = st[r] \/ {st[r], st'[r]} \cap {"NULL", "INITING"} = {}
    BY <1>0, <1>7 DEF ExitZombie, TypeOK, LifeInv, StateInv, SelfHeld
  <2> QED BY <1>0, <1>7, <2>1, FamilyQuiet DEF ExitZombie, TypeOK
<1>8. CASE ExitWakeParent(p)
  <2>1. \A r \in Pids : w4child[r] => st[r] \in {"BLOCK", "READY", "RUNNING"}
    BY <1>0 DEF LifeInv, SleepInv, StateInv
  <2>2. \A r \in Pids : st'[r] = st[r] \/ (w4child[r] /\ st'[r] = "READY")
    BY <1>0, <1>8 DEF ExitWakeParent, TypeOK
  <2>3. \A r \in Pids : st'[r] = st[r] \/ {st[r], st'[r]} \cap {"NULL", "INITING"} = {}
    BY <2>1, <2>2
  <2> QED BY <1>0, <1>8, <2>3, FamilyQuiet DEF ExitWakeParent, TypeOK
<1>9. CASE ExitSched(p)
  BY <1>0, <1>9, FamilyQuiet DEF ExitSched, TypeOK
<1>10. CASE WaitEnter(p)
  BY <1>0, <1>10, FamilyQuiet DEF WaitEnter, TypeOK
<1>11. CASE WaitFound(p)
  BY <1>0, <1>11, FamilyQuiet DEF WaitFound, TypeOK
<1>12. CASE WaitNone(p)
  BY <1>0, <1>12, FamilyQuiet DEF WaitNone, TypeOK
<1>13. CASE WaitSleep(p)
  <2>1. \A r \in Pids : st'[r] = st[r] \/ {st[r], st'[r]} \cap {"NULL", "INITING"} = {}
    BY <1>0, <1>13 DEF WaitSleep, TypeOK, LifeInv, StateInv, SelfHeld
  <2> QED BY <1>0, <1>13, <2>1, FamilyQuiet DEF WaitSleep, TypeOK
<1>14. CASE WaitResume(p)
  BY <1>0, <1>14, FamilyQuiet DEF WaitResume, TypeOK
<1> QED BY <1>1, <1>2, <1>3, <1>4, <1>5, <1>6, <1>7, <1>8, <1>9, <1>10, <1>11, <1>12,
           <1>13, <1>14

(* A process that is on a list of children, or in somebody's hands, is so  *)
(* with its parent and nobody else.                                        *)
LEMMA OneFamily ==
  ASSUME FamilyInv, NEW p \in Pids, NEW c \in Pids
  PROVE  /\ c \in Elems(children[p]) => parent[c] = p /\ c # InitPid
         /\ pc[p] \in InHand /\ tgt[p] = c => /\ parent[c] = p /\ c # InitPid
                                              /\ \A q \in Pids : c \notin Elems(children[q])
         /\ pc[p] \in {"fk_lock", "fk_link"} /\ tgt[p] = c /\ st[c] \in {"NULL", "INITING"} =>
              \A q \in Pids : c \notin Elems(children[q])
<1>1. \A q \in Pids : c \in Elems(children[q]) =>
         /\ parent[c] = q /\ c # InitPid /\ st[c] # "NULL"
         /\ st[c] = "INITING" => pc[q] = "fk_ready" /\ tgt[q] = c
  BY DEF FamilyInv, MemberInv, MemberOK
<1>2. pc[p] \in InHand /\ tgt[p] = c => /\ parent[c] = p /\ c # InitPid
                                        /\ c \notin Elems(children[p])
  BY DEF FamilyInv, HandInv, HandOK
<1>3. pc[p] = "fk_link" /\ tgt[p] = c => \A q \in Pids : ~ (pc[q] = "fk_ready" /\ tgt[q] = c)
  BY HeldTgt DEF FamilyInv, TgtHeld
<1>4. pc[p] = "fk_lock" /\ tgt[p] = c => st[c] # "INITING"
  <2>1. pc[p] = "fk_lock" /\ tgt[p] = c => Taking(c)
    BY DEF Taking
  <2>2. Taking(c) => st[c] = "NULL" \/ Clearing(c)
    BY DEF FamilyInv, LifeInv, PidInv
  <2>3. Clearing(c) => st[c] = "ZOMBIE"
    BY DEF FamilyInv, LifeInv, TgtInv, TgtOK, Clearing
  <2> QED BY <2>1, <2>2, <2>3
<1> QED BY <1>1, <1>2, <1>3, <1>4

(* allocproc(): the new process has no children yet.                       *)
LEMMA ForkAllocprocFamily ==
  ASSUME FamilyInv, LifeInv', NEW p \in Pids, ForkAllocproc(p)
  PROVE  FamilyInv'
<1> USE PidsFacts
<1>0. LifeInv /\ TypeOK /\ pc[p] = "fk_lock" /\ st[p] = "RUNNING"
  BY DEF FamilyInv, LifeInv, ForkAllocproc, At, StateInv, SelfHeld
<1>1. PICK c \in Pids : c = tgt[p] /\ c # p
  BY <1>0 DEF LifeInv, TgtInv, TgtOK
<1>2. st[c] = "NULL"
  <2>1. Taking(c) /\ plock[c] = 0
    BY <1>0, <1>1 DEF Taking, ForkAllocproc, Lock
  <2>2. ~ Clearing(c)
    BY <1>0, <2>1, HeldTgt DEF Clearing, TgtHeld
  <2> QED BY <1>0, <2>1, <2>2 DEF LifeInv, PidInv
<1>3. children[c] = <<>> /\ \A q \in Pids : c \notin Elems(children[q])
  BY <1>0, <1>1, <1>2, OneFamily DEF FamilyInv, MemberInv, MemberOK
<1>4. /\ \A q \in Pids \ {c, p} : pc'[q] = pc[q]
      /\ \A q \in Pids \ {c} : st'[q] = st[q] /\ waitlist'[q] = waitlist[q]
      /\ pc'[c] = "resume" /\ pc'[p] = "fk_link" /\ st'[c] = "INITING" /\ waitlist'[c] = {}
      /\ tgt' = tgt /\ parent' = parent /\ children' = children
  BY <1>0, <1>1, <1>3 DEF ForkAllocproc, TypeOK
<1>5. pc[c] \in {"resume", "dead"}
  BY <1>0, <1>2 DEF LifeInv, StateInv, SelfHeld
<1>6. NoPidWait'
  BY <1>4 DEF FamilyInv, NoPidWait, PidWait
<1>7. ASSUME NEW q \in Pids PROVE MemberOK(q)'
  <2>1. MemberOK(q) /\ Elems(children'[q]) = Elems(children[q])
          /\ (Once(children'[q]) <=> Once(children[q]))
    BY <1>4 DEF FamilyInv, MemberInv, Elems, Once
  <2>2. \A d \in Elems(children[q]) : d # c /\ d \in Pids /\ st'[d] = st[d]
    BY <1>3, <1>4, <2>1 DEF MemberOK
  <2>3. CASE q = c
    BY <1>3, <1>4, <2>1, <2>3 DEF MemberOK, Elems
  <2>4. CASE q # c
    BY <1>0, <1>4, <2>1, <2>2, <2>4 DEF MemberOK, Childless
  <2> QED BY <2>3, <2>4
<1>8. ASSUME NEW q \in Pids PROVE HandOK(q)'
  <2>1. HandOK(q) /\ Elems(children'[q]) = Elems(children[q])
        /\ (pc[q] \in InHand => tgt[q] \in Pids /\ tgt[q] # c)
    BY <1>0, <1>2, <1>4
       DEF FamilyInv, HandInv, HandOK, Elems, LifeInv, TgtInv, TgtOK, TgtHeld, InHand
  <2> QED BY <1>0, <1>1, <1>4, <1>5, <2>1 DEF HandOK, InHand
<1>9. ASSUME NEW d \in Pids PROVE ListedOK(d)'
  <2>1. ListedOK(d) /\ (parent[d] \in Pids
          => Elems(children'[parent[d]]) = Elems(children[parent[d]]))
    BY <1>4 DEF FamilyInv, ListedInv, Elems
  <2> QED BY <1>0, <1>1, <1>2, <1>4, <1>5, <2>1 DEF ListedOK, InHand
<1> QED BY <1>6, <1>7, <1>8, <1>9 DEF FamilyInv, MemberInv, HandInv, ListedInv

(* do_fork(), under wait_lock: the new process gets a parent, and its      *)
(* parent a child.                                                         *)
LEMMA ForkLinkFamily ==
  ASSUME FamilyInv, LifeInv', NEW p \in Pids, ForkLink(p)
  PROVE  FamilyInv'
<1> USE PidsFacts
<1>0. LifeInv /\ TypeOK /\ pc[p] = "fk_link" /\ st[p] = "RUNNING"
  BY DEF FamilyInv, LifeInv, ForkLink, At, StateInv, SelfHeld
<1>1. PICK c \in Pids : c = tgt[p] /\ c # p
  BY <1>0, HeldTgt DEF TgtHeld
<1>2. st[c] = "INITING" /\ c # InitPid /\ pc[c] = "resume"
  BY <1>0, <1>1, ForkTgt
<1>3. \A q \in Pids : c \notin Elems(children[q])
  BY <1>0, <1>1, <1>2, OneFamily
<1>4. \A q \in Pids : Once(children[q]) /\ children[q] \in Seq(Pids \cup {0})
  BY <1>0 DEF FamilyInv, MemberInv, MemberOK, TypeOK
<1>5. Once(<<c>> \o children[p]) /\ Elems(<<c>> \o children[p]) = Elems(children[p]) \cup {c}
  BY <1>3, <1>4, FrontElems
<1>6. /\ \A q \in Pids \ {p} : pc'[q] = pc[q] /\ children'[q] = children[q]
      /\ \A q \in Pids \ {c} : parent'[q] = parent[q]
      /\ pc'[p] = "fk_ready" /\ parent'[c] = p
      /\ Once(children'[p]) /\ Elems(children'[p]) = Elems(children[p]) \cup {c}
      /\ tgt' = tgt /\ st' = st /\ waitlist' = waitlist
  BY <1>0, <1>1, <1>5 DEF ForkLink, Goto, TypeOK
<1>7. NoPidWait'
  BY <1>6 DEF FamilyInv, NoPidWait, PidWait
<1>8. ASSUME NEW q \in Pids PROVE MemberOK(q)'
  <2>1. MemberOK(q)
    BY DEF FamilyInv, MemberInv
  <2>2. CASE q # p
    BY <1>3, <1>6, <2>1, <2>2 DEF MemberOK
  <2>3. CASE q = p
    <3>1. \A d \in Elems(children[p]) : st[d] # "INITING" /\ d # c
      BY <1>0, <1>3, <2>1, <2>3 DEF MemberOK
    <3>2. \A d \in Elems(children'[p]) :
            /\ d \in Pids \ {InitPid} /\ parent'[d] = p /\ st'[d] # "NULL"
            /\ st'[d] = "INITING" => pc'[p] = "fk_ready" /\ tgt'[p] = d
      BY <1>1, <1>2, <1>6, <2>1, <2>3, <3>1 DEF MemberOK
    <3>3. ~ (pc'[p] \in Childless \/ st'[p] \in {"NULL", "INITING"})
      BY <1>0, <1>6 DEF Childless
    <3> QED BY <1>6, <2>3, <3>2, <3>3 DEF MemberOK
  <2> QED BY <2>2, <2>3
<1>9. ASSUME NEW q \in Pids PROVE HandOK(q)'
  <2>1. HandOK(q) /\ (pc[q] \in InHand => tgt[q] \in Pids /\ tgt[q] # c)
    BY <1>0, <1>2 DEF FamilyInv, HandInv, HandOK, LifeInv, TgtInv, TgtOK, TgtHeld, InHand
  <2>2. CASE q = p
    BY <1>1, <1>6, <2>2 DEF HandOK, InHand
  <2>3. CASE q # p
    BY <1>6, <2>1, <2>3 DEF HandOK
  <2> QED BY <2>2, <2>3
<1>10. ASSUME NEW d \in Pids PROVE ListedOK(d)'
  <2>1. ListedOK(d)
    BY DEF FamilyInv, ListedInv
  <2> QED BY <1>0, <1>2, <1>6, <2>1 DEF ListedOK, InHand
<1> QED BY <1>7, <1>8, <1>9, <1>10 DEF FamilyInv, MemberInv, HandInv, ListedInv

(* do_fork() makes the new process ready: from here on it counts as a      *)
(* process, and it is on its parent's list.                                *)
LEMMA ForkReadyFamily ==
  ASSUME FamilyInv, LifeInv', NEW p \in Pids, ForkReady(p)
  PROVE  FamilyInv'
<1> USE PidsFacts
<1>0. LifeInv /\ TypeOK /\ pc[p] = "fk_ready" /\ st[p] = "RUNNING"
  BY DEF FamilyInv, LifeInv, ForkReady, At, StateInv, SelfHeld
<1>1. PICK c \in Pids : c = tgt[p] /\ c # p
  BY <1>0, HeldTgt DEF TgtHeld
<1>2. st[c] = "INITING" /\ c # InitPid /\ pc[c] = "resume"
  BY <1>0, <1>1, ForkTgt
<1>3. c \in Elems(children[p]) /\ parent[c] = p
  BY <1>0, <1>1, OneFamily DEF FamilyInv, HandInv, HandOK
<1>4. /\ \A q \in Pids \ {p} : pc'[q] = pc[q] /\ tgt'[q] = tgt[q]
      /\ \A q \in Pids \ {c} : st'[q] = st[q]
      /\ pc'[p] = "user" /\ st'[c] = "READY"
      /\ parent' = parent /\ children' = children /\ waitlist' = waitlist
  BY <1>0, <1>1 DEF ForkReady, Goto, Forget, TypeOK
<1>5. NoPidWait'
  BY <1>4 DEF FamilyInv, NoPidWait, PidWait
<1>6. \A q \in Pids : Elems(children'[q]) = Elems(children[q])
        /\ (Once(children'[q]) <=> Once(children[q]))
  BY <1>4
<1>7. ASSUME NEW q \in Pids PROVE MemberOK(q)'
  <2>1. MemberOK(q)
    BY DEF FamilyInv, MemberInv
  <2>2. CASE q # p
    BY <1>4, <1>6, <2>1, <2>2 DEF MemberOK
  <2>3. CASE q = p
    <3>1. \A d \in Elems(children'[p]) : d \in Pids \ {InitPid} /\ parent'[d] = p
            /\ st'[d] \notin {"NULL", "INITING"}
      <4> SUFFICES ASSUME NEW d \in Elems(children[p])
                   PROVE  d \in Pids \ {InitPid} /\ parent[d] = p
                     /\ st'[d] \notin {"NULL", "INITING"}
        BY <1>4, <1>6
      <4>1. d \in Pids \ {InitPid} /\ parent[d] = p /\ st[d] # "NULL"
              /\ (st[d] = "INITING" => d = c)
        BY <1>1, <2>1, <2>3 DEF MemberOK
      <4> QED BY <1>4, <4>1
    <3>2. ~ (pc'[p] \in Childless \/ st'[p] \in {"NULL", "INITING"})
      BY <1>0, <1>1, <1>4 DEF Childless
    <3> QED BY <1>6, <2>1, <2>3, <3>1, <3>2 DEF MemberOK
  <2> QED BY <2>2, <2>3
<1>8. ASSUME NEW q \in Pids PROVE HandOK(q)'
  <2>1. HandOK(q) /\ (pc[q] \in InHand => tgt[q] \in Pids)
    BY <1>0 DEF FamilyInv, HandInv, LifeInv, TgtInv, TgtOK, TgtHeld, InHand
  <2>2. CASE q = p
    BY <1>4, <2>2 DEF HandOK, InHand
  <2>3. CASE q # p
    BY <1>4, <1>6, <2>1, <2>3 DEF HandOK
  <2> QED BY <2>2, <2>3
<1>9. ASSUME NEW d \in Pids PROVE ListedOK(d)'
  <2>1. ListedOK(d)
    BY DEF FamilyInv, ListedInv
  <2>2. CASE d = c
    BY <1>3, <1>4, <1>6, <2>2 DEF ListedOK
  <2>3. CASE d # c
    BY <1>0, <1>4, <1>6, <2>1, <2>3 DEF ListedOK, InHand
  <2> QED BY <2>2, <2>3
<1> QED BY <1>5, <1>7, <1>8, <1>9 DEF FamilyInv, MemberInv, HandInv, ListedInv

(* reparent() takes the first child off the list, or finds none.           *)
LEMMA ReparentNextFamily ==
  ASSUME FamilyInv, LifeInv', NEW p \in Pids, ReparentNext(p)
  PROVE  FamilyInv'
<1> USE PidsFacts
<1>0. LifeInv /\ TypeOK /\ pc[p] = "ex_repar" /\ st[p] = "RUNNING"
  BY DEF FamilyInv, LifeInv, ReparentNext, At, StateInv, SelfHeld
<1>1. CASE children[p] = <<>>
  BY <1>0, <1>1, FamilyQuiet DEF ReparentNext, Goto, TypeOK, InHand, Childless, PidWait
<1>2. CASE children[p] # <<>>
  <2>1. /\ Head(children[p]) \in Elems(children[p]) /\ Once(Tail(children[p]))
        /\ Elems(Tail(children[p])) = Elems(children[p]) \ {Head(children[p])}
    BY <1>0, <1>2, TailElems DEF FamilyInv, MemberInv, MemberOK, TypeOK
  <2>2. PICK c \in Pids : c = Head(children[p]) /\ c # InitPid /\ parent[c] = p
                          /\ st[c] \notin {"NULL", "INITING"}
    BY <1>0, <2>1 DEF FamilyInv, MemberInv, MemberOK
  <2>3. /\ \A q \in Pids \ {p} : pc'[q] = pc[q] /\ tgt'[q] = tgt[q] /\ children'[q] = children[q]
        /\ pc'[p] = "ex_init" /\ tgt'[p] = c
        /\ Once(children'[p]) /\ Elems(children'[p]) = Elems(children[p]) \ {c}
        /\ st' = st /\ parent' = parent /\ waitlist' = waitlist
    BY <1>0, <1>2, <2>1, <2>2 DEF ReparentNext, Goto, TypeOK
  <2>4. NoPidWait'
    BY <2>3 DEF FamilyInv, NoPidWait, PidWait
  <2>5. ASSUME NEW q \in Pids PROVE MemberOK(q)'
    <3>1. MemberOK(q)
      BY DEF FamilyInv, MemberInv
    <3>2. CASE q # p
      BY <2>3, <3>1, <3>2 DEF MemberOK
    <3>3. CASE q = p
      <4>1. \A d \in Elems(children'[p]) : d \in Pids \ {InitPid} /\ parent[d] = p
              /\ st[d] \notin {"NULL", "INITING"}
        BY <1>0, <2>3, <3>1, <3>3 DEF MemberOK
      <4>2. ~ (pc'[p] \in Childless \/ st'[p] \in {"NULL", "INITING"})
        BY <1>0, <2>3 DEF Childless
      <4> QED BY <2>3, <3>3, <4>1, <4>2 DEF MemberOK
    <3> QED BY <3>2, <3>3
  <2>6. ASSUME NEW q \in Pids PROVE HandOK(q)'
    <3>1. HandOK(q)
      BY DEF FamilyInv, HandInv
    <3>2. CASE q = p
      BY <2>2, <2>3, <3>2 DEF HandOK, InHand
    <3>3. CASE q # p
      BY <2>3, <3>1, <3>3 DEF HandOK
    <3> QED BY <3>2, <3>3
  <2>7. ASSUME NEW d \in Pids PROVE ListedOK(d)'
    <3>1. ListedOK(d)
      BY DEF FamilyInv, ListedInv
    <3>2. CASE d = c
      BY <2>2, <2>3, <3>2 DEF ListedOK, InHand
    <3>3. CASE d # c
      BY <1>0, <2>3, <3>1, <3>3 DEF ListedOK, InHand
    <3> QED BY <3>2, <3>3
  <2> QED BY <2>4, <2>5, <2>6, <2>7 DEF FamilyInv, MemberInv, HandInv, ListedInv
<1> QED BY <1>1, <1>2

(* reparent() puts the child on init's list.                               *)
LEMMA ReparentChildFamily ==
  ASSUME FamilyInv, LifeInv', NEW p \in Pids, ReparentChild(p)
  PROVE  FamilyInv'
<1> USE PidsFacts
<1>0. LifeInv /\ TypeOK /\ pc[p] = "ex_child" /\ st[p] = "RUNNING" /\ p # InitPid
  BY DEF FamilyInv, LifeInv, ReparentChild, At, StateInv, SelfHeld, Exiting
<1>1. PICK c \in Pids : c = tgt[p] /\ st[c] \notin {"NULL", "INITING"}
  BY <1>0 DEF FamilyInv, HandInv, HandOK, InHand, LifeInv, TgtInv, TgtOK
<1>2. c # InitPid /\ parent[c] = p /\ \A q \in Pids : c \notin Elems(children[q])
  BY <1>0, <1>1, OneFamily DEF InHand
<1>3. /\ Once(<<c>> \o children[InitPid])
      /\ Elems(<<c>> \o children[InitPid]) = Elems(children[InitPid]) \cup {c}
  BY <1>0, <1>2, FrontElems DEF FamilyInv, MemberInv, MemberOK, TypeOK
<1>4. /\ \A q \in Pids \ {p} : pc'[q] = pc[q]
      /\ \A q \in Pids \ {InitPid} : children'[q] = children[q] /\ st'[q] = st[q]
      /\ \A q \in Pids \ {c} : parent'[q] = parent[q]
      /\ pc'[p] = "ex_repar" /\ parent'[c] = InitPid /\ tgt' = tgt /\ waitlist' = waitlist
      /\ Once(children'[InitPid]) /\ Elems(children'[InitPid]) = Elems(children[InitPid]) \cup {c}
  BY <1>0, <1>1, <1>3 DEF ReparentChild, Goto, TypeOK
<1>5. /\ \A q \in Pids : st'[q] = st[q] \/ (st[q] \notin {"NULL", "INITING"}
        /\ st'[q] \notin {"NULL", "INITING"})
      /\ pc[InitPid] \notin Childless /\ st'[InitPid] \notin {"NULL", "INITING"}
  <2>1. st[InitPid] \notin {"NULL", "INITING"} /\ pc[InitPid] \notin Childless
    BY <1>0 DEF LifeInv, PidInv, StateInv, Exiting, Childless
  <2>2. st'[InitPid] \notin {"NULL", "INITING"}
    BY DEF LifeInv, PidInv
  <2> QED BY <1>4, <2>1, <2>2
<1>6. NoPidWait'
  BY <1>4 DEF FamilyInv, NoPidWait, PidWait
<1>7. ASSUME NEW q \in Pids PROVE MemberOK(q)'
  <2>1. MemberOK(q)
    BY DEF FamilyInv, MemberInv
  <2>2. CASE q # InitPid
    <3>1. \A d \in Elems(children[q]) : d # c /\ d \in Pids \ {InitPid} /\ parent'[d] = q
            /\ st'[d] = st[d]
      BY <1>2, <1>4, <2>1 DEF MemberOK
    <3>2. pc'[q] \in Childless => pc[q] \in Childless
      BY <1>4 DEF Childless
    <3>3. pc[q] = "fk_ready" => pc'[q] = "fk_ready"
      BY <1>0, <1>4
    <3>4. children'[q] = children[q] /\ st'[q] = st[q] /\ tgt'[q] = tgt[q]
      BY <1>4, <2>2
    <3>5. \A d \in Elems(children'[q]) :
            /\ d \in Pids \ {InitPid} /\ parent'[d] = q /\ st'[d] # "NULL"
            /\ st'[d] = "INITING" => pc'[q] = "fk_ready" /\ tgt'[q] = d
      BY <2>1, <3>1, <3>3, <3>4 DEF MemberOK
    <3> QED BY <2>1, <3>2, <3>4, <3>5 DEF MemberOK
  <2>3. CASE q = InitPid
    <3>1. \A d \in Elems(children'[InitPid]) :
            /\ d \in Pids \ {InitPid} /\ parent'[d] = InitPid /\ st'[d] # "NULL"
            /\ st'[d] = "INITING" => pc[q] = "fk_ready" /\ tgt[q] = d
      <4> SUFFICES ASSUME NEW d \in Elems(children'[InitPid])
                   PROVE  /\ d \in Pids \ {InitPid} /\ parent'[d] = InitPid /\ st'[d] # "NULL"
                          /\ st'[d] = "INITING" => pc[q] = "fk_ready" /\ tgt[q] = d
        OBVIOUS
      <4>1. CASE d = c
        BY <1>1, <1>2, <1>4, <4>1
      <4>2. CASE d # c
        <5>1. d \in Elems(children[InitPid]) /\ d \in Pids \ {InitPid}
          BY <1>4, <2>1, <2>3, <4>2 DEF MemberOK
        <5>2. parent'[d] = parent[d] /\ st'[d] = st[d]
          BY <1>4, <4>2, <5>1
        <5> QED BY <2>1, <2>3, <5>1, <5>2 DEF MemberOK
      <4> QED BY <4>1, <4>2
    <3> QED BY <1>0, <1>4, <1>5, <2>3, <3>1 DEF MemberOK
  <2> QED BY <2>2, <2>3
<1>8. ASSUME NEW q \in Pids PROVE HandOK(q)'
  <2>1. HandOK(q) /\ (pc[q] \in InHand => tgt[q] \in Pids)
    BY <1>0 DEF FamilyInv, HandInv, LifeInv, TgtInv, TgtOK, TgtHeld, InHand
  <2>2. CASE q = p
    BY <1>4, <2>2 DEF HandOK, InHand
  <2>3. CASE q # p
    <3>1. pc[q] \in InHand => tgt[q] # c
      BY <1>2, <2>1, <2>3 DEF HandOK
    <3>2. pc'[q] = pc[q] /\ tgt'[q] = tgt[q] /\ Elems(children[q]) \subseteq Elems(children'[q])
          /\ Elems(children'[q]) \subseteq Elems(children[q]) \cup {c}
      BY <1>4, <2>3
    <3>3. pc[q] \in InHand => parent'[tgt[q]] = q /\ st'[tgt[q]] \notin {"NULL", "INITING"}
      BY <1>4, <1>5, <2>1, <3>1 DEF HandOK
    <3> QED BY <2>1, <3>1, <3>2, <3>3 DEF HandOK
  <2> QED BY <2>2, <2>3
<1>9. ASSUME NEW d \in Pids PROVE ListedOK(d)'
  <2>1. ListedOK(d)
    BY DEF FamilyInv, ListedInv
  <2>2. CASE d = c
    BY <1>4, <2>2 DEF ListedOK
  <2>3. CASE d # c
    <3>1. \A q \in Pids : Elems(children[q]) \subseteq Elems(children'[q])
      BY <1>4
    <3>2. \A q \in Pids : pc[q] \in InHand /\ tgt[q] = d => pc'[q] \in InHand
      BY <1>1, <1>4, <2>3
    <3> QED BY <1>4, <1>5, <2>1, <2>3, <3>1, <3>2 DEF ListedOK
  <2> QED BY <2>2, <2>3
<1> QED BY <1>6, <1>7, <1>8, <1>9 DEF FamilyInv, MemberInv, HandInv, ListedInv

(* sys_wait4() looks at a child and, if it is a zombie, takes it in hand.  *)
LEMMA WaitScanFamily ==
  ASSUME FamilyInv, LifeInv', NEW p \in Pids, WaitScan(p)
  PROVE  FamilyInv'
<1> USE PidsFacts
<1>0. LifeInv /\ TypeOK /\ pc[p] = "wt_scan" /\ st[p] = "RUNNING" /\ num[p] # 0
  BY DEF FamilyInv, LifeInv, WaitScan, At, StateInv, SelfHeld, ScanInv
<1>1. num[p] \in DOMAIN children[p] /\ children[p] \in Seq(Pids \cup {0}) /\ Once(children[p])
  <2>1. num[p] \in Nat /\ num[p] <= Len(children[p]) /\ children[p] \in Seq(Pids \cup {0})
    BY <1>0 DEF WaitScan, TypeOK
  <2> QED BY <1>0, <2>1 DEF FamilyInv, MemberInv, MemberOK
<1>2. PICK c \in Pids : c = children[p][num[p]] /\ c \in Elems(children[p])
  BY <1>1 DEF FamilyInv, MemberInv, MemberOK, Elems
<1>3. c # InitPid /\ parent[c] = p
  BY <1>2, OneFamily
<1>4. CASE st[c] # "ZOMBIE"
  <2>1. UNCHANGED <<st, pc, parent, children, waitlist, tgt>>
    BY <1>2, <1>4 DEF WaitScan
  <2> QED BY <1>0, <2>1, FamilyQuiet DEF InHand, Childless, PidWait
<1>5. CASE st[c] = "ZOMBIE"
  <2>1. /\ Once(list_del(children[p], num[p]))
        /\ Elems(list_del(children[p], num[p])) = Elems(children[p]) \ {c}
    BY <1>1, <1>2, DelElems
  <2>3. /\ \A q \in Pids \ {p} : pc'[q] = pc[q] /\ tgt'[q] = tgt[q] /\ children'[q] = children[q]
        /\ pc'[p] = "wt_killed" /\ tgt'[p] = c
        /\ Once(children'[p]) /\ Elems(children'[p]) = Elems(children[p]) \ {c}
        /\ st' = st /\ parent' = parent /\ waitlist' = waitlist
    BY <1>0, <1>2, <1>5, <2>1 DEF WaitScan, Goto, TypeOK
  <2>4. NoPidWait'
    BY <2>3 DEF FamilyInv, NoPidWait, PidWait
  <2>5. ASSUME NEW q \in Pids PROVE MemberOK(q)'
    <3>1. MemberOK(q)
      BY DEF FamilyInv, MemberInv
    <3>2. CASE q # p
      BY <2>3, <3>1, <3>2 DEF MemberOK
    <3>3. CASE q = p
      <4>1. \A d \in Elems(children'[p]) : d \in Pids \ {InitPid} /\ parent[d] = p
              /\ st[d] \notin {"NULL", "INITING"}
        BY <1>0, <2>3, <3>1, <3>3 DEF MemberOK
      <4>2. ~ (pc'[p] \in Childless \/ st'[p] \in {"NULL", "INITING"})
        BY <1>0, <2>3 DEF Childless
      <4> QED BY <2>3, <3>3, <4>1, <4>2 DEF MemberOK
    <3> QED BY <3>2, <3>3
  <2>6. ASSUME NEW q \in Pids PROVE HandOK(q)'
    <3>1. HandOK(q)
      BY DEF FamilyInv, HandInv
    <3>2. CASE q = p
      BY <1>3, <1>5, <2>3, <3>2 DEF HandOK, InHand
    <3>3. CASE q # p
      BY <2>3, <3>1, <3>3 DEF HandOK
    <3> QED BY <3>2, <3>3
  <2>7. ASSUME NEW d \in Pids PROVE ListedOK(d)'
    <3>1. ListedOK(d)
      BY DEF FamilyInv, ListedInv
    <3>2. CASE d = c
      BY <1>3, <2>3, <3>2 DEF ListedOK, InHand
    <3>3. CASE d # c
      BY <1>0, <2>3, <3>1, <3>3 DEF ListedOK, InHand
    <3> QED BY <3>2, <3>3
  <2> QED BY <2>4, <2>5, <2>6, <2>7 DEF FamilyInv, MemberInv, HandInv, ListedInv
<1> QED BY <1>4, <1>5

(* sys_wait4() clears the pcb of a zombie that is on nobody's list.        *)
LEMMA ReapClearFamily ==
  ASSUME FamilyInv, LifeInv', NEW p \in Pids, ReapClear(p)
  PROVE  FamilyInv'
<1> USE PidsFacts
<1>0. LifeInv /\ TypeOK /\ pc[p] = "reap_clr"
  BY DEF FamilyInv, LifeInv, ReapClear, At
<1>1. PICK t \in Pids : t = tgt[p] /\ t # p /\ pc[t] = "dead"
  BY <1>0, HeldTgt, ZombieTgt DEF TgtHeld
<1>2. parent[t] = p /\ t # InitPid /\ \A q \in Pids : t \notin Elems(children[q])
  BY <1>0, <1>1, OneFamily DEF InHand
<1>3. ASSUME NEW q \in Pids
      PROVE  [i \in DOMAIN children[q] |-> IF children[q][i] = t THEN 0 ELSE children[q][i]]
             = children[q]
  <2>1. children[q] \in Seq(Pids \cup {0})
    BY <1>0 DEF TypeOK
  <2>2. \A i \in DOMAIN children[q] : children[q][i] # t
    BY <1>2 DEF Elems
  <2> QED BY <2>1, <2>2
<1>4. children' = children
  BY <1>0, <1>1, <1>3 DEF ReapClear, TypeOK
<1>5. /\ \A q \in Pids \ {p} : pc'[q] = pc[q] /\ tgt'[q] = tgt[q]
      /\ \A q \in Pids \ {t} : st'[q] = st[q]
      /\ pc'[p] = "user" /\ st'[t] = "NULL" /\ parent' = parent /\ waitlist' = waitlist
  BY <1>0, <1>1 DEF ReapClear, WithStale, Forget, TypeOK, FamilyInv, NoPidWait, PidWait
<1>6. NoPidWait'
  BY <1>5 DEF FamilyInv, NoPidWait, PidWait
<1>7. ASSUME NEW q \in Pids PROVE MemberOK(q)'
  <2>1. MemberOK(q) /\ children'[q] = children[q]
    BY <1>4 DEF FamilyInv, MemberInv
  <2>2. \A d \in Elems(children[q]) :
          /\ d \in Pids \ {InitPid} /\ parent'[d] = q /\ st'[d] # "NULL"
          /\ st'[d] = "INITING" => pc'[q] = "fk_ready" /\ tgt'[q] = d
    <3>1. SUFFICES ASSUME NEW d \in Elems(children[q])
                   PROVE  /\ d \in Pids \ {InitPid} /\ parent'[d] = q /\ st'[d] # "NULL"
                          /\ st'[d] = "INITING" => pc'[q] = "fk_ready" /\ tgt'[q] = d
      OBVIOUS
    <3>2. /\ d \in Pids \ {InitPid} /\ parent[d] = q /\ st[d] # "NULL"
          /\ st[d] = "INITING" => pc[q] = "fk_ready" /\ tgt[q] = d
      BY <2>1 DEF MemberOK
    <3>3. d # t
      BY <1>2
    <3> QED BY <1>0, <1>5, <3>2, <3>3
  <2>3. pc'[q] \in Childless \/ st'[q] \in {"NULL", "INITING"} => children[q] = <<>>
    BY <1>1, <1>5, <2>1 DEF MemberOK, Childless
  <2> QED BY <2>1, <2>2, <2>3 DEF MemberOK
<1>8. ASSUME NEW q \in Pids PROVE HandOK(q)'
  <2>1. HandOK(q) /\ (pc[q] \in InHand => tgt[q] \in Pids) /\ children'[q] = children[q]
    BY <1>0, <1>4 DEF FamilyInv, HandInv, LifeInv, TgtInv, TgtOK, TgtHeld, InHand
  <2>2. CASE q = p
    BY <1>5, <2>2 DEF HandOK, InHand
  <2>3. CASE q # p
    BY <1>2, <1>5, <2>1, <2>3 DEF HandOK
  <2> QED BY <2>2, <2>3
<1>9. ASSUME NEW d \in Pids PROVE ListedOK(d)'
  <2>1. ListedOK(d) /\ children' = children
    BY <1>4 DEF FamilyInv, ListedInv
  <2>2. CASE d = t
    BY <1>5, <2>2 DEF ListedOK
  <2>3. CASE d # t
    BY <1>1, <1>5, <2>1, <2>3 DEF ListedOK
  <2> QED BY <2>2, <2>3
<1> QED BY <1>6, <1>7, <1>8, <1>9 DEF FamilyInv, MemberInv, HandInv, ListedInv

(* No children to begin with.                                              *)
LEMMA InitFamily == Init => FamilyInv
<1> SUFFICES ASSUME Init PROVE FamilyInv
  OBVIOUS
<1>1. LifeInv
  BY InitLife
<1>2. \A q \in Pids : children[q] = <<>> /\ Once(children[q]) /\ Elems(children[q]) = {}
  BY DEF Init, Once, Elems
<1>3. NoPidWait /\ HandInv
  BY DEF Init, NoPidWait, PidWait, HandInv, HandOK, InHand
<1>4. MemberInv
  BY <1>2 DEF MemberInv, MemberOK
<1>5. ListedInv
  BY DEF Init, ListedInv, ListedOK
<1> QED BY <1>1, <1>3, <1>4, <1>5 DEF FamilyInv

(* Every step preserves it when programs only call wait().                 *)
LEMMA NextFamily ==
  ASSUME WaitOnly PROVE FamilyInv /\ [Next]_vars => FamilyInv'
<1> SUFFICES ASSUME FamilyInv, [Next]_vars PROVE FamilyInv'
  OBVIOUS
<1>1. LifeInv'
  BY NextLife DEF FamilyInv
<1>2. CASE UNCHANGED vars
  <2>1. NoPidWait' /\ MemberInv'
    BY <1>2 DEF vars, FamilyInv, NoPidWait, MemberInv, MemberOK
  <2>2. HandInv' /\ ListedInv'
    BY <1>2 DEF vars, FamilyInv, HandInv, HandOK, ListedInv, ListedOK
  <2> QED BY <1>1, <2>1, <2>2 DEF FamilyInv
<1>3. CASE Next
  <2>1. PICK p \in Pids : KernelStep(p) \/ ForkAllocpid(p) \/ ExitEnter(p)
                          \/ WaitEnter(p) \/ WaitPidEnter(p)
    BY <1>3 DEF Next
  <2>2. ~ ExitUnblock(p)
    BY DEF ExitUnblock, FamilyInv, NoPidWait
  <2>3. ~ (WaitPidBlock(p) \/ WaitPidResume(p) \/ WaitPidRelock(p) \/ WaitPidFound(p))
    BY DEF WaitPidBlock, WaitPidResume, WaitPidRelock, WaitPidFound, At,
           FamilyInv, NoPidWait, PidWait
  <2>4. ~ WaitPidEnter(p)
    BY DEF WaitPidEnter, WaitOnly
  <2>5. Reap(p) => FamilyInv'
    <3> SUFFICES ASSUME Reap(p) PROVE FamilyInv'
      OBVIOUS
    <3>1. pc[p] = "reap" /\ pc' = [pc EXCEPT ![p] = "reap_clr"]
          /\ UNCHANGED <<st, parent, children, waitlist, tgt>> /\ TypeOK
      BY DEF Reap, At, Goto, WaitOnly, FamilyInv, LifeInv
    <3> QED BY <1>1, <3>1, FamilyQuiet DEF TypeOK, InHand, Childless, PidWait
  <2> QED BY <1>1, <2>1, <2>2, <2>3, <2>4, <2>5, QuietSteps, ForkAllocprocFamily,
             ForkLinkFamily, ForkReadyFamily, ReparentNextFamily, ReparentChildFamily,
             WaitScanFamily, ReapClearFamily
          DEF KernelStep
<1> QED BY <1>2, <1>3

(* The invariant of the families, when programs only call wait().          *)
THEOREM Family == ASSUME WaitOnly PROVE Spec => []FamilyInv
BY InitFamily, NextFamily, PTL DEF Spec

(* The lists of children and the parent pointers agree through forks,      *)
(* exits that hand children to init, and reaping: every node of a          *)
(* child_list is a living pcb of a child of the owner, and while wait_lock *)
(* is free every process but init is on the list of a parent that has not  *)
(* exited.                                                                 *)
THEOREM ChildListsAgree == ASSUME WaitOnly PROVE Spec => []ChildLists
<1>1. FamilyInv => ChildLists
  <2> SUFFICES ASSUME FamilyInv PROVE ChildLists
    OBVIOUS
  <2>0. \A q \in Pids : DOMAIN children[q] = 1 .. Len(children[q])
    BY DEF FamilyInv, LifeInv, TypeOK
  <2>1. NoDanglingChild
    <3>1. \A q \in Pids : \A i \in 1 .. Len(children[q]) : children[q][i] \in Elems(children[q])
      BY <2>0 DEF Elems
    <3>2. \A q \in Pids : \A c \in Elems(children[q]) : c \in Pids /\ parent[c] = q
      BY DEF FamilyInv, MemberInv, MemberOK
    <3> QED BY <3>1, <3>2, PidsFacts DEF NoDanglingChild
  <2>2. ASSUME wlock = 0, NEW c \in Pids \ {InitPid}, st[c] \notin {"NULL", "INITING"}
        PROVE  /\ \E i \in 1 .. Len(children[parent[c]]) : children[parent[c]][i] = c
               /\ st[parent[c]] \notin {"NULL", "ZOMBIE"}
    <3>1. parent[c] \in Pids /\ pc[parent[c]] \notin InHand
      BY <2>2, PidsFacts DEF FamilyInv, ListedInv, ListedOK, LifeInv, WlockInv, WaitHeld, InHand
    <3>2. c \in Elems(children[parent[c]])
      BY <2>2, <3>1 DEF FamilyInv, ListedInv, ListedOK
    <3>3. children[parent[c]] # <<>>
      BY <3>2 DEF Elems
    <3>4. pc[parent[c]] \notin Childless /\ st[parent[c]] # "NULL"
      BY <3>1, <3>3 DEF FamilyInv, MemberInv, MemberOK
    <3>5. st[parent[c]] # "ZOMBIE"
      BY <3>1, <3>4 DEF FamilyInv, LifeInv, StateInv, SelfHeld, Childless
    <3> QED BY <2>0, <3>1, <3>2, <3>4, <3>5 DEF Elems
  <2> QED BY <2>1, <2>2 DEF ChildLists, EveryChildListed
<1> QED BY <1>1, Family, PTL

-----------------------------------------------------------------------------
(* The order of the locks.  A function that owns wait_lock waits, if at    *)
(* all, for the pcblock of a process whose owner waits for nobody; whoever *)
(* waits for wait_lock waits for such a function.  So chains of waiting    *)
(* are at most two long.                                                   *)

(* Where a kernel thread waits for no lock.                                *)
LEMMA Resting ==
  ASSUME NEW p \in Pids,
         \/ st[p] \notin {"RUNNING", "ZOMBIE"}
         \/ pc[p] \in {"resume", "fk_ready", "ex_off", "dead", "wt_off", "reap", "reap_clr"}
  PROVE  Awaits(p) = 0
BY DEF Awaits

(* The owner of a pcblock: the process itself, its creator, the one that   *)
(* reaps it, or, for init, an exiting process.                             *)
LEMMA Holder ==
  ASSUME FamilyInv, NEW q \in Pids, plock[q] # 0
  PROVE  /\ plock[q] \in Pids
         /\ \/ /\ plock[q] = q /\ st[q] # "NULL"
               /\ pc[q] \in {"resume", "wt_off", "ex_wake", "ex_off", "dead"}
            \/ pc[plock[q]] \in {"fk_link", "fk_ready"} /\ st[q] = "INITING"
            \/ /\ pc[plock[q]] \in {"wt_killed", "reap", "reap_clr"} /\ tgt[plock[q]] = q
               /\ st[q] = "ZOMBIE" /\ wlock = plock[q] /\ plock[q] # q
            \/ pc[plock[q]] = "ex_child" /\ q = InitPid /\ wlock = plock[q] /\ plock[q] # q
<1>1. PICK h \in Pids : h = plock[q]
  BY DEF FamilyInv, LifeInv, TypeOK
<1>2. CASE h = q
  <2>1. pc[q] \in SelfHeld /\ st[q] \in {"RUNNING", "BLOCK", "ZOMBIE"}
    BY <1>1, <1>2 DEF FamilyInv, LifeInv, PlockInv
  <2>2. pc[q] \notin PidWait
    BY DEF FamilyInv, NoPidWait
  <2> QED BY <1>1, <1>2, <2>1, <2>2 DEF SelfHeld, PidWait
<1>3. CASE h # q
  <2>1. (pc[h] \in TgtHeld /\ tgt[h] = q) \/ (pc[h] = "ex_child" /\ q = InitPid)
    BY <1>1, <1>3 DEF FamilyInv, LifeInv, PlockInv
  <2>2. pc[h] \notin PidWait /\ TgtOK(h) /\ (wlock = h <=> pc[h] \in WaitHeld)
    BY DEF FamilyInv, NoPidWait, LifeInv, TgtInv, WlockInv
  <2> QED BY <1>1, <1>3, <2>1, <2>2 DEF TgtOK, TgtHeld, PidWait, WaitHeld
<1> QED BY <1>2, <1>3

(* The owner of wait_lock and the pcblock it waits for.                    *)
LEMMA OwnerWaits ==
  ASSUME FamilyInv, NEW p \in Pids, wlock = p, NEW q \in Pids, st[q] # "INITING",
         q = p => pc[p] \notin SelfHeld,
         ~ (pc[p] \in {"wt_killed", "reap", "reap_clr"} /\ tgt[p] = q),
         ~ (pc[p] = "ex_child" /\ q = InitPid),
         plock[q] # 0
  PROVE  plock[q] \in Pids /\ Awaits(plock[q]) = 0
<1>1. plock[q] = q /\ pc[q] \in {"resume", "wt_off", "ex_wake", "ex_off", "dead"} /\ q # p
  BY Holder DEF SelfHeld
<1>2. pc[q] \notin {"ex_wake", "ex_off"}
  BY <1>1 DEF FamilyInv, LifeInv, WlockInv, WaitHeld
<1> QED BY <1>1, <1>2, Resting

(* A function with wait_lock waits for one that waits for nobody.          *)
LEMMA OwnerChain ==
  ASSUME FamilyInv, NEW p \in Pids, wlock = p
  PROVE  \/ Awaits(p) = 0
         \/ Awaits(p) \in Pids /\ Awaits(Awaits(p)) = 0
<1> USE PidsFacts
<1>0. /\ pc[p] \in WaitHeld /\ TgtOK(p) /\ HandOK(p) /\ MemberOK(p) /\ ListedOK(p)
      /\ st[InitPid] \notin {"NULL", "INITING"}
      /\ pc[p] \in Exiting => p # InitPid
  BY DEF FamilyInv, LifeInv, WlockInv, TgtInv, HandInv, MemberInv, ListedInv, PidInv, StateInv
<1>1. ASSUME NEW q \in Pids, Awaits(p) = plock[q], st[q] # "INITING",
             q = p => pc[p] \notin SelfHeld,
             ~ (pc[p] \in {"wt_killed", "reap", "reap_clr"} /\ tgt[p] = q),
             ~ (pc[p] = "ex_child" /\ q = InitPid)
      PROVE  \/ Awaits(p) = 0
             \/ Awaits(p) \in Pids /\ Awaits(Awaits(p)) = 0
  BY <1>1, OwnerWaits
<1>2. CASE st[p] \notin {"RUNNING", "ZOMBIE"}
        \/ pc[p] \in {"ex_repar", "ex_off", "reap", "reap_clr"}
  BY <1>2 DEF Awaits
<1>3. CASE pc[p] = "ex_init"
  <2>1. Awaits(p) = 0 \/ Awaits(p) = plock[InitPid]
    BY <1>3 DEF Awaits
  <2> QED BY <1>0, <1>1, <1>3, <2>1 DEF Exiting
<1>4. CASE pc[p] = "ex_child"
  <2>1. Awaits(p) = 0 \/ Awaits(p) = plock[tgt[p]]
    BY <1>4 DEF Awaits
  <2>2. tgt[p] \in Pids /\ tgt[p] # InitPid /\ st[tgt[p]] # "INITING"
    BY <1>0, <1>4 DEF TgtOK, HandOK, InHand
  <2> QED BY <1>1, <1>4, <2>1, <2>2 DEF SelfHeld
<1>5. CASE pc[p] \in {"ex_self", "wt_killed"}
  <2>1. Awaits(p) = 0 \/ Awaits(p) = plock[p]
    BY <1>5 DEF Awaits
  <2>2. st[p] # "INITING" /\ (pc[p] = "wt_killed" => tgt[p] # p)
    BY <1>0, <1>5 DEF FamilyInv, LifeInv, StateInv, SelfHeld, TgtOK, TgtHeld
  <2> QED BY <1>1, <1>5, <2>1, <2>2 DEF SelfHeld
<1>6. CASE pc[p] = "ex_wake"
  <2>1. Awaits(p) = 0 \/ Awaits(p) = plock[parent[p]]
    BY <1>6 DEF Awaits
  <2>2. st[p] = "ZOMBIE" /\ p # InitPid
    BY <1>0, <1>6 DEF FamilyInv, LifeInv, StateInv, Exiting
  <2>3. parent[p] \in Pids /\ (p \in Elems(children[parent[p]]) \/ pc[parent[p]] \in InHand)
    BY <1>0, <2>2 DEF ListedOK
  <2>4. pc[parent[p]] \notin InHand
    BY <1>6, <2>3 DEF FamilyInv, LifeInv, WlockInv, WaitHeld, InHand
  <2>5. children[parent[p]] # <<>>
    BY <2>3, <2>4 DEF Elems
  <2>6. st[parent[p]] # "INITING" /\ pc[parent[p]] \notin Childless
    BY <2>3, <2>5 DEF FamilyInv, MemberInv, MemberOK
  <2>7. parent[p] # p
    BY <1>6, <2>6 DEF Childless
  <2> QED BY <1>1, <1>6, <2>1, <2>3, <2>6, <2>7
<1>7. CASE pc[p] = "wt_scan"
  <2>1. Awaits(p) = 0 \/ (num[p] <= Len(children[p]) /\ Awaits(p) = plock[children[p][num[p]]])
    BY <1>7 DEF Awaits
  <2>2. CASE num[p] <= Len(children[p]) /\ Awaits(p) = plock[children[p][num[p]]]
    <3>1. num[p] \in Nat /\ num[p] # 0 /\ children[p] \in Seq(Pids \cup {0})
      BY <1>7 DEF FamilyInv, LifeInv, ScanInv, TypeOK
    <3>2. num[p] \in DOMAIN children[p]
      BY <2>2, <3>1
    <3>3. children[p][num[p]] \in Elems(children[p])
      BY <3>2 DEF Elems
    <3>4. children[p][num[p]] \in Pids /\ st[children[p][num[p]]] # "INITING"
      BY <1>0, <1>7, <3>3 DEF MemberOK
    <3> QED BY <1>1, <1>7, <2>2, <3>4 DEF SelfHeld
  <2> QED BY <2>1, <2>2
<1> QED BY <1>0, <1>2, <1>3, <1>4, <1>5, <1>6, <1>7 DEF WaitHeld

(* Chains of waiting end.                                                  *)
LEMMA ChainsEnd ==
  ASSUME FamilyInv, NEW p \in Pids
  PROVE  \/ Awaits(p) = 0
         \/ Awaits(p) \in Pids /\ Awaits(Awaits(p)) = 0
         \/ Awaits(p) \in Pids /\ Awaits(Awaits(p)) \in Pids /\ Awaits(Awaits(Awaits(p))) = 0
<1> USE PidsFacts
<1>1. CASE pc[p] \in WaitHeld
  BY <1>1, OwnerChain DEF FamilyInv, LifeInv, WlockInv
<1>2. CASE pc[p] \in {"fk_link", "wt_again"}
  <2>1. Awaits(p) = 0 \/ Awaits(p) = wlock
    BY <1>2 DEF Awaits
  <2>2. wlock \in Pids \cup {0}
    BY DEF FamilyInv, LifeInv, TypeOK
  <2> QED BY <2>1, <2>2, OwnerChain
<1>3. CASE pc[p] = "wt_sleep"
  <2>1. Awaits(p) = 0 \/ Awaits(p) = plock[p]
    BY <1>3 DEF Awaits
  <2>2. st[p] = "RUNNING"
    BY <1>3 DEF FamilyInv, LifeInv, StateInv, SelfHeld
  <2>3. plock[p] # 0 => plock[p] \in Pids /\ wlock = plock[p]
    BY <1>3, <2>2, Holder
  <2> QED BY <2>1, <2>3, OwnerChain
<1>4. CASE pc[p] = "fk_lock"
  <2>1. Awaits(p) = 0 \/ Awaits(p) = plock[tgt[p]]
    BY <1>4 DEF Awaits
  <2>2. tgt[p] \in Pids /\ Taking(tgt[p])
    BY <1>4 DEF FamilyInv, LifeInv, TgtInv, TgtOK, Taking
  <2>3. st[tgt[p]] = "NULL" \/ Clearing(tgt[p])
    BY <2>2 DEF FamilyInv, LifeInv, PidInv
  <2>4. CASE st[tgt[p]] = "NULL"
    <3>1. tgt[p] # InitPid
      BY <2>4 DEF FamilyInv, LifeInv, PidInv
    <3> QED BY <2>1, <2>2, <2>4, <3>1, Holder
  <2>5. CASE Clearing(tgt[p])
    <3>1. PICK r \in Pids : pc[r] = "reap_clr" /\ tgt[r] = tgt[p]
      BY <2>5 DEF Clearing
    <3>2. plock[tgt[p]] = r
      BY <3>1, HeldTgt DEF FamilyInv, TgtHeld
    <3> QED BY <2>1, <3>1, <3>2, Resting
  <2> QED BY <2>3, <2>4, <2>5
<1>5. CASE pc[p] \in {"resume", "user", "fk_ready", "dead", "wt_off"}
  BY <1>5 DEF Awaits
<1> QED
  <2>1. pc[p] \in PCs /\ pc[p] \notin PidWait
    BY DEF FamilyInv, NoPidWait, LifeInv, TypeOK
  <2> QED BY <1>1, <1>2, <1>3, <1>4, <1>5, <2>1 DEF PCs, PidWait, WaitHeld

(* No set of processes waits for each other's wait_lock and pcblocks: the  *)
(* order "wait_lock before any p->lock" is kept by fork(), exit(), with    *)
(* its reparent(), and wait().                                             *)
THEOREM NoLockCycle == ASSUME WaitOnly PROVE Spec => []LockCycleFree
<1>1. FamilyInv => LockCycleFree
  <2> SUFFICES ASSUME FamilyInv, NEW S \in (SUBSET Pids) \ {{}},
                      \A p \in S : Awaits(p) \in S
               PROVE  FALSE
    BY DEF LockCycleFree
  <2>1. PICK p \in S : p \in Pids
    OBVIOUS
  <2>2. Awaits(p) \in S /\ Awaits(Awaits(p)) \in S /\ Awaits(Awaits(Awaits(p))) \in S
    OBVIOUS
  <2> QED BY <2>1, <2>2, ChainsEnd, PidsFacts
<1> QED BY <1>1, Family, PTL

(* Only the last step of sys_wait4() clears a pcb.                         *)
LEMMA OnlyReapClears ==
  ASSUME TypeOK, NEW p \in Pids, KernelStep(p) \/ ForkAllocpid(p) \/ ExitEnter(p)
                                 \/ WaitEnter(p) \/ WaitPidEnter(p),
         ~ ReapClear(p), NEW c \in Pids, st[c] # "NULL"
  PROVE  st'[c] # "NULL"
<1> USE DEF TypeOK
<1>1. CASE Dispatch(p) \/ Descheduled(p) \/ Forkret(p)
  BY <1>1 DEF Dispatch, Descheduled, Forkret
<1>2. CASE ForkAllocpid(p) \/ ForkAllocproc(p) \/ ForkLink(p) \/ ForkReady(p)
  BY <1>2 DEF ForkAllocpid, ForkAllocproc, ForkLink, ForkReady
<1>3. CASE ExitEnter(p) \/ ReparentNext(p) \/ ReparentInit(p) \/ ReparentChild(p) \/ ExitZombie(p)
  BY <1>3 DEF ExitEnter, ReparentNext, ReparentInit, ReparentChild, ExitZombie
<1>4. CASE ExitUnblock(p) \/ ExitWakeParent(p) \/ ExitSched(p)
  BY <1>4 DEF ExitUnblock, ExitWakeParent, ExitSched
<1>5. CASE WaitEnter(p) \/ WaitScan(p) \/ WaitFound(p) \/ WaitNone(p) \/ WaitSleep(p)
        \/ WaitResume(p)
  BY <1>5 DEF WaitEnter, WaitScan, WaitFound, WaitNone, WaitSleep, WaitResume
<1>6. CASE WaitPidEnter(p) \/ WaitPidBlock(p) \/ WaitPidResume(p) \/ WaitPidRelock(p)
           \/ WaitPidFound(p) \/ Reap(p)
  BY <1>6 DEF WaitPidEnter, WaitPidBlock, WaitPidResume, WaitPidRelock, WaitPidFound, Reap
<1> QED BY <1>1, <1>2, <1>3, <1>4, <1>5, <1>6 DEF KernelStep

(* The comment on do_exit(): an exited process remains a zombie until its  *)
(* parent calls wait().  The step that clears a zombie's pcb is one of the *)
(* process its parentpid names, which owns its pcblock.                    *)
THEOREM ZombiesAreReapedByParents == ASSUME WaitOnly PROVE Spec => ReapedByParent
<1>1. FamilyInv /\ [Next]_vars =>
        [\A c \in Pids : (st[c] = "ZOMBIE" /\ st'[c] = "NULL") => plock[c] = parent[c]]_vars
  <2> SUFFICES ASSUME FamilyInv, Next, NEW c \in Pids, st[c] = "ZOMBIE", st'[c] = "NULL"
               PROVE  plock[c] = parent[c]
    OBVIOUS
  <2>1. PICK p \in Pids : KernelStep(p) \/ ForkAllocpid(p) \/ ExitEnter(p)
                          \/ WaitEnter(p) \/ WaitPidEnter(p)
    BY DEF Next
  <2>2. ReapClear(p)
    BY <2>1, OnlyReapClears DEF FamilyInv, LifeInv
  <2>3. pc[p] = "reap_clr" /\ c = tgt[p]
    BY <2>2 DEF ReapClear, At, FamilyInv, LifeInv, TypeOK
  <2>4. plock[c] = p
    BY <2>3, HeldTgt DEF FamilyInv, TgtHeld
  <2>5. parent[c] = p
    BY <2>3 DEF FamilyInv, HandInv, HandOK, InHand
  <2> QED BY <2>4, <2>5
<1> QED BY <1>1, Family, PTL DEF Spec, ReapedByParent
=============================================================================
