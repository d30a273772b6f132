---------------------------- MODULE KernelProofs ----------------------------
(***************************************************************************)
(* The safety properties of Kernel, for every number of process slots,     *)
(* every set of signals and every workload.  The steps of users and        *)
(* servers keep the invariant of KernelLemmas as those of the tasks do; it *)
(* holds after booting, and the properties of KernelProps follow from it.  *)
(***************************************************************************)
EXTENDS KernelLemmas

-----------------------------------------------------------------------------
(* The calls of the users *)

\* What does not change when the user u calls a server
CallsOnly(s, n, u) ==
  /\ n.p_priority = s.p_priority /\ n.p_pid = s.p_pid
  /\ n.p_int_blocked = s.p_int_blocked
  /\ \A w \in UserSlots \ {u} :
       /\ n.p_flags[w] = s.p_flags[w] /\ n.p_getfrom[w] = s.p_getfrom[w]
       /\ n.p_sendto[w] = s.p_sendto[w] /\ n.mess[w] = s.mess[w]
  /\ \A t \in Tasks :
       /\ n.p_flags[t] = s.p_flags[t] /\ n.p_getfrom[t] = s.p_getfrom[t]
       /\ n.mess[t] = s.mess[t]
  /\ \A w : Open(n, w) = Open(s, w)

\* While a user runs, the system waits for messages.
SystemWaits(s, P, u) ==
  /\ s.p_flags[u] = {} /\ s.rdy[SERVER_Q] = << >>
  /\ \A t \in Tasks \cup Servers : s.p_flags[t] # {}

\* It does.
LEMMA UserRuns ==
  ASSUME NEW s, KInv(s), NEW P, NEW u \in UserSlots, s.proc_ptr = u
  PROVE  SystemWaits(s, P, u) /\ ~isemptyp(s, u)
<1>1. u \in Schedulable /\ Scheduled(s) /\ s \in KernelState /\ Classed(s.p_priority)
  BY ProcFacts DEF KInv, Base
<1>2. /\ s.p_flags[u] = {} /\ ~isemptyp(s, u) /\ s.rdy[SERVER_Q] = << >>
      /\ \A t \in Tasks : t \notin Ready(s)
      /\ \A v \in Servers : v \notin Ready(s)
  BY <1>1, Running
<1>3. \A t \in Tasks \cup Servers : t \in Schedulable /\ ~isemptyp(s, t)
  <2>1. \A t \in Tasks \cup Servers : t \in Schedulable /\ t \notin UserSlots
    BY ProcFacts
  <2> QED
    BY <1>1, <2>1, Classes
<1>4. \A t \in Tasks \cup Servers : s.p_flags[t] # {}
  BY <1>2, <1>3 DEF Ready
<1> QED
  BY <1>2, <1>4 DEF SystemWaits

\* What a call of u leaves as it is
LEMMA CallStays ==
  ASSUME NEW s, NEW P, NEW L, NEW Z, NEW C, Good(s, P, L, Z, C),
         NEW u \in UserSlots, SystemWaits(s, P, u), NEW n, CallsOnly(s, n, u),
         WaitsFor(s, FS, DISK) => WaitsFor(n, FS, DISK)
  PROVE  /\ \A w, v : Answerable(s, w, v) => Answerable(n, w, v)
         /\ UsersStay(s, n) /\ PidsDiffer(n) /\ PausedOK(n, Z) /\ u \notin Z
         /\ \A v : ~Busy(n, P, v) /\ ~Busy(s, P, v)
         /\ \A v \in Servers : ~Got(s, P, v)
         /\ TasksOK(n, P) /\ ~HeadFS(s)
<1>1. /\ s.p_flags[u] = {} /\ s.rdy[SERVER_Q] = << >>
      /\ \A t \in Tasks \cup Servers : s.p_flags[t] # {}
  BY DEF SystemWaits
<1>2. CInv(s, P, L, Z, C)
  BY DEF Good
<1>3. \A w \in UserSlots \ {u} : n.p_flags[w] = s.p_flags[w] /\ n.p_getfrom[w] = s.p_getfrom[w]
  BY DEF CallsOnly
<1>4. \A v : ~Answerable(s, u, v)
  BY <1>1 DEF Answerable
<1>5. n.p_priority = s.p_priority /\ n.p_pid = s.p_pid
  BY DEF CallsOnly
<1>6. \A w, v : Answerable(s, w, v) => Answerable(n, w, v)
  BY <1>3, <1>4, <1>5 DEF Answerable, isemptyp
<1>7. UsersStay(s, n)
  BY <1>1, <1>3, <1>5, <1>6 DEF UsersStay, isemptyp
<1>8. PidsDiffer(n)
  <2>1. PidsDiffer(s)
    BY <1>2 DEF CInv, MailOK
  <2> QED
    BY <1>5, <2>1 DEF PidsDiffer, isemptyp
<1>9. PausedOK(n, Z) /\ u \notin Z
  <2>1. PausedOK(s, Z)
    BY <1>2 DEF CInv, MailOK
  <2> QED
    BY <1>4, <1>6, <2>1 DEF PausedOK
<1>10. \A v : ~Busy(n, P, v) /\ ~Busy(s, P, v)
  BY <1>1, SystemProcs DEF Busy, CallsOnly
<1>11. TasksOK(n, P)
  <2>1. TasksOK(s, P)
    BY <1>2 DEF CInv
  <2>2. \A t \in Tasks : /\ n.p_flags[t] = s.p_flags[t] /\ n.p_getfrom[t] = s.p_getfrom[t]
                         /\ n.mess[t] = s.mess[t] /\ s.p_flags[t] # {}
    BY <1>1 DEF CallsOnly
  <2>3. SYSTASK \in Tasks /\ CLOCK \in Tasks /\ DISK \in Tasks
    BY SystemProcs
  <2>4. n.p_int_blocked = s.p_int_blocked
    BY DEF CallsOnly
  <2>5. SysState(n, P)
    <3>1. IdleTask(s, P, SYSTASK) /\ ~s.p_int_blocked[SYSTASK]
      BY <2>1, <2>2, <2>3 DEF TasksOK, SysState, DoneTask, Busy
    <3>2. IdleTask(n, P, SYSTASK)
      BY <2>2, <2>3, <3>1 DEF IdleTask, WaitsFor
    <3> QED
      BY <2>2, <2>3, <2>4, <3>1, <3>2 DEF SysState
  <2>6. ClockState(n, P)
    <3>1. IdleTask(s, P, CLOCK)
      BY <2>1, <2>2, <2>3 DEF TasksOK, ClockState, DoneTask
    <3> QED
      BY <2>2, <2>3, <3>1 DEF ClockState, IdleTask, WaitsFor
  <2>7. DiskState(n, P)
    <3>1. \/ IdleTask(s, P, DISK)
          \/ P[DISK] = "reply" /\ WaitsFor(s, FS, DISK) /\ WaitsFor(s, DISK, HARDWARE)
      BY <2>1, <2>2, <2>3 DEF TasksOK, DiskState, DoneTask
    <3>2. ~s.p_int_blocked[DISK]
      BY <2>1 DEF TasksOK, DiskState
    <3>3. n.p_flags[DISK] = s.p_flags[DISK] /\ n.p_getfrom[DISK] = s.p_getfrom[DISK]
      BY <2>2, <2>3
    <3>4. \A x : WaitsFor(s, DISK, x) => WaitsFor(n, DISK, x)
      BY <3>3 DEF WaitsFor
    <3>5. CASE IdleTask(s, P, DISK)
      BY <2>4, <3>2, <3>4, <3>5 DEF DiskState, IdleTask
    <3>6. CASE P[DISK] = "reply" /\ WaitsFor(s, FS, DISK) /\ WaitsFor(s, DISK, HARDWARE)
      BY <2>4, <3>2, <3>4, <3>6 DEF DiskState
    <3> QED
      BY <3>1, <3>5, <3>6
  <2> QED
    BY <2>5, <2>6, <2>7 DEF TasksOK
<1>12. \A v \in Servers : ~Got(s, P, v)
  BY <1>1 DEF Got
<1>13. ~HeadFS(s)
  BY <1>1 DEF HeadFS
<1> HIDE DEF CallsOnly
<1> QED
  BY <1>6, <1>7, <1>8, <1>9, <1>10, <1>11, <1>12, <1>13

\* The only server that may run is the first of its queue.
LEMMA OnlyServer ==
  ASSUME NEW s, KInv(s), s.p_flags[FS] = {}, s.p_flags[MM] # {}
  PROVE  HeadFS(s)
<1>1. s \in KernelState /\ Classed(s.p_priority) /\ Lists(s.rdy, Ready(s))
  BY DEF KInv, Base, Scheduled
<1>2. FS \in Schedulable /\ MM \in Schedulable /\ FS \in Servers /\ FS \notin UserSlots
      /\ FS \notin Tasks /\ Servers = {MM, FS}
  BY ProcFacts, SystemProcs DEF Servers
<1>3. FS \in Ready(s) /\ MM \notin Ready(s) /\ Class(FS) = SERVER_Q /\ SERVER_Q \in Queues
  BY <1>1, <1>2, Classes DEF Ready, Class
<1>4. OnList(s.rdy[SERVER_Q], FS)
  BY <1>1, <1>2, <1>3 DEF Lists
<1>5. s.rdy[SERVER_Q] \in Seq(Schedulable)
  BY <1>1, <1>3 DEF KernelState
<1>6. s.rdy[SERVER_Q] # << >>
  BY <1>4 DEF OnList
<1>7. Head(s.rdy[SERVER_Q]) \in Schedulable /\ OnList(s.rdy[SERVER_Q], Head(s.rdy[SERVER_Q]))
  BY <1>5, <1>6, HeadInSeq
<1>8. Head(s.rdy[SERVER_Q]) \in Ready(s) /\ Class(Head(s.rdy[SERVER_Q])) = SERVER_Q
  BY <1>1, <1>3, <1>7 DEF Lists
<1>9. Head(s.rdy[SERVER_Q]) \in Servers
  BY <1>1, <1>7, <1>8, Classes
<1> QED
  BY <1>2, <1>3, <1>6, <1>8, <1>9 DEF HeadFS

\* The server d, which waits for anybody, gets the call m of u.
Heeded(s, n, u, d, m) ==
  /\ s.p_flags[d] = {"RECEIVING"} /\ s.p_getfrom[d] \in {ANY, u}
  /\ n.p_flags[u] = {"RECEIVING"} /\ n.p_getfrom[u] = d
  /\ n.mess[d] = From(m, u) /\ n.p_flags[d] = {}
  /\ \A v \in Servers : n.p_getfrom[v] = s.p_getfrom[v]
  /\ \A v \in Servers \ {d} : n.p_flags[v] = s.p_flags[v] /\ n.mess[v] = s.mess[v]
  /\ m \in Mess /\ (d = MM => AsksMM(m, u)) /\ (d = FS => m.type \in FSCalls)

\* It is what it expects.
LEMMA UserHeard ==
  ASSUME NEW s, NEW P, NEW L, NEW Z, NEW C, Good(s, P, L, Z, C),
         NEW u \in UserSlots, SystemWaits(s, P, u), ~isemptyp(s, u),
         NEW n, KInv(n), CallsOnly(s, n, u), NEW d \in Servers, NEW m,
         Heeded(s, n, u, d, m)
  PROVE  Good(n, P, L, Z, C)
<1> USE DEF Heeded
<1>1. CInv(s, P, L, Z, C) /\ MM \in Servers /\ FS \in Servers /\ MM # FS /\ Servers = {MM, FS}
  BY SystemProcs DEF Good, Servers
<1>2. /\ s.p_flags[u] = {}
      /\ \A t \in Tasks \cup Servers : s.p_flags[t] # {}
  BY DEF SystemWaits
<1>3. \A v \in Servers : n.p_getfrom[v] = s.p_getfrom[v]
  OBVIOUS
<1>4. ServerState(s, P, L, MM) /\ ServerState(s, P, L, FS)
  BY <1>1 DEF CInv, ServersOK
<1>5. P[d] = "work" /\ L[d] = << >> /\ s.p_getfrom[d] = ANY
  <2>1. u \notin Tasks \cup {FS} /\ ANY \notin Tasks \cup {FS}
    BY SystemProcs
  <2>2. ServerState(s, P, L, d)
    BY <1>1, <1>4
  <2>3. P[d] = "work" /\ s.p_getfrom[d] = ANY
    BY <2>1, <2>2 DEF ServerState, WaitsFor
  <2> QED
    BY <2>2, <2>3 DEF ServerState
<1>6. WaitsFor(s, FS, DISK) => WaitsFor(n, FS, DISK)
  <2>1. DISK # ANY
    BY SystemProcs
  <2> QED
    BY <1>1, <1>3, <1>5, <2>1 DEF WaitsFor
<1>7. /\ \A w, v : Answerable(s, w, v) => Answerable(n, w, v)
      /\ UsersStay(s, n) /\ PidsDiffer(n) /\ PausedOK(n, Z) /\ u \notin Z
      /\ \A v : ~Busy(n, P, v) /\ ~Busy(s, P, v)
      /\ \A v \in Servers : ~Got(s, P, v)
      /\ TasksOK(n, P) /\ ~HeadFS(s)
  BY <1>6, CallStays
<1>8. Answerable(n, u, d)
  <2>1. ~isemptyp(n, u)
    BY DEF CallsOnly, isemptyp
  <2> QED
    BY <2>1 DEF Answerable
<1>9. n.mess[d].src = u /\ n.mess[d].type = m.type
      /\ (AsksMM(m, u) => AsksMM(n.mess[d], u))
  <2>1. u \in Procs
    BY SystemProcs
  <2>2. n.mess[d].src = u /\ n.mess[d].type = m.type /\ n.mess[d].i1 = m.i1
    BY <2>1 DEF From, Mess
  <2> QED
    BY <2>2 DEF AsksMM
<1>10. u \notin Servers
  BY SystemProcs
<1>11. ServersOK(n, P, L)
  <2>1. ASSUME NEW w \in {MM, FS} PROVE ServerState(n, P, L, w)
    <3>1. CASE w = d
      BY <1>1, <1>4, <1>5, <3>1 DEF ServerState
    <3>2. CASE w # d
      BY <1>1, <1>3, <1>4, <3>2 DEF ServerState, WaitsFor
    <3> QED
      BY <3>1, <3>2
  <2> QED
    BY <2>1 DEF ServersOK
<1>12. Todo(n, P, L) = L[MM] /\ Todo(s, P, L) = L[MM]
  BY <1>7 DEF Todo
<1>13. ASSUME d = MM
       PROVE  TodoOK(n, P, Z, C, Todo(n, P, L)) /\ FSPlan(n, P, L, C) /\ MMGot(n, P, Z) /\ FSGot(n, P)
  <2>1. n.p_flags[FS] = s.p_flags[FS] /\ n.mess[FS] = s.mess[FS] /\ n.p_flags[FS] # {}
    BY <1>1, <1>2, <1>13
  <2>2. OpenOK(n, P, << >>)
    <3>1. OpenOK(s, P, << >>)
      BY <1>1, <1>5, <1>12, <1>13 DEF CInv, TodoOK
    <3>2. \A w : HasTold(s, P, w) = 0
      BY <1>1, <1>7 DEF HasTold
    <3>3. \A w : HasTold(n, P, w) = 0
      <4>1. n.mess[MM].type \in MMCalls
        BY <1>9, <1>13 DEF AsksMM
      <4>2. n.mess[MM].type # "KSIG"
        BY <4>1 DEF MMCalls
      <4> QED
        BY <4>2 DEF HasTold
    <3>4. \A w \in UserSlots : isemptyp(n, w) <=> isemptyp(s, w)
      BY <1>7 DEF UsersStay
    <3> QED
      BY <3>1, <3>2, <3>3, <3>4 DEF OpenOK, CallsOnly
  <2>3. TodoOK(n, P, Z, C, Todo(n, P, L))
    BY <1>5, <1>12, <1>13, <2>2 DEF TodoOK, MMPlan, NoXit, RepliesOnce
  <2>4. \A c : Serves(n, P, L, c) <=> Serves(s, P, L, c)
    BY <2>1 DEF Serves
  <2>5. FSPlan(s, P, L, C)
    BY <1>1 DEF CInv
  <2>6. \A c \in Procs : Serves(n, P, L, c) => Client(n, c) /\ c \notin C \cap UserSlots
    <3>1. ~WaitsFor(s, MM, FS)
      BY <1>5, <1>13, SystemProcs DEF WaitsFor
    <3> QED
      BY <1>7, <2>4, <2>5, <3>1 DEF FSPlan, Client
  <2>7. FSPlan(n, P, L, C)
    BY <1>7, <2>5, <2>6 DEF FSPlan
  <2>8. MMGot(n, P, Z)
    BY <1>7, <1>8, <1>9, <1>13 DEF MMGot
  <2>9. FSGot(n, P)
    BY <2>1 DEF FSGot, Got
  <2> QED
    BY <2>3, <2>7, <2>8, <2>9
<1>14. ASSUME d = FS
       PROVE  TodoOK(n, P, Z, C, Todo(n, P, L)) /\ FSPlan(n, P, L, C) /\ MMGot(n, P, Z) /\ FSGot(n, P)
  <2>1. n.p_flags[MM] = s.p_flags[MM] /\ n.mess[MM] = s.mess[MM] /\ n.p_flags[MM] # {}
    BY <1>1, <1>2, <1>14
  <2>2. InTransit(n, P) = InTransit(s, P)
    <3>1. n.mess[FS].src # MM
      BY <1>1, <1>9, <1>10, <1>14
    <3>2. s.p_flags[FS] # {}
      BY <1>1, <1>2
    <3> QED
      BY <2>1, <3>1, <3>2 DEF InTransit
  <2>3. Known(n, P, C) = Known(s, P, C) /\ TellsFork(n, P) = TellsFork(s, P)
    BY <2>2 DEF Known, TellsFork
  <2>4. TodoOK(s, P, Z, C, L[MM])
    BY <1>1, <1>12 DEF CInv
  <2>5. OpenOK(n, P, L[MM])
    <3>1. OpenOK(s, P, L[MM])
      BY <2>4 DEF TodoOK
    <3>2. \A w : HasTold(s, P, w) = HasTold(n, P, w)
      BY <2>1 DEF HasTold, Got
    <3>3. \A w \in UserSlots : isemptyp(n, w) <=> isemptyp(s, w)
      BY <1>7 DEF UsersStay
    <3> QED
      BY <3>1, <3>2, <3>3 DEF OpenOK, CallsOnly
  <2>6. MMPlan(n, Z, Known(n, P, C), L[MM])
    <3>1. MMPlan(s, Z, Known(s, P, C), L[MM])
      BY <2>4 DEF TodoOK
    <3> QED
      BY <1>7, <2>3, <3>1, PlanStays
  <2>7. TodoOK(n, P, Z, C, Todo(n, P, L))
    BY <1>12, <2>3, <2>4, <2>5, <2>6 DEF TodoOK
  <2>8. HeadFS(n)
    BY <1>14, <2>1, OnlyServer
  <2>9. \A c : Serves(n, P, L, c) => c = u
    BY <1>5, <1>9, <1>14 DEF Serves
  <2>10. FSPlan(n, P, L, C)
    <3>1. Client(n, u)
      BY <1>8, <1>14 DEF Client
    <3> QED
      BY <1>5, <1>7, <1>14, <2>8, <2>9, <3>1 DEF FSPlan
  <2>11. MMGot(n, P, Z)
    BY <2>1 DEF MMGot, Got
  <2>12. FSGot(n, P)
    BY <1>9, <1>14 DEF FSGot
  <2> QED
    BY <2>7, <2>10, <2>11, <2>12
<1>15. TodoOK(n, P, Z, C, Todo(n, P, L)) /\ FSPlan(n, P, L, C) /\ MMGot(n, P, Z) /\ FSGot(n, P)
  BY <1>1, <1>13, <1>14
<1>16. UserMess(n)
  <2>1. UserMess(s)
    BY <1>1 DEF CInv, MailOK
  <2>2. \A w \in UserSlots \ {u} :
          /\ n.p_flags[w] = s.p_flags[w] /\ n.p_sendto[w] = s.p_sendto[w]
          /\ n.mess[w] = s.mess[w]
    BY DEF CallsOnly
  <2>3. "SENDING" \notin n.p_flags[u]
    OBVIOUS
  <2> QED
    BY <2>1, <2>2, <2>3 DEF UserMess
<1>17. MailOK(n, P, Z)
  BY <1>7, <1>15, <1>16 DEF MailOK
<1>18. Exiting(n, P, L, Z)
  BY <1>7 DEF Exiting
<1>19. CtlTyped(P, L, Z)
  BY <1>1 DEF CInv
<1> QED
  BY <1>7, <1>11, <1>15, <1>17, <1>18, <1>19 DEF CInv, Good

\* The call m of u waits until the server d receives.
LEMMA UserQueued ==
  ASSUME NEW s, NEW P, NEW L, NEW Z, NEW C, Good(s, P, L, Z, C),
         NEW u \in UserSlots, SystemWaits(s, P, u),
         NEW n, KInv(n), CallsOnly(s, n, u), NEW d \in Servers, NEW m,
         n.p_flags[u] = {"SENDING", "RECEIVING"}, n.p_sendto[u] = d, n.mess[u] = m,
         \A v \in Servers : /\ n.p_flags[v] = s.p_flags[v] /\ n.mess[v] = s.mess[v]
                            /\ n.p_getfrom[v] = s.p_getfrom[v],
         d = MM => AsksMM(m, u), d = FS => m.type \in FSCalls
  PROVE  Good(n, P, L, Z, C)
<1>1. CInv(s, P, L, Z, C) /\ MM \in Servers /\ FS \in Servers /\ MM # FS
  BY SystemProcs DEF Good
<1>2. /\ s.p_flags[u] = {}
      /\ \A t \in Tasks \cup Servers : s.p_flags[t] # {}
  BY DEF SystemWaits
<1>3. \A v \in Servers : /\ n.p_flags[v] = s.p_flags[v] /\ n.mess[v] = s.mess[v]
                         /\ n.p_getfrom[v] = s.p_getfrom[v] /\ n.p_flags[v] # {}
  BY <1>2
<1>4. \A x : \A v \in Servers : WaitsFor(n, v, x) <=> WaitsFor(s, v, x)
  BY <1>3 DEF WaitsFor
<1>5. /\ \A w, v : Answerable(s, w, v) => Answerable(n, w, v)
      /\ UsersStay(s, n) /\ PidsDiffer(n) /\ PausedOK(n, Z)
      /\ \A v : ~Busy(n, P, v) /\ ~Busy(s, P, v)
      /\ \A v \in Servers : ~Got(s, P, v)
      /\ TasksOK(n, P) /\ ~HeadFS(s)
  BY <1>1, <1>4, CallStays
<1>6. ServersOK(n, P, L)
  <2>1. ServerState(s, P, L, MM) /\ ServerState(s, P, L, FS)
    BY <1>1 DEF CInv, ServersOK
  <2>2. ServerState(n, P, L, MM)
    BY <1>1, <1>3, <2>1 DEF ServerState, WaitsFor
  <2>3. ServerState(n, P, L, FS)
    BY <1>1, <1>3, <2>1 DEF ServerState, WaitsFor
  <2> QED
    BY <2>2, <2>3 DEF ServersOK
<1>7. Todo(n, P, L) = L[MM] /\ Todo(s, P, L) = L[MM]
  BY <1>5 DEF Todo
<1>8. InTransit(n, P) = InTransit(s, P)
  BY <1>1, <1>3 DEF InTransit
<1>9. Known(n, P, C) = Known(s, P, C) /\ TellsFork(n, P) = TellsFork(s, P)
  BY <1>8 DEF Known, TellsFork
<1>10. TodoOK(n, P, Z, C, Todo(n, P, L))
  <2>1. TodoOK(s, P, Z, C, L[MM])
    BY <1>1, <1>7 DEF CInv
  <2>2. OpenOK(n, P, L[MM])
    <3>1. OpenOK(s, P, L[MM])
      BY <2>1 DEF TodoOK
    <3>2. \A w : HasTold(s, P, w) = HasTold(n, P, w)
      BY <1>1, <1>3 DEF HasTold, Got
    <3>3. \A w \in UserSlots : isemptyp(n, w) <=> isemptyp(s, w)
      BY <1>5 DEF UsersStay
    <3> QED
      BY <3>1, <3>2, <3>3 DEF OpenOK, CallsOnly
  <2>3. MMPlan(n, Z, Known(n, P, C), L[MM])
    <3>1. MMPlan(s, Z, Known(s, P, C), L[MM])
      BY <2>1 DEF TodoOK
    <3> QED
      BY <1>5, <1>9, <3>1, PlanStays
  <2> QED
    BY <1>7, <1>9, <2>1, <2>2, <2>3 DEF TodoOK
<1>11. FSPlan(n, P, L, C)
  <2>1. \A c : Serves(n, P, L, c) <=> Serves(s, P, L, c)
    BY <1>1, <1>3 DEF Serves
  <2>2. FSPlan(s, P, L, C)
    BY <1>1 DEF CInv
  <2>3. \A c \in Procs : Serves(n, P, L, c) => Client(n, c) /\ c \notin C \cap UserSlots
    BY <1>1, <1>4, <1>5, <2>1, <2>2 DEF FSPlan, Client
  <2> QED
    BY <1>5, <2>2, <2>3 DEF FSPlan
<1>12. UserMess(n)
  <2>1. UserMess(s)
    BY <1>1 DEF CInv, MailOK
  <2>2. \A w \in UserSlots \ {u} :
          /\ n.p_flags[w] = s.p_flags[w] /\ n.p_sendto[w] = s.p_sendto[w]
          /\ n.mess[w] = s.mess[w]
    BY DEF CallsOnly
  <2>3. n.p_sendto[u] = MM => AsksMM(n.mess[u], u)
    OBVIOUS
  <2>4. n.p_sendto[u] = FS => n.mess[u].type \in FSCalls
    OBVIOUS
  <2> QED
    BY <2>1, <2>2, <2>3, <2>4 DEF UserMess
<1>13. MailOK(n, P, Z)
  <2>1. MMGot(n, P, Z) /\ FSGot(n, P)
    BY <1>1, <1>3 DEF MMGot, FSGot, Got
  <2> QED
    BY <1>5, <1>12, <2>1 DEF MailOK
<1>14. Exiting(n, P, L, Z)
  BY <1>5 DEF Exiting
<1>15. CtlTyped(P, L, Z)
  BY <1>1 DEF CInv
<1> QED
  BY <1>5, <1>6, <1>10, <1>11, <1>13, <1>14, <1>15 DEF CInv, Good

\* The calls of a user are ones that MM and FS expect.
LEMMA UserMessageOK ==
  ASSUME NEW w \in Workloads, load = w, NEW c \in w.calls, NEW m \in UserMessages(c)
  PROVE  /\ c \in MMCalls \cup FSCalls /\ m \in Mess /\ m.type = c
         /\ c \in {"KILL", "RESUME"} => m.i1 \in UserSlots \ {INIT}
<1>1. /\ w.calls \subseteq {"FORK", "EXIT", "EXEC", "PAUSE", "ALARM", "READ",
                             "WRITE", "KILL", "RESUME", "GETPRI", "SETPRI"}
      /\ w.pids \subseteq Nat \ {0, 1} /\ w.priorities \subseteq Int
  BY KernelAssumption
<1>2. c \in MMCalls \cup FSCalls
  BY <1>1 DEF MMCalls, FSCalls
<1>3. LiveUsers \subseteq UserSlots /\ UserSlots \subseteq Int
  <2>1. UserSlots \subseteq Int
    BY ProcAssumption DEF UserSlots, LOW_USER
  <2> QED
    BY <2>1 DEF LiveUsers
<1>4. \E x, y \in Int : m = Message(c, x, y, 0) /\ (c \in {"KILL", "RESUME"} => x \in UserSlots \ {INIT})
  <2>1. CASE c = "GETPRI"
    <3>1. PICK x \in w.pids \cup {1} : m = Message(c, x, 0, 0)
      BY <2>1 DEF UserMessages
    <3>2. x \in Int /\ 0 \in Int
      BY <1>1
    <3> QED
      BY <2>1, <3>1, <3>2
  <2>2. CASE c = "SETPRI"
    <3>1. PICK x \in w.pids \cup {1}, y \in w.priorities : m = Message(c, x, y, 0)
      BY <2>2 DEF UserMessages
    <3>2. x \in Int /\ y \in Int
      BY <1>1
    <3> QED
      BY <2>2, <3>1, <3>2
  <2>3. CASE c \in {"KILL", "RESUME"}
    <3>1. c # "GETPRI" /\ c # "SETPRI"
      BY <2>3
    <3>2. PICK x \in LiveUsers \ {INIT} : m = Message(c, x, 0, 0)
      BY <2>3, <3>1 DEF UserMessages
    <3>3. x \in Int /\ 0 \in Int /\ x \in UserSlots \ {INIT}
      BY <1>3
    <3> QED
      BY <3>2, <3>3
  <2>4. CASE c = "EXEC"
    <3>1. PICK y \in {0, 1} : m = Message(c, 0, y, 0)
      BY <2>4 DEF UserMessages
    <3>2. y \in Int /\ 0 \in Int
      OBVIOUS
    <3> QED
      BY <2>4, <3>1, <3>2
  <2>5. CASE c \notin {"GETPRI", "SETPRI", "KILL", "RESUME", "EXEC"}
    <3>1. c # "GETPRI" /\ c # "SETPRI" /\ ~(c \in {"KILL", "RESUME"}) /\ c # "EXEC"
      BY <2>5
    <3>2. m = Message(c, 0, 0, 0)
      BY <3>1 DEF UserMessages
    <3> QED
      BY <3>1, <3>2
  <2> QED
    BY <2>1, <2>2, <2>3, <2>4, <2>5
<1>5. PICK x, y \in Int : m = Message(c, x, y, 0) /\ (c \in {"KILL", "RESUME"} => x \in UserSlots \ {INIT})
  BY <1>4
<1>6. c \in MessTypes /\ 0 \in Int
  BY <1>2 DEF MessTypes
<1>7. m \in Mess
  BY <1>5, <1>6, MessageTyped
<1>8. m.type = c /\ m.i1 = x
  BY <1>5 DEF Message, NoMess
<1> QED
  BY <1>2, <1>5, <1>7, <1>8

\* A user calls MM or FS.
LEMMA UserCalls ==
  ASSUME Now, load \in Workloads, NEW u \in UserSlots, UserCall(u)
  PROVE  Now'
<1>1. PICK c \in load.calls : \E m \in UserMessages(c) :
        /\ c = "EXIT" => u # INIT
        /\ k' = send_rec([k EXCEPT !.mess[u] = m], u,
                         IF c \in {"READ", "WRITE"} THEN FS ELSE MM).k
  BY DEF UserCall
<1>2. PICK m \in UserMessages(c) :
        /\ c = "EXIT" => u # INIT
        /\ k' = send_rec([k EXCEPT !.mess[u] = m], u,
                         IF c \in {"READ", "WRITE"} THEN FS ELSE MM).k
  BY <1>1
<1>3. /\ c \in MMCalls \cup FSCalls /\ m \in Mess /\ m.type = c
      /\ c \in {"KILL", "RESUME"} => m.i1 \in UserSlots \ {INIT}
  BY UserMessageOK
<1>4. PICK d : d = IF c \in {"READ", "WRITE"} THEN FS ELSE MM
  OBVIOUS
<1>5. PICK s : s = [k EXCEPT !.mess[u] = m]
  OBVIOUS
<1>6. k' = send_rec(s, u, d).k
  BY <1>2, <1>4, <1>5
<1>7. d \in Servers /\ (d = MM => AsksMM(m, u)) /\ (d = FS => m.type \in FSCalls)
  <2>1. MM \in Servers /\ FS \in Servers /\ MM # FS
    BY SystemProcs
  <2>2. CASE c \in {"READ", "WRITE"}
    BY <1>3, <1>4, <2>1, <2>2 DEF FSCalls
  <2>3. CASE c \notin {"READ", "WRITE"}
    <3>1. d = MM /\ c \in MMCalls
      BY <1>3, <1>4, <2>3 DEF FSCalls
    <3> QED
      BY <1>2, <1>3, <2>1, <3>1 DEF AsksMM
  <2> QED
    BY <2>2, <2>3
<1>8. KInv(k) /\ k \in KernelState /\ Good(k, pc, plan, paused, closed) /\ k.proc_ptr = u
  BY DEF Now, Good, KInv, Base, UserCall
<1>9. /\ SystemWaits(k, pc, u) /\ ~isemptyp(k, u)
  BY <1>8, UserRuns
<1>10. /\ s \in KernelState /\ SameSignals(k, s)
       /\ s.p_getfrom = k.p_getfrom /\ s.p_int_blocked = k.p_int_blocked
       /\ s.p_pid = k.p_pid /\ s.proc_ptr = k.proc_ptr
       /\ s.p_flags = k.p_flags
       /\ s.mess = [k.mess EXCEPT ![u] = m]
       /\ Base(s) /\ MMHears(s) /\ Scheduled(s)
  <2>1. u \in Procs /\ m \in Mess /\ k \in KernelState
    BY <1>3, <1>8, SystemProcs
  <2>2. Base(k) /\ MMHears(k) /\ Scheduled(k)
    BY <1>8 DEF KInv
  <2> HIDE <1>2, <1>3, <1>4, <1>6, <1>7
  <2> QED
    BY <1>5, <2>1, <2>2, OwnMessage
<1> HIDE <1>2, <1>4, <1>5
<1>11. KInv(s) /\ s.proc_ptr = u
  BY <1>8, <1>10 DEF KInv
<1>12. /\ s.mess[u] = m /\ u \notin Servers /\ d # u
       /\ u \in Procs /\ d \in Procs
       /\ \A x \in Procs \ {u} : s.mess[x] = k.mess[x]
  BY <1>7, <1>8, <1>10, SystemProcs DEF KernelState
<1>13. u \notin Tasks /\ Tasks \subseteq Procs \ {u, d} /\ UserSlots \subseteq Procs \ {d}
       /\ Servers \subseteq Procs \ {u}
  BY <1>7, <1>12, SystemProcs
<1>14. ASSUME WaitsForMessageOf(s, d, u) PROVE Good(k', pc, plan, paused, closed)
  <2>1. s.p_flags[d] = {"RECEIVING"} /\ s.p_getfrom[d] \in {ANY, u}
    <3>1. s.p_flags[d] \cap {"RECEIVING", "SENDING"} = {"RECEIVING"} /\ s.p_getfrom[d] \in {ANY, u}
      BY <1>14 DEF WaitsForMessageOf
    <3>2. s.p_flags[d] \in {{}, {"RECEIVING"}, {"SENDING", "RECEIVING"}}
      BY <1>7, <1>10 DEF Base, SystemFlags, Servers
    <3> QED
      BY <3>1, <3>2
  <2>2. ExchangedIs(s, m, u, d, k') /\ KInv(k')
    <3>1. "RECEIVING" \in s.p_flags[d] /\ "SENDING" \notin s.p_flags[d]
      BY <2>1
    <3>2. u \in Servers \cup UserSlots /\ d \in Tasks \cup Servers
      BY <1>7
    <3>3. ExchangedIs(s, s.mess[u], u, d, send_rec(s, u, d).k) /\ KInv(send_rec(s, u, d).k)
      BY <1>7, <1>11, <2>1, <3>1, <3>2, CallDelivers
    <3> QED
      BY <1>6, <1>12, <3>3
  <2>3. /\ k'.p_getfrom = [s.p_getfrom EXCEPT ![u] = d]
        /\ k'.p_int_blocked = s.p_int_blocked /\ k'.p_pid = s.p_pid
        /\ k'.mess = [s.mess EXCEPT ![d] = From(m, u)]
        /\ k'.p_flags = [s.p_flags EXCEPT ![d] = s.p_flags[d] \ {"RECEIVING"},
                                          ![u] = {"RECEIVING"}]
        /\ SameSignals(s, k')
    BY <2>2 DEF ExchangedIs, From
  <2>4. /\ k'.p_flags[u] = {"RECEIVING"} /\ k'.p_flags[d] = {}
        /\ \A x \in Procs \ {u, d} : k'.p_flags[x] = k.p_flags[x]
    <3>1. s.p_flags \in [Procs -> SUBSET Flags]
      BY <1>10 DEF KernelState
    <3> QED
      BY <1>10, <1>12, <2>1, <2>3, <3>1
  <2>5. /\ k'.mess[d] = From(m, u)
        /\ \A x \in Procs \ {u, d} : k'.mess[x] = k.mess[x]
    <3>1. s.mess \in [Procs -> Mess]
      BY <1>10 DEF KernelState
    <3> QED
      BY <1>12, <2>3, <3>1
  <2>6. /\ k'.p_getfrom[u] = d /\ k'.p_getfrom = [k.p_getfrom EXCEPT ![u] = d]
        /\ \A x \in Procs \ {u} : k'.p_getfrom[x] = k.p_getfrom[x]
    <3>1. k.p_getfrom \in [Procs -> Procs \cup {ANY}]
      BY <1>8 DEF KernelState
    <3> QED
      BY <1>10, <1>12, <2>3, <3>1
  <2>7. CallsOnly(k, k', u)
    <3>1. \A w : Open(k', w) = Open(k, w)
      BY <1>10, <2>3 DEF Open, SameSignals
    <3>2. k'.p_priority = k.p_priority /\ k'.p_sendto = k.p_sendto
      BY <1>10, <2>3 DEF SameSignals
    <3>3. k'.p_int_blocked = k.p_int_blocked /\ k'.p_pid = k.p_pid
      BY <1>10, <2>3
    <3>4. ASSUME NEW w \in UserSlots \ {u}
          PROVE  k'.p_flags[w] = k.p_flags[w] /\ k'.p_getfrom[w] = k.p_getfrom[w]
                 /\ k'.mess[w] = k.mess[w]
      BY <1>13, <2>4, <2>5, <2>6
    <3>5. ASSUME NEW t \in Tasks
          PROVE  k'.p_flags[t] = k.p_flags[t] /\ k'.p_getfrom[t] = k.p_getfrom[t]
                 /\ k'.mess[t] = k.mess[t]
      BY <1>13, <2>4, <2>5, <2>6
    <3> QED
      BY <3>1, <3>2, <3>3, <3>4, <3>5 DEF CallsOnly
  <2>8. k.p_flags[d] = {"RECEIVING"} /\ k.p_getfrom[d] \in {ANY, u}
    BY <1>10, <2>1
  <2>9. \A v \in Servers \ {d} : k'.p_flags[v] = k.p_flags[v] /\ k'.mess[v] = k.mess[v]
    BY <1>13, <2>4, <2>5
  <2> HIDE <1>3, <1>6, <1>14, <2>2, <2>3
  <2>10. /\ KInv(k') /\ m \in Mess
         /\ k'.p_flags[u] = {"RECEIVING"} /\ k'.p_flags[d] = {}
         /\ k'.mess[d] = From(m, u)
         /\ k'.p_getfrom[u] = d /\ k'.p_getfrom = [k.p_getfrom EXCEPT ![u] = d]
    BY <1>3, <2>2, <2>4, <2>5, <2>6
  <2> HIDE <1>8, <1>10, <1>12, <1>13, <2>4, <2>5, <2>6
  <2>11. Heeded(k, k', u, d, m)
    BY <1>7, <1>13, <2>6, <2>8, <2>9, <2>10 DEF Heeded
  <2> QED
    BY <1>7, <1>8, <1>9, <2>7, <2>10, <2>11, UserHeard
<1>15. ASSUME ~WaitsForMessageOf(s, d, u) PROVE Good(k', pc, plan, paused, closed)
  <2>1. QueuedIs(s, u, d, k') /\ KInv(k')
    <3>1. u \in UserSlots \cup {MM} /\ (u = MM => d = FS)
      BY <1>12, SystemProcs
    <3> QED
      BY <1>6, <1>7, <1>11, <1>15, <3>1, CallQueues
  <2>2. /\ k'.p_priority = k.p_priority /\ k'.p_pid = k.p_pid
        /\ k'.p_int_blocked = k.p_int_blocked /\ k'.mess = s.mess
        /\ k'.p_pending = k.p_pending /\ k'.p_pendcount = k.p_pendcount
        /\ k'.p_flags = [k.p_flags EXCEPT ![u] = {"SENDING", "RECEIVING"}]
        /\ k'.p_getfrom = [k.p_getfrom EXCEPT ![u] = d]
        /\ k'.p_sendto = [k.p_sendto EXCEPT ![u] = d]
    BY <1>10, <2>1 DEF QueuedIs, SameSignals
  <2>3. /\ k'.p_flags[u] = {"SENDING", "RECEIVING"} /\ k'.p_sendto[u] = d /\ k'.mess[u] = m
        /\ \A x \in Procs \ {u} : /\ k'.p_flags[x] = k.p_flags[x] /\ k'.mess[x] = k.mess[x]
                                  /\ k'.p_getfrom[x] = k.p_getfrom[x]
                                  /\ k'.p_sendto[x] = k.p_sendto[x]
    <3>1. /\ k.p_flags \in [Procs -> SUBSET Flags] /\ k.p_sendto \in [Procs -> Procs]
          /\ k.p_getfrom \in [Procs -> Procs \cup {ANY}]
      BY <1>8 DEF KernelState
    <3>2. k'.p_flags[u] = {"SENDING", "RECEIVING"} /\ k'.p_sendto[u] = d
      BY <1>12, <2>2, <3>1
    <3>3. k'.mess[u] = m /\ \A x \in Procs \ {u} : k'.mess[x] = k.mess[x]
      BY <1>12, <2>2
    <3>4. \A x \in Procs \ {u} : /\ k'.p_flags[x] = k.p_flags[x]
                                 /\ k'.p_getfrom[x] = k.p_getfrom[x]
                                 /\ k'.p_sendto[x] = k.p_sendto[x]
      BY <1>12, <2>2, <3>1
    <3> QED
      BY <3>2, <3>3, <3>4
  <2>4. CallsOnly(k, k', u)
    <3>1. \A w : Open(k', w) = Open(k, w)
      BY <2>2 DEF Open
    <3>2. UserSlots \ {u} \subseteq Procs \ {u} /\ Tasks \subseteq Procs \ {u}
      BY <1>13
    <3>3. /\ k'.p_priority = k.p_priority /\ k'.p_pid = k.p_pid
          /\ k'.p_int_blocked = k.p_int_blocked
      BY <2>2
    <3> HIDE <2>2
    <3> QED
      BY <2>3, <3>1, <3>2, <3>3 DEF CallsOnly
  <2>5. \A v \in Servers : /\ k'.p_flags[v] = k.p_flags[v] /\ k'.mess[v] = k.mess[v]
                           /\ k'.p_getfrom[v] = k.p_getfrom[v]
    BY <1>13, <2>3
  <2> HIDE <1>3, <1>6, <1>15, <2>2
  <2> QED
    BY <1>3, <1>7, <1>8, <1>9, <2>1, <2>3, <2>4, <2>5, UserQueued
<1>16. Good(k', pc, plan, paused, closed)
  BY <1>14, <1>15
<1> QED
  BY <1>16 DEF Now, UserCall, serverVars

-----------------------------------------------------------------------------
(* The servers receive *)

\* The tasks wait, and nothing happens to them.
TasksWait(s, P, n, P2) ==
  /\ \A t \in Tasks :
       /\ s.p_flags[t] # {} /\ n.p_flags[t] = s.p_flags[t]
       /\ n.p_getfrom[t] = s.p_getfrom[t] /\ P2[t] = P[t]
  /\ n.p_int_blocked = s.p_int_blocked

\* Then they go on waiting.
LEMMA TasksStay ==
  ASSUME NEW s, NEW P, TasksOK(s, P), NEW n, NEW P2, TasksWait(s, P, n, P2),
         WaitsFor(s, FS, DISK) => WaitsFor(n, FS, DISK)
  PROVE  TasksOK(n, P2) /\ \A v : ~Busy(n, P2, v) /\ ~Busy(s, P, v)
<1>1. \A t \in Tasks : /\ n.p_flags[t] = s.p_flags[t] /\ n.p_getfrom[t] = s.p_getfrom[t]
                       /\ s.p_flags[t] # {} /\ P2[t] = P[t]
  BY DEF TasksWait
<1>2. SYSTASK \in Tasks /\ CLOCK \in Tasks /\ DISK \in Tasks
  BY SystemProcs
<1>3. n.p_int_blocked = s.p_int_blocked
  BY DEF TasksWait
<1>5. SysState(n, P2)
  <2>1. IdleTask(s, P, SYSTASK) /\ ~s.p_int_blocked[SYSTASK]
    BY <1>1, <1>2 DEF TasksOK, SysState, DoneTask, Busy
  <2>2. IdleTask(n, P2, SYSTASK)
    BY <1>1, <1>2, <2>1 DEF IdleTask, WaitsFor
  <2> QED
    BY <1>1, <1>2, <1>3, <2>1, <2>2 DEF SysState
<1>6. ClockState(n, P2)
  <2>1. IdleTask(s, P, CLOCK)
    BY <1>1, <1>2 DEF TasksOK, ClockState, DoneTask
  <2> QED
    BY <1>1, <1>2, <2>1 DEF ClockState, IdleTask, WaitsFor
<1>7. DiskState(n, P2)
  <2>1. \/ IdleTask(s, P, DISK)
        \/ P[DISK] = "reply" /\ WaitsFor(s, FS, DISK) /\ WaitsFor(s, DISK, HARDWARE)
    BY <1>1, <1>2 DEF TasksOK, DiskState, DoneTask
  <2>2. ~s.p_int_blocked[DISK]
    BY DEF TasksOK, DiskState
  <2>3. /\ n.p_flags[DISK] = s.p_flags[DISK] /\ n.p_getfrom[DISK] = s.p_getfrom[DISK]
        /\ P2[DISK] = P[DISK]
    BY <1>1, <1>2
  <2>4. \A x : WaitsFor(s, DISK, x) => WaitsFor(n, DISK, x)
    BY <2>3 DEF WaitsFor
  <2>5. CASE IdleTask(s, P, DISK)
    BY <1>3, <2>2, <2>3, <2>4, <2>5 DEF DiskState, IdleTask
  <2>6. CASE P[DISK] = "reply" /\ WaitsFor(s, FS, DISK) /\ WaitsFor(s, DISK, HARDWARE)
    BY <1>3, <2>2, <2>3, <2>4, <2>6 DEF DiskState
  <2> QED
    BY <2>1, <2>5, <2>6
<1>8. \A v : ~Busy(n, P2, v) /\ ~Busy(s, P, v)
  BY <1>1, <1>2 DEF Busy
<1> QED
  BY <1>5, <1>6, <1>7, <1>8 DEF TasksOK

\* While the server v runs
LEMMA ServerRuns ==
  ASSUME Now, NEW v \in Servers, k.proc_ptr = v
  PROVE  /\ \A t \in Tasks : k.p_flags[t] # {}
         /\ k.p_flags[v] = {} /\ Todo(k, pc, plan) = plan[MM]
         /\ (v = MM => ~HeadFS(k)) /\ (v = FS => HeadFS(k))
         /\ TodoOK(k, pc, paused, closed, plan[MM]) /\ \A w : ~Busy(k, pc, w)
<1>1. KInv(k) /\ CInv(k, pc, plan, paused, closed)
  BY DEF Now, Good
<1>2. v \in Schedulable /\ Scheduled(k) /\ k \in KernelState /\ Classed(k.p_priority)
      /\ v \notin UserSlots /\ v \notin Tasks
  BY <1>1, ProcFacts DEF KInv, Base
<1>3. /\ k.p_flags[v] = {} /\ Head(k.rdy[Class(v)]) = v
      /\ \A t \in Tasks : t \notin Ready(k)
  BY <1>2, Running
<1>4. \A t \in Tasks : t \in Schedulable /\ ~isemptyp(k, t)
  <2>1. \A t \in Tasks : t \in Schedulable /\ t \notin UserSlots
    BY ProcFacts
  <2> QED
    BY <1>2, <2>1, Classes
<1>5. \A t \in Tasks : k.p_flags[t] # {}
  BY <1>3, <1>4 DEF Ready
<1>6. Class(v) = SERVER_Q /\ k.rdy[Class(v)] # << >>
  BY <1>2, Running DEF Class
<1>7. MM # FS /\ SYSTASK \in Tasks
  BY SystemProcs
<1>8. (v = MM => ~HeadFS(k)) /\ (v = FS => HeadFS(k))
  BY <1>3, <1>6, <1>7 DEF HeadFS
<1>9. Todo(k, pc, plan) = plan[MM] /\ TodoOK(k, pc, paused, closed, plan[MM])
      /\ \A w : ~Busy(k, pc, w)
  BY <1>1, <1>5, <1>7, SysIdle
<1> QED
  BY <1>3, <1>5, <1>8, <1>9

\* Nothing happens to the users but that a server takes a call.
CallsTaken(s, n) ==
  /\ n.p_priority = s.p_priority /\ n.p_pid = s.p_pid
  /\ \A u \in UserSlots :
       /\ n.p_getfrom[u] = s.p_getfrom[u] /\ n.mess[u] = s.mess[u]
       /\ n.p_sendto[u] = s.p_sendto[u]
       /\ "RECEIVING" \in n.p_flags[u] <=> "RECEIVING" \in s.p_flags[u]
       /\ "SENDING" \in n.p_flags[u] => "SENDING" \in s.p_flags[u]
       /\ "P_STOP" \in s.p_flags[u] => "P_STOP" \in n.p_flags[u]

\* Then all who waited for an answer still do.
LEMMA TakenStays ==
  ASSUME NEW s, NEW n, CallsTaken(s, n)
  PROVE  /\ \A u, v : Answerable(s, u, v) => Answerable(n, u, v)
         /\ UsersStay(s, n)
         /\ UserMess(s) => UserMess(n)
         /\ PidsDiffer(s) => PidsDiffer(n)
         /\ \A Z : PausedOK(s, Z) => PausedOK(n, Z)
         /\ \A u \in UserSlots : isemptyp(n, u) <=> isemptyp(s, u)
<1>1. \A u, v : Answerable(s, u, v) => Answerable(n, u, v)
  BY DEF Answerable, CallsTaken, isemptyp
<1>2. UsersStay(s, n)
  BY <1>1 DEF UsersStay, CallsTaken, isemptyp
<1>3. UserMess(s) => UserMess(n)
  BY DEF UserMess, CallsTaken
<1>4. PidsDiffer(s) => PidsDiffer(n)
  BY DEF PidsDiffer, CallsTaken, isemptyp
<1>5. \A Z : PausedOK(s, Z) => PausedOK(n, Z)
  BY <1>1 DEF PausedOK
<1>6. \A u \in UserSlots : isemptyp(n, u) <=> isemptyp(s, u)
  BY DEF CallsTaken, isemptyp
<1> QED
  BY <1>1, <1>2, <1>3, <1>4, <1>5, <1>6

\* What a server v that receives has before, and the tasks after
Receives(s, P, L, Z, C, v) ==
  /\ CInv(s, P, L, Z, C) /\ P[v] = "recv" /\ s.p_flags[v] = {} /\ L[v] = << >>
  /\ \A w : ~Busy(s, P, w)
  /\ (v = MM => ~HeadFS(s)) /\ (v = FS => HeadFS(s))

\* MM has got a message or waits for one.
MMHas(s, P, n, P2, Z) ==
  /\ TasksWait(s, P, n, P2) /\ CallsTaken(s, n)
  /\ P2[MM] = "work" /\ P2[FS] = P[FS]
  /\ n.p_flags[FS] = s.p_flags[FS] /\ n.p_getfrom[FS] = s.p_getfrom[FS]
  /\ n.mess[FS] = s.mess[FS]
  /\ n.p_flags[MM] = {} \/ WaitsFor(n, MM, ANY)
  /\ MMGot(n, P2, Z)
  /\ \A u \in UserSlots : Open(n, u) = Open(s, u) + HasTold(n, P2, u)

\* It is what it expects.
LEMMA MMReceives ==
  ASSUME NEW s, NEW P, NEW L, NEW Z, NEW C, Receives(s, P, L, Z, C, MM),
         NEW n, KInv(n), NEW P2 \in PcType, MMHas(s, P, n, P2, Z)
  PROVE  Good(n, P2, L, Z, C)
<1> USE DEF MMHas
<1>1. CInv(s, P, L, Z, C) /\ MM \in Servers /\ FS \in Servers /\ MM # FS
  BY SystemProcs DEF Receives
<1>2. P[MM] = "recv" /\ s.p_flags[MM] = {} /\ L[MM] = << >> /\ ~HeadFS(s)
      /\ \A w : ~Busy(s, P, w)
  BY DEF Receives
<1>3. /\ \A u, v : Answerable(s, u, v) => Answerable(n, u, v)
      /\ UserMess(n) /\ PidsDiffer(n) /\ PausedOK(n, Z)
      /\ \A u \in UserSlots : isemptyp(n, u) <=> isemptyp(s, u)
  <2>1. UserMess(s) /\ PidsDiffer(s) /\ PausedOK(s, Z)
    BY <1>1 DEF CInv, MailOK
  <2> QED
    BY <2>1, TakenStays
<1>4. TasksOK(n, P2) /\ \A v : ~Busy(n, P2, v)
  <2>1. TasksOK(s, P)
    BY <1>1 DEF CInv
  <2>2. WaitsFor(s, FS, DISK) => WaitsFor(n, FS, DISK)
    BY DEF WaitsFor
  <2> QED
    BY <2>1, <2>2, TasksStay
<1>5. ServersOK(n, P2, L)
  <2>1. ServerState(s, P, L, MM) /\ ServerState(s, P, L, FS)
    BY <1>1 DEF CInv, ServersOK
  <2>2. ServerState(n, P2, L, MM)
    BY <1>2 DEF ServerState, WaitsFor
  <2>3. ServerState(n, P2, L, FS)
    BY <2>1 DEF ServerState, WaitsFor
  <2> QED
    BY <2>2, <2>3 DEF ServersOK
<1>6. Todo(n, P2, L) = << >> /\ Todo(s, P, L) = << >>
  BY <1>2, <1>4 DEF Todo
<1>7. TodoOK(n, P2, Z, C, Todo(n, P2, L))
  <2>1. OpenOK(s, P, << >>)
    BY <1>1, <1>6 DEF CInv, TodoOK
  <2>2. \A u : Cardinality(Ends(<< >>, u)) = 0
    <3>1. \A u : Ends(<< >>, u) = {}
      BY DEF Ends
    <3> QED
      BY <3>1, FS_EmptySet
  <2>3. \A u : HasTold(s, P, u) = 0
    BY <1>2 DEF HasTold, Got
  <2>4. OpenOK(n, P2, << >>)
    BY <1>3, <2>1, <2>2, <2>3 DEF OpenOK
  <2> QED
    BY <1>6, <2>4 DEF TodoOK, MMPlan, NoXit, RepliesOnce
<1>8. FSPlan(n, P2, L, C)
  <2>1. \A c : Serves(n, P2, L, c) <=> Serves(s, P, L, c)
    BY DEF Serves
  <2>2. FSPlan(s, P, L, C)
    BY <1>1 DEF CInv
  <2>3. \A c \in Procs : Serves(n, P2, L, c) => Client(n, c) /\ c \notin C \cap UserSlots
    <3>1. ~WaitsFor(s, MM, FS)
      BY <1>2 DEF WaitsFor
    <3> QED
      BY <1>2, <1>3, <2>1, <2>2, <3>1 DEF FSPlan, Client
  <2> QED
    BY <1>4, <2>2, <2>3 DEF FSPlan
<1>9. MailOK(n, P2, Z)
  <2>1. FSGot(s, P)
    BY <1>1 DEF CInv, MailOK
  <2>2. FSGot(n, P2)
    BY <2>1 DEF FSGot, Got
  <2> QED
    BY <1>3, <2>2 DEF MailOK
<1>10. Exiting(n, P2, L, Z)
  BY <1>4 DEF Exiting
<1>11. CtlTyped(P2, L, Z)
  BY <1>1 DEF CInv, CtlTyped, PcType
<1> QED
  BY <1>4, <1>5, <1>7, <1>8, <1>9, <1>10, <1>11 DEF CInv, Good

\* FS has got a message, or waits for one.
FSHas(s, P, n, P2) ==
  /\ TasksWait(s, P, n, P2) /\ CallsTaken(s, n)
  /\ P2[FS] = "work" /\ P2[MM] = P[MM] /\ n.p_getfrom[MM] = s.p_getfrom[MM]
  /\ n.mess[MM] = s.mess[MM]
  /\ "RECEIVING" \in s.p_flags[MM] <=> "RECEIVING" \in n.p_flags[MM]
  /\ s.p_flags[MM] = {} <=> n.p_flags[MM] = {}
  /\ s.p_flags[MM] = {"RECEIVING"} => n.p_flags[MM] = {"RECEIVING"}
  /\ InTransit(n, P2).type = InTransit(s, P).type
  /\ InTransit(n, P2).i1 = InTransit(s, P).i1
  /\ "SENDING" \in n.p_flags[MM] => "SENDING" \in s.p_flags[MM]
  /\ WaitsFor(n, FS, ANY) \/ (n.p_flags[FS] = {} /\ HeadFS(n))
  /\ Got(n, P2, FS) => Client(n, n.mess[FS].src)
  /\ FSGot(n, P2)
  /\ \A u \in UserSlots : Open(n, u) = Open(s, u)

\* It is what it expects.
LEMMA FSReceives ==
  ASSUME NEW s, NEW P, NEW L, NEW Z, NEW C, Receives(s, P, L, Z, C, FS),
         NEW n, KInv(n), NEW P2 \in PcType, FSHas(s, P, n, P2)
  PROVE  Good(n, P2, L, Z, C)
<1> USE DEF FSHas
<1>1. CInv(s, P, L, Z, C) /\ MM \in Servers /\ FS \in Servers /\ MM # FS
  BY SystemProcs DEF Receives
<1>2. P[FS] = "recv" /\ s.p_flags[FS] = {} /\ L[FS] = << >> /\ HeadFS(s)
      /\ \A w : ~Busy(s, P, w)
  BY DEF Receives
<1>3. /\ \A u, v : Answerable(s, u, v) => Answerable(n, u, v)
      /\ UserMess(n) /\ PidsDiffer(n) /\ PausedOK(n, Z) /\ UsersStay(s, n)
      /\ \A u \in UserSlots : isemptyp(n, u) <=> isemptyp(s, u)
  <2>1. UserMess(s) /\ PidsDiffer(s) /\ PausedOK(s, Z)
    BY <1>1 DEF CInv, MailOK
  <2> QED
    BY <2>1, TakenStays
<1>4. TasksOK(n, P2) /\ \A v : ~Busy(n, P2, v)
  <2>1. TasksOK(s, P)
    BY <1>1 DEF CInv
  <2>2. ~WaitsFor(s, FS, DISK)
    BY <1>2 DEF WaitsFor
  <2> QED
    BY <2>1, <2>2, TasksStay
<1>5. ServersOK(n, P2, L)
  <2>1. ServerState(s, P, L, MM) /\ ServerState(s, P, L, FS)
    BY <1>1 DEF CInv, ServersOK
  <2>2. ServerState(n, P2, L, MM)
    BY <1>2, <2>1 DEF ServerState, WaitsFor
  <2>3. ServerState(n, P2, L, FS)
    BY <1>2 DEF ServerState, WaitsFor
  <2> QED
    BY <2>2, <2>3 DEF ServersOK
<1>6. Todo(n, P2, L) = L[MM] /\ Todo(s, P, L) = L[MM]
  BY <1>2, <1>4 DEF Todo
<1>7. Known(n, P2, C) = Known(s, P, C) /\ TellsFork(n, P2) = TellsFork(s, P)
  BY DEF Known, TellsFork
<1>8. TodoOK(n, P2, Z, C, Todo(n, P2, L))
  <2>1. TodoOK(s, P, Z, C, L[MM])
    BY <1>1, <1>6 DEF CInv
  <2>2. OpenOK(n, P2, L[MM])
    <3>1. OpenOK(s, P, L[MM])
      BY <2>1 DEF TodoOK
    <3>2. \A w : HasTold(s, P, w) = HasTold(n, P2, w)
      BY DEF HasTold, Got
    <3> QED
      BY <1>3, <3>1, <3>2 DEF OpenOK
  <2>3. MMPlan(n, Z, Known(n, P2, C), L[MM])
    <3>1. MMPlan(s, Z, Known(s, P, C), L[MM])
      BY <2>1 DEF TodoOK
    <3> QED
      BY <1>3, <1>7, <3>1, PlanStays
  <2> QED
    BY <1>6, <1>7, <2>1, <2>2, <2>3 DEF TodoOK
<1>9. FSPlan(n, P2, L, C)
  <2>1. \A c : Serves(n, P2, L, c) => Got(n, P2, FS) /\ c = n.mess[FS].src
    BY <1>2 DEF Serves, Got
  <2>2. Got(n, P2, FS) => HeadFS(n)
    BY DEF Got, WaitsFor
  <2> QED
    BY <1>2, <1>4, <2>1, <2>2 DEF FSPlan
<1>10. MailOK(n, P2, Z)
  <2>1. MMGot(s, P, Z)
    BY <1>1 DEF CInv, MailOK
  <2>2. MMGot(n, P2, Z)
    BY <1>3, <2>1 DEF MMGot, Got
  <2> QED
    BY <1>3, <2>2 DEF MailOK
<1>11. Exiting(n, P2, L, Z)
  BY <1>4 DEF Exiting
<1>12. CtlTyped(P2, L, Z)
  BY <1>1 DEF CInv, CtlTyped, PcType
<1> QED
  BY <1>4, <1>5, <1>8, <1>9, <1>10, <1>11, <1>12 DEF CInv, Good

\* A server that has its main loop's receive to do
LEMMA RecvReady ==
  ASSUME Now, NEW v \in Servers, ServerRecv(v)
  PROVE  /\ Receives(k, pc, plan, paused, closed, v)
         /\ KInv(k) /\ k \in KernelState /\ k.proc_ptr = v
         /\ pc' \in PcType /\ pc'[v] = "work"
         /\ \A x \in (Tasks \cup Servers) \ {v} : pc'[x] = pc[x]
         /\ k' = mini_rec(k, v, ANY) /\ \A t \in Tasks : k.p_flags[t] # {}
<1>1. /\ k.proc_ptr = v /\ pc[v] = "recv" /\ k' = mini_rec(k, v, ANY)
      /\ pc' = [pc EXCEPT ![v] = "work"]
  BY DEF ServerRecv
<1>2. /\ KInv(k) /\ k \in KernelState /\ pc \in PcType /\ k.p_flags[v] = {}
      /\ CInv(k, pc, plan, paused, closed)
  BY <1>1, TaskRuns
<1>3. /\ \A t \in Tasks : k.p_flags[t] # {}
      /\ (v = MM => ~HeadFS(k)) /\ (v = FS => HeadFS(k)) /\ \A w : ~Busy(k, pc, w)
  BY <1>1, ServerRuns
<1>4. plan[v] = << >>
  <2>1. ServerState(k, pc, plan, v)
    BY <1>2 DEF CInv, ServersOK, Servers
  <2> QED
    BY <1>1, <2>1 DEF ServerState
<1>5. Receives(k, pc, plan, paused, closed, v)
  BY <1>1, <1>2, <1>3, <1>4 DEF Receives
<1>6. /\ pc' \in PcType /\ pc'[v] = "work"
      /\ \A x \in (Tasks \cup Servers) \ {v} : pc'[x] = pc[x]
  BY <1>1, <1>2 DEF PcType
<1> QED
  BY <1>1, <1>2, <1>3, <1>5, <1>6

\* A server that finds no message
LEMMA NothingReceived ==
  ASSUME Now, NEW v \in Servers, ServerRecv(v), WaitingIs(k, v, ANY, k')
  PROVE  /\ TasksWait(k, pc, k', pc') /\ CallsTaken(k, k') /\ WaitsFor(k', v, ANY)
         /\ \A w \in Servers \ {v} :
              /\ k'.p_flags[w] = k.p_flags[w] /\ k'.p_getfrom[w] = k.p_getfrom[w]
              /\ k'.mess[w] = k.mess[w]
         /\ \A u \in UserSlots : Open(k', u) = Open(k, u)
<1>1. /\ k \in KernelState /\ \A t \in Tasks : k.p_flags[t] # {}
      /\ \A x \in (Tasks \cup Servers) \ {v} : pc'[x] = pc[x]
      /\ Receives(k, pc, plan, paused, closed, v)
  BY RecvReady
<1>2. k.p_flags[v] = {}
  BY <1>1 DEF Receives
<1>3. v \in Procs /\ Tasks \subseteq Procs \ {v} /\ UserSlots \subseteq Procs \ {v}
      /\ Servers \subseteq Procs /\ v \notin Tasks
  BY SystemProcs
<1>4. /\ k'.p_getfrom = [k.p_getfrom EXCEPT ![v] = ANY]
      /\ k'.p_int_blocked = k.p_int_blocked
      /\ k'.p_pid = k.p_pid /\ k'.mess = k.mess
      /\ k'.p_flags = [k.p_flags EXCEPT ![v] = k.p_flags[v] \cup {"RECEIVING"}]
      /\ SameSignals(k, k')
  BY DEF WaitingIs
<1>5. /\ k.p_flags \in [Procs -> SUBSET Flags] /\ k.p_getfrom \in [Procs -> Procs \cup {ANY}]
  BY <1>1 DEF KernelState
<1>6. /\ k'.p_flags[v] = {"RECEIVING"} /\ k'.p_getfrom[v] = ANY
      /\ \A x \in Procs \ {v} : k'.p_flags[x] = k.p_flags[x] /\ k'.p_getfrom[x] = k.p_getfrom[x]
  BY <1>2, <1>3, <1>4, <1>5
<1>7. TasksWait(k, pc, k', pc')
  BY <1>1, <1>3, <1>4, <1>6 DEF TasksWait
<1>8. CallsTaken(k, k')
  <2>1. /\ k'.p_priority = k.p_priority /\ k'.p_pid = k.p_pid /\ k'.p_sendto = k.p_sendto
        /\ k'.mess = k.mess
    BY <1>4 DEF SameSignals
  <2>2. \A u \in UserSlots : k'.p_flags[u] = k.p_flags[u] /\ k'.p_getfrom[u] = k.p_getfrom[u]
    BY <1>3, <1>6
  <2> QED
    BY <2>1, <2>2 DEF CallsTaken
<1>9. \A u \in UserSlots : Open(k', u) = Open(k, u)
  BY <1>4 DEF Open, SameSignals
<1> QED
  BY <1>3, <1>4, <1>6, <1>7, <1>8, <1>9 DEF WaitsFor

\* The signals MM was told of are a number.
LEMMA OpenInt ==
  ASSUME NEW s, KInv(s), NEW u \in UserSlots
  PROVE  Open(s, u) \in Int
<1>1. u \in Slots /\ IsFiniteSet(s.p_pending[u]) /\ s \in KernelState
  BY SystemProcs DEF KInv, Base, UserOK
<1>2. Cardinality(s.p_pending[u]) \in Nat
  BY <1>1, FS_CardinalityType
<1>3. s.p_pendcount[u] \in Nat
  <2>1. s.p_pendcount \in [Slots -> Nat]
    BY <1>1 DEF KernelState
  <2> QED
    BY <1>1, <2>1
<1> QED
  BY <1>2, <1>3 DEF Open

\* The server v has the call of p.
CallTaken(s, P, n, P2, v, p) ==
  /\ TasksWait(s, P, n, P2) /\ CallsTaken(s, n)
  /\ p \in UserSlots \cup {MM} /\ p # v /\ n.rdy = s.rdy
  /\ "SENDING" \in s.p_flags[p] /\ "RECEIVING" \in s.p_flags[p] /\ ~isemptyp(s, p)
  /\ s.p_getfrom[p] = v /\ s.p_sendto[p] = v
  /\ p = MM => v = FS /\ s.p_flags[MM] = {"SENDING", "RECEIVING"}
  /\ n.mess[v] = From(s.mess[p], p) /\ n.p_flags[v] = {}
  /\ n.p_flags[p] = s.p_flags[p] \ {"SENDING"}
  /\ n.p_getfrom = s.p_getfrom /\ n.p_priority = s.p_priority
  /\ \A w \in Servers \ {v} : n.mess[w] = s.mess[w]
  /\ \A w \in Procs \ {p} : n.p_flags[w] = s.p_flags[w]
  /\ \A u \in UserSlots : Open(n, u) = Open(s, u)

\* A server takes the call of p.
LEMMA CallReceived ==
  ASSUME Now, NEW v \in Servers, ServerRecv(v), NEW p, p = Head(k.p_callerq[v]),
         k.p_callerq[v] # << >>
  PROVE  KInv(k') /\ CallTaken(k, pc, k', pc', v, p)
<1>1. /\ k \in KernelState /\ \A t \in Tasks : k.p_flags[t] # {}
      /\ \A x \in (Tasks \cup Servers) \ {v} : pc'[x] = pc[x]
      /\ Receives(k, pc, plan, paused, closed, v) /\ KInv(k) /\ k' = mini_rec(k, v, ANY)
  BY RecvReady
<1>2. k.p_flags[v] = {}
  BY <1>1 DEF Receives
<1>3. TakenIs(k, v, p, k') /\ KInv(k')
  BY <1>1, <1>2, RecvTakes
<1>4. p \in Procs /\ OnList(k.p_callerq[v], p)
  <2>1. k.p_callerq[v] \in Seq(Procs)
    BY <1>1, SystemProcs DEF KernelState
  <2> QED
    BY <2>1, HeadInSeq
<1>5. /\ p \in UserSlots \cup {MM} /\ ~isemptyp(k, p)
      /\ "SENDING" \in k.p_flags[p] /\ "RECEIVING" \in k.p_flags[p]
      /\ k.p_getfrom[p] = v /\ k.p_sendto[p] = v
      /\ p = MM => v = FS /\ k.p_flags[MM] = {"SENDING", "RECEIVING"}
  <2>1. Base(k) /\ v \in Procs
    BY <1>1, SystemProcs DEF KInv
  <2> QED
    BY <1>4, <2>1, Callers
<1>6. p # v
  BY <1>2, <1>5
<1>7. /\ k'.p_priority = k.p_priority /\ k'.p_sendto = k.p_sendto
      /\ k'.p_pending = k.p_pending /\ k'.p_pendcount = k.p_pendcount
      /\ k'.p_int_blocked = k.p_int_blocked /\ k'.p_pid = k.p_pid
      /\ k'.p_getfrom = k.p_getfrom /\ k'.rdy = k.rdy
      /\ k'.mess = [k.mess EXCEPT ![v] = From(k.mess[p], p)]
      /\ k'.p_flags = [k.p_flags EXCEPT ![p] = k.p_flags[p] \ {"SENDING"}]
  BY <1>3 DEF TakenIs, From
<1>8. v \in Procs /\ Tasks \subseteq Procs \ {v, p} /\ UserSlots \subseteq Procs \ {v}
      /\ Servers \subseteq Procs /\ v \notin Tasks
  BY <1>5, SystemProcs
<1>9. /\ k'.mess[v] = From(k.mess[p], p)
      /\ \A x \in Procs \ {v} : k'.mess[x] = k.mess[x]
  BY <1>1, <1>7, <1>8 DEF KernelState
<1>10. /\ k'.p_flags[p] = k.p_flags[p] \ {"SENDING"}
       /\ \A x \in Procs \ {p} : k'.p_flags[x] = k.p_flags[x]
  BY <1>1, <1>4, <1>7 DEF KernelState
<1>11. k'.p_flags[v] = {}
  BY <1>2, <1>6, <1>8, <1>10
<1>12. TasksWait(k, pc, k', pc')
  BY <1>1, <1>7, <1>8, <1>10 DEF TasksWait
<1>13. CallsTaken(k, k')
  <2>1. ASSUME NEW u \in UserSlots
        PROVE  /\ "RECEIVING" \in k'.p_flags[u] <=> "RECEIVING" \in k.p_flags[u]
               /\ "SENDING" \in k'.p_flags[u] => "SENDING" \in k.p_flags[u]
               /\ "P_STOP" \in k.p_flags[u] => "P_STOP" \in k'.p_flags[u]
    <3>1. CASE u = p
      BY <1>10, <3>1
    <3>2. CASE u # p
      BY <1>8, <1>10, <3>2
    <3> QED
      BY <3>1, <3>2
  <2>2. \A u \in UserSlots : k'.mess[u] = k.mess[u]
    BY <1>8, <1>9
  <2> QED
    BY <1>7, <2>1, <2>2 DEF CallsTaken
<1>14. \A u \in UserSlots : Open(k', u) = Open(k, u)
  BY <1>7 DEF Open
<1>15. \A w \in Servers \ {v} : k'.mess[w] = k.mess[w]
  BY <1>8, <1>9
<1> QED
  BY <1>3, <1>5, <1>6, <1>7, <1>9, <1>10, <1>11, <1>12, <1>13, <1>14, <1>15 DEF CallTaken

\* MM receives.
LEMMA MMReceived ==
  ASSUME Now, ServerRecv(MM)
  PROVE  Now'
<1>1. MM \in Servers /\ FS \in Servers /\ MM # FS /\ MM \in Procs /\ FS \in Procs
      /\ MM \notin UserSlots /\ MM \notin Tasks /\ FS \notin UserSlots /\ FS \notin Tasks
  BY SystemProcs
<1>2. /\ Receives(k, pc, plan, paused, closed, MM)
      /\ KInv(k) /\ k \in KernelState /\ k.proc_ptr = MM
      /\ pc' \in PcType /\ pc'[MM] = "work"
      /\ \A x \in (Tasks \cup Servers) \ {MM} : pc'[x] = pc[x]
      /\ k' = mini_rec(k, MM, ANY) /\ \A t \in Tasks : k.p_flags[t] # {}
  BY <1>1, RecvReady
<1>3. pc'[FS] = pc[FS]
  BY <1>1, <1>2
<1>4. \A u \in UserSlots : Open(k, u) \in Int
  BY <1>2, OpenInt
<1>5. ASSUME k.p_callerq[MM] # << >>
      PROVE  KInv(k') /\ MMHas(k, pc, k', pc', paused)
  <2>1. PICK p : p = Head(k.p_callerq[MM])
    OBVIOUS
  <2>2. /\ KInv(k') /\ TasksWait(k, pc, k', pc') /\ CallsTaken(k, k')
        /\ p \in UserSlots \cup {MM} /\ p # MM
        /\ "SENDING" \in k.p_flags[p] /\ "RECEIVING" \in k.p_flags[p] /\ ~isemptyp(k, p)
        /\ k.p_getfrom[p] = MM /\ k.p_sendto[p] = MM
        /\ k'.mess[MM] = From(k.mess[p], p) /\ k'.p_flags[MM] = {}
        /\ k'.p_flags[p] = k.p_flags[p] \ {"SENDING"}
        /\ k'.p_getfrom = k.p_getfrom /\ k'.p_priority = k.p_priority
        /\ \A w \in Servers \ {MM} : k'.mess[w] = k.mess[w]
        /\ \A w \in Procs \ {p} : k'.p_flags[w] = k.p_flags[w]
        /\ \A u \in UserSlots : Open(k', u) = Open(k, u)
    <3>1. KInv(k') /\ CallTaken(k, pc, k', pc', MM, p)
      BY <1>1, <1>5, <2>1, CallReceived
    <3> QED
      BY <3>1 DEF CallTaken
  <2> HIDE <2>1
  <2>3. p \in UserSlots
    BY <2>2
  <2>4. /\ k'.p_flags[FS] = k.p_flags[FS] /\ k'.p_getfrom[FS] = k.p_getfrom[FS]
        /\ k'.mess[FS] = k.mess[FS]
    BY <1>1, <2>2, <2>3
  <2>5. AsksMM(k.mess[p], p) /\ p \notin paused
    <3>1. UserMess(k) /\ PausedOK(k, paused)
      BY <1>2 DEF Receives, CInv, MailOK
    <3>2. ~Answerable(k, p, MM)
      BY <2>2 DEF Answerable
    <3> QED
      BY <2>2, <2>3, <3>1, <3>2 DEF UserMess, PausedOK
  <2>6. /\ k'.mess[MM].type = k.mess[p].type /\ k'.mess[MM].src = p
        /\ k'.mess[MM].i1 = k.mess[p].i1
    <3>1. k.mess[p] \in Mess
      BY <1>2, <2>3, SystemProcs DEF KernelState
    <3> QED
      BY <2>2, <3>1 DEF From, Mess
  <2>7. AsksMM(k'.mess[MM], p) /\ k'.mess[MM].type # "KSIG"
    BY <2>5, <2>6 DEF AsksMM, MMCalls
  <2>8. Answerable(k', p, MM)
    BY <2>2, <2>3 DEF Answerable, isemptyp
  <2>9. MMGot(k', pc', paused)
    BY <2>5, <2>6, <2>7, <2>8 DEF MMGot
  <2>10. \A u \in UserSlots : Open(k', u) = Open(k, u) + HasTold(k', pc', u)
    <3>1. \A u : HasTold(k', pc', u) = 0
      BY <2>7 DEF HasTold
    <3> QED
      BY <1>4, <2>2, <3>1
  <2> QED
    BY <1>2, <1>3, <2>2, <2>4, <2>9, <2>10 DEF MMHas
<1>6. ASSUME k.p_callerq[MM] = << >>, ~(k.sig_procs > 0)
      PROVE  KInv(k') /\ MMHas(k, pc, k', pc', paused)
  <2>1. WaitingIs(k, MM, ANY, k') /\ KInv(k')
    <3>1. ~TakesInterrupt(k, MM, ANY)
      BY <1>1 DEF TakesInterrupt
    <3>2. MM \in Tasks \cup Servers /\ ANY \in {ANY, HARDWARE}
      BY <1>1
    <3> QED
      BY <1>2, <1>6, <3>1, <3>2, RecvWaits
  <2>2. /\ TasksWait(k, pc, k', pc') /\ CallsTaken(k, k') /\ WaitsFor(k', MM, ANY)
        /\ \A w \in Servers \ {MM} :
             /\ k'.p_flags[w] = k.p_flags[w] /\ k'.p_getfrom[w] = k.p_getfrom[w]
             /\ k'.mess[w] = k.mess[w]
        /\ \A u \in UserSlots : Open(k', u) = Open(k, u)
    BY <1>1, <2>1, NothingReceived
  <2>3. k'.p_flags[MM] # {}
    BY <2>2 DEF WaitsFor
  <2>4. MMGot(k', pc', paused)
    BY <2>3 DEF MMGot, Got
  <2>5. \A u \in UserSlots : Open(k', u) = Open(k, u) + HasTold(k', pc', u)
    <3>1. \A u : HasTold(k', pc', u) = 0
      BY <2>3 DEF HasTold, Got
    <3> QED
      BY <1>4, <2>2, <3>1
  <2> QED
    BY <1>1, <1>2, <1>3, <2>1, <2>2, <2>4, <2>5 DEF MMHas
<1>7. ASSUME k.p_callerq[MM] = << >>, k.sig_procs > 0
      PROVE  KInv(k') /\ MMHas(k, pc, k', pc', paused)
  <2>1. ToldIs(k, k') /\ KInv(k')
    BY <1>2, <1>7, RecvInforms
  <2>2. /\ k'.p_priority = k.p_priority /\ k'.p_sendto = k.p_sendto
        /\ k'.p_int_blocked = k.p_int_blocked /\ k'.p_pid = k.p_pid
        /\ \A x \in Procs \ {MM} : k'.p_getfrom[x] = k.p_getfrom[x]
        /\ \A t \in Tasks \cup {FS} : k'.p_flags[t] = k.p_flags[t]
        /\ \A x \in Procs \ {MM, SYSTASK} : k'.mess[x] = k.mess[x]
        /\ k'.p_flags[MM] = {}
        /\ k'.mess[MM].type = "KSIG" /\ k'.mess[MM].i1 \in UserSlots
        /\ IsFiniteSet(k'.mess[MM].map)
    BY <2>1 DEF ToldIs
  <2>3. \A u \in UserSlots :
          Open(k', u) = Open(k, u) + IF u = k'.mess[MM].i1 THEN Cardinality(k'.mess[MM].map) ELSE 0
    BY <2>1 DEF ToldIs
  <2>4. \A u \in UserSlots, f \in {"RECEIVING", "SENDING", "P_STOP"} :
          f \in k'.p_flags[u] <=> f \in k.p_flags[u]
    <3>1. \A x \in Procs \ {MM}, f \in Flags \ {"PENDING", "SIG_PENDING"} :
            f \in k'.p_flags[x] <=> f \in k.p_flags[x]
      BY <2>1 DEF ToldIs
    <3>2. UserSlots \subseteq Procs \ {MM}
      BY SystemProcs
    <3>3. {"RECEIVING", "SENDING", "P_STOP"} \subseteq Flags \ {"PENDING", "SIG_PENDING"}
      BY DEF Flags
    <3> QED
      BY <3>1, <3>2, <3>3
  <2>5. CallsTaken(k, k')
    <3>1. \A u \in UserSlots : k'.p_getfrom[u] = k.p_getfrom[u] /\ k'.mess[u] = k.mess[u]
      <4>1. UserSlots \subseteq Procs \ {MM, SYSTASK}
        BY SystemProcs
      <4> QED
        BY <2>2, <4>1
    <3> QED
      BY <2>2, <2>4, <3>1 DEF CallsTaken
  <2>6. TasksWait(k, pc, k', pc')
    <3>1. Tasks \subseteq Procs \ {MM} /\ Tasks \subseteq (Tasks \cup Servers) \ {MM}
      BY SystemProcs
    <3> QED
      BY <1>2, <2>2, <3>1 DEF TasksWait
  <2>7. /\ k'.p_flags[FS] = k.p_flags[FS] /\ k'.p_getfrom[FS] = k.p_getfrom[FS]
        /\ k'.mess[FS] = k.mess[FS]
    <3>1. FS \in Procs \ {MM, SYSTASK}
      BY SystemProcs
    <3> QED
      BY <2>2, <3>1
  <2>8. MMGot(k', pc', paused)
    BY <2>2 DEF MMGot
  <2>9. \A u \in UserSlots : Open(k', u) = Open(k, u) + HasTold(k', pc', u)
    <3>1. \A u : HasTold(k', pc', u) =
                   IF u = k'.mess[MM].i1 THEN Cardinality(k'.mess[MM].map) ELSE 0
      BY <1>2, <2>2 DEF HasTold, Got
    <3> QED
      BY <2>3, <3>1
  <2> QED
    BY <1>2, <1>3, <2>1, <2>2, <2>5, <2>6, <2>7, <2>8, <2>9 DEF MMHas
<1>8. Good(k', pc', plan, paused, closed)
  <2>1. KInv(k') /\ MMHas(k, pc, k', pc', paused)
    BY <1>5, <1>6, <1>7
  <2> QED
    BY <1>2, <2>1, MMReceives
<1> QED
  BY <1>8 DEF Now, ServerRecv, serverVars

\* FS receives.
LEMMA FSReceived ==
  ASSUME Now, ServerRecv(FS)
  PROVE  Now'
<1>1. MM \in Servers /\ FS \in Servers /\ MM # FS /\ MM \in Procs /\ FS \in Procs
      /\ FS \notin UserSlots /\ MM \notin UserSlots /\ MM \notin Tasks /\ FS \notin Tasks
  BY SystemProcs
<1>2. /\ Receives(k, pc, plan, paused, closed, FS)
      /\ KInv(k) /\ k \in KernelState /\ k.proc_ptr = FS
      /\ pc' \in PcType /\ pc'[FS] = "work"
      /\ \A x \in (Tasks \cup Servers) \ {FS} : pc'[x] = pc[x]
      /\ k' = mini_rec(k, FS, ANY) /\ \A t \in Tasks : k.p_flags[t] # {}
  BY <1>1, RecvReady
<1>3. pc'[MM] = pc[MM]
  BY <1>1, <1>2
<1>4. pc[FS] = "recv" /\ HeadFS(k)
  BY <1>2 DEF Receives
<1>5. ASSUME k.p_callerq[FS] # << >>
      PROVE  KInv(k') /\ FSHas(k, pc, k', pc')
  <2>1. PICK p : p = Head(k.p_callerq[FS])
    OBVIOUS
  <2>2. KInv(k') /\ CallTaken(k, pc, k', pc', FS, p)
    BY <1>1, <1>5, <2>1, CallReceived
  <2> HIDE <2>1
  <2>3. /\ TasksWait(k, pc, k', pc') /\ CallsTaken(k, k')
        /\ p \in UserSlots \cup {MM} /\ p # FS /\ k'.rdy = k.rdy
        /\ "SENDING" \in k.p_flags[p] /\ "RECEIVING" \in k.p_flags[p] /\ ~isemptyp(k, p)
        /\ k.p_getfrom[p] = FS /\ k.p_sendto[p] = FS
        /\ p = MM => k.p_flags[MM] = {"SENDING", "RECEIVING"}
        /\ k'.mess[FS] = From(k.mess[p], p) /\ k'.p_flags[FS] = {}
        /\ k'.p_flags[p] = k.p_flags[p] \ {"SENDING"}
        /\ k'.p_getfrom = k.p_getfrom /\ k'.p_priority = k.p_priority
    BY <2>2 DEF CallTaken
  <2>4. /\ k'.mess[MM] = k.mess[MM]
        /\ \A u \in UserSlots : Open(k', u) = Open(k, u)
        /\ p # MM => k'.p_flags[MM] = k.p_flags[MM]
    BY <1>1, <2>2 DEF CallTaken
  <2>5. /\ k'.mess[FS].type = k.mess[p].type /\ k'.mess[FS].src = p
        /\ k'.mess[FS].i1 = k.mess[p].i1
    <3>1. k.mess[p] \in Mess /\ p \in Procs
      BY <1>2, <2>3, SystemProcs DEF KernelState
    <3> QED
      BY <2>3, <3>1 DEF From, Mess
  <2>6. HeadFS(k')
    BY <1>4, <2>3 DEF HeadFS
  <2>7. /\ "RECEIVING" \in k.p_flags[MM] <=> "RECEIVING" \in k'.p_flags[MM]
        /\ k.p_flags[MM] = {} <=> k'.p_flags[MM] = {}
        /\ k.p_flags[MM] = {"RECEIVING"} => k'.p_flags[MM] = {"RECEIVING"}
        /\ "SENDING" \in k'.p_flags[MM] => "SENDING" \in k.p_flags[MM]
    <3>1. CASE p = MM
      <4>1. k'.p_flags[MM] = {"RECEIVING"} /\ k.p_flags[MM] = {"SENDING", "RECEIVING"}
        BY <2>3, <3>1
      <4> QED
        BY <4>1
    <3>2. CASE p # MM
      BY <2>4, <3>2
    <3> QED
      BY <3>1, <3>2
  <2>8. ServerState(k, pc, plan, MM) /\ UserMess(k)
    BY <1>2 DEF Receives, CInv, ServersOK, MailOK
  <2>9. Client(k', p) /\ FSGot(k', pc')
    <3>1. CASE p = MM
      <4>1. k'.p_flags[MM] = {"RECEIVING"}
        BY <2>3, <3>1
      <4>2. Client(k', MM)
        BY <2>3, <3>1, <4>1 DEF Client, WaitsFor
      <4>3. k.mess[MM].type \in Tidings
        BY <2>3, <2>8, <3>1 DEF ServerState
      <4> QED
        BY <2>5, <3>1, <4>2, <4>3 DEF FSGot
    <3>2. CASE p \in UserSlots
      <4>1. Answerable(k', p, FS)
        BY <2>3, <3>2 DEF Answerable, isemptyp
      <4>2. k.mess[p].type \in FSCalls
        BY <2>3, <2>8, <3>2 DEF UserMess
      <4> QED
        BY <2>5, <3>2, <4>1, <4>2 DEF FSGot, Client
    <3> QED
      BY <2>3, <3>1, <3>2
  <2>10. /\ InTransit(k', pc').type = InTransit(k, pc).type
         /\ InTransit(k', pc').i1 = InTransit(k, pc).i1
    <3>1. CASE p = MM
      <4>1. InTransit(k, pc) = k.mess[MM]
        BY <2>3, <3>1 DEF InTransit
      <4>2. InTransit(k', pc') = k'.mess[FS]
        BY <1>2, <2>3, <2>5, <3>1 DEF InTransit
      <4> QED
        BY <2>5, <3>1, <4>1, <4>2
    <3>2. CASE p # MM
      BY <1>2, <1>4, <2>3, <2>4, <2>5, <3>2 DEF InTransit
    <3> QED
      BY <3>1, <3>2
  <2> QED
    BY <1>2, <1>3, <2>2, <2>3, <2>4, <2>5, <2>6, <2>7, <2>9, <2>10 DEF FSHas
<1>6. ASSUME k.p_callerq[FS] = << >>
      PROVE  KInv(k') /\ FSHas(k, pc, k', pc')
  <2>1. WaitingIs(k, FS, ANY, k') /\ KInv(k')
    <3>1. ~TakesInterrupt(k, FS, ANY)
      BY <1>1 DEF TakesInterrupt
    <3>2. FS \in Tasks \cup Servers /\ ANY \in {ANY, HARDWARE}
      BY <1>1
    <3> QED
      BY <1>1, <1>2, <1>6, <3>1, <3>2, RecvWaits
  <2>2. /\ TasksWait(k, pc, k', pc') /\ CallsTaken(k, k') /\ WaitsFor(k', FS, ANY)
        /\ \A w \in Servers \ {FS} :
             /\ k'.p_flags[w] = k.p_flags[w] /\ k'.p_getfrom[w] = k.p_getfrom[w]
             /\ k'.mess[w] = k.mess[w]
        /\ \A u \in UserSlots : Open(k', u) = Open(k, u)
    BY <1>1, <2>1, NothingReceived
  <2>3. k'.p_flags[FS] # {}
    BY <2>2 DEF WaitsFor
  <2>4. FSGot(k', pc') /\ ~Got(k', pc', FS)
    BY <2>3 DEF FSGot, Got
  <2>5. /\ k'.p_flags[MM] = k.p_flags[MM] /\ k'.p_getfrom[MM] = k.p_getfrom[MM]
        /\ k'.mess[MM] = k.mess[MM]
    BY <1>1, <2>2
  <2>6. InTransit(k', pc') = InTransit(k, pc)
    BY <1>4, <2>3, <2>5 DEF InTransit
  <2> QED
    BY <1>2, <1>3, <2>1, <2>2, <2>4, <2>5, <2>6 DEF FSHas
<1>7. Good(k', pc', plan, paused, closed)
  <2>1. KInv(k') /\ FSHas(k, pc, k', pc')
    BY <1>5, <1>6
  <2> QED
    BY <1>2, <2>1, FSReceives
<1> QED
  BY <1>7 DEF Now, ServerRecv, serverVars

-----------------------------------------------------------------------------
(* MM decides what to do. *)

\* The steps that plans are made of
LEMMA StepFacts ==
  /\ \A d \in Procs, ty \in MessTypes, x, y, z \in Int :
       LET c == Call(d, Message(ty, x, y, z))
       IN /\ c \in Steps /\ c.how = "sendrec" /\ c.to = d /\ c.m.type = ty
          /\ c.m.i1 = x /\ c.m.i2 = y /\ c.m.i3 = z
  /\ \A d \in Procs, r \in Int :
       LET c == Send(d, r)
       IN c \in Steps /\ c.how = "send" /\ c.to = d /\ c.m.type = "REPLY"
  /\ \A d \in Procs :
       LET c == SendResult(d)
       IN c \in Steps /\ c.how = "result" /\ c.to = d /\ c.m.type = "none"
<1>1. NoMess \in Mess /\ NoMess.src = HARDWARE /\ NoMess.type = "none"
  BY MessageTyped DEF NoMess
<1>2. ASSUME NEW ty \in MessTypes, NEW x \in Int, NEW y \in Int, NEW z \in Int
      PROVE  /\ Message(ty, x, y, z) \in {m \in Mess : m.src = HARDWARE}
             /\ Message(ty, x, y, z).type = ty /\ Message(ty, x, y, z).i1 = x
             /\ Message(ty, x, y, z).i2 = y /\ Message(ty, x, y, z).i3 = z
  <2>1. Message(ty, x, y, z) \in Mess
    BY <1>2, MessageTyped
  <2> QED
    BY <2>1 DEF Message, NoMess
<1>3. ASSUME NEW d \in Procs, NEW ty \in MessTypes, NEW x \in Int, NEW y \in Int, NEW z \in Int
      PROVE  LET c == Call(d, Message(ty, x, y, z))
             IN /\ c \in Steps /\ c.how = "sendrec" /\ c.to = d /\ c.m.type = ty
                /\ c.m.i1 = x /\ c.m.i2 = y /\ c.m.i3 = z
  BY <1>2, <1>3 DEF Call, Steps
<1>4. ASSUME NEW d \in Procs, NEW r \in Int
      PROVE  LET c == Send(d, r)
             IN c \in Steps /\ c.how = "send" /\ c.to = d /\ c.m.type = "REPLY"
  <2>1. "REPLY" \in MessTypes /\ 0 \in Int
    BY DEF MessTypes
  <2> QED
    BY <1>2, <1>4, <2>1 DEF Send, Steps
<1>5. ASSUME NEW d \in Procs
      PROVE  LET c == SendResult(d)
             IN c \in Steps /\ c.how = "result" /\ c.to = d /\ c.m.type = "none"
  BY <1>1, <1>5 DEF SendResult, Steps
<1> QED
  BY <1>3, <1>4, <1>5

\* What MM may do, without the signals it finishes with
PlanFor(s, Z, K, t) ==
  /\ t \in Seq(Steps) /\ MMPlan(s, Z, K, t)
  /\ \A u : Ends(t, u) = {}

\* A plan for the request of MM's caller: MM goes on with it.
LEMMA MMDecides ==
  ASSUME Now, MMWork, NEW t, Decide(MM, t),
         t \in Seq(Steps), MMPlan(k, paused', Known(k, pc, closed), t),
         \A u \in UserSlots : ~isemptyp(k, u) =>
           Cardinality(Ends(t, u)) = HasTold(k, pc, u),
         paused' \subseteq UserSlots, PausedOK(k, paused')
  PROVE  Now'
<1>1. MM \in Servers /\ FS \in Servers /\ MM # FS /\ MM \notin Tasks /\ MM \in Procs
  BY SystemProcs
<1>2. /\ k.proc_ptr = MM /\ pc[MM] = "work" /\ k' = k /\ closed' = closed
      /\ plan' = [plan EXCEPT ![MM] = t]
      /\ pc' = [pc EXCEPT ![MM] = IF t = << >> THEN "recv" ELSE "plan"]
  BY DEF MMWork, Decide
<1>3. /\ KInv(k) /\ k \in KernelState /\ pc \in PcType /\ k.p_flags[MM] = {}
      /\ CInv(k, pc, plan, paused, closed)
  BY <1>1, <1>2, TaskRuns
<1>4. /\ \A p \in Tasks : k.p_flags[p] # {}
      /\ \A w : ~Busy(k, pc, w)
  BY <1>1, <1>2, ServerRuns
<1>5. plan \in [Servers -> Seq(Steps)]
  BY <1>3 DEF CInv, CtlTyped
<1>6. /\ plan' \in [Servers -> Seq(Steps)] /\ plan'[MM] = t /\ plan'[FS] = plan[FS]
      /\ pc' \in PcType /\ pc'[FS] = pc[FS] /\ \A p \in Tasks : pc'[p] = pc[p]
      /\ pc'[MM] = IF t = << >> THEN "recv" ELSE "plan"
  <2>1. plan' \in [Servers -> Seq(Steps)] /\ plan'[MM] = t /\ plan'[FS] = plan[FS]
    BY <1>1, <1>2, <1>5
  <2>2. /\ pc' \in PcType /\ pc'[FS] = pc[FS] /\ \A p \in Tasks : pc'[p] = pc[p]
        /\ pc'[MM] = IF t = << >> THEN "recv" ELSE "plan"
    BY <1>1, <1>2, <1>3 DEF PcType
  <2> QED
    BY <2>1, <2>2
<1>7. TasksOK(k, pc') /\ \A w : ~Busy(k, pc', w)
  <2>1. TasksWait(k, pc, k, pc')
    BY <1>4, <1>6 DEF TasksWait
  <2>2. TasksOK(k, pc)
    BY <1>3 DEF CInv
  <2> QED
    BY <2>1, <2>2, TasksStay
<1>8. ServersOK(k, pc', plan')
  <2>1. ServerState(k, pc, plan, FS)
    BY <1>3 DEF CInv, ServersOK
  <2>2. ServerState(k, pc', plan', MM)
    BY <1>3, <1>6 DEF ServerState
  <2>3. ServerState(k, pc', plan', FS)
    BY <1>6, <2>1 DEF ServerState
  <2> QED
    BY <2>2, <2>3 DEF ServersOK
<1>9. Todo(k, pc', plan') = t
  BY <1>6, <1>7 DEF Todo
<1>10. \A c : Serves(k, pc', plan', c) <=> Serves(k, pc, plan, c)
  BY <1>6 DEF Serves
<1>11. FSPlan(k, pc', plan', closed)
  <2>1. FSPlan(k, pc, plan, closed)
    BY <1>3 DEF CInv
  <2> QED
    BY <1>6, <1>7, <1>10, <2>1 DEF FSPlan
<1>12. InTransit(k, pc') = NoMess /\ InTransit(k, pc) = NoMess
  <2>1. ~WaitsFor(k, MM, FS)
    BY <1>3 DEF WaitsFor
  <2>2. ~Client(k, MM)
    BY <1>1, <2>1, SystemProcs DEF Client, Answerable
  <2>3. ~Serves(k, pc, plan, MM)
    BY <1>1, <1>3, <2>2 DEF CInv, FSPlan
  <2> QED
    BY <1>3, <1>6, <2>3 DEF InTransit, Serves
<1>13. TodoOK(k, pc', paused', closed, t)
  <2>1. Known(k, pc', closed) = Known(k, pc, closed)
    BY <1>12 DEF Known
  <2>2. ~TellsFork(k, pc')
    BY <1>12 DEF TellsFork, NoMess
  <2>3. OpenOK(k, pc', t)
    <3>1. \A u : HasTold(k, pc', u) = 0
      BY <1>6 DEF HasTold, Got
    <3>2. OpenOK(k, pc, << >>)
      <4>1. ServerState(k, pc, plan, MM)
        BY <1>3 DEF CInv, ServersOK
      <4>2. plan[MM] = << >>
        BY <1>2, <4>1 DEF ServerState
      <4>3. TodoOK(k, pc, paused, closed, plan[MM])
        BY <1>1, <1>2, ServerRuns
      <4> QED
        BY <4>2, <4>3 DEF TodoOK
    <3>3. \A u : Cardinality(Ends(<< >>, u)) = 0
      <4>1. \A u : Ends(<< >>, u) = {}
        BY DEF Ends
      <4> QED
        BY <4>1, FS_EmptySet
    <3>4. ASSUME NEW u \in UserSlots, ~isemptyp(k, u)
          PROVE  Open(k, u) = Cardinality(Ends(t, u)) + HasTold(k, pc', u)
      <4>1. Cardinality(Ends(t, u)) = HasTold(k, pc, u) /\ Cardinality(Ends(t, u)) \in Nat
        BY <3>4, EndsTail
      <4>2. Open(k, u) = 0 + HasTold(k, pc, u)
        BY <3>2, <3>3, <3>4 DEF OpenOK
      <4>3. PICK c \in Nat : c = Cardinality(Ends(t, u))
        BY <4>1
      <4>4. Open(k, u) = 0 + c
        BY <4>1, <4>2, <4>3
      <4> QED
        BY <3>1, <4>3, <4>4
    <3> QED
      BY <3>4 DEF OpenOK
  <2> QED
    BY <2>1, <2>2, <2>3 DEF TodoOK
<1>14. MailOK(k, pc', paused')
  <2>1. UserMess(k) /\ FSGot(k, pc) /\ PidsDiffer(k)
    BY <1>3 DEF CInv, MailOK
  <2>2. FSGot(k, pc')
    BY <1>6, <2>1 DEF FSGot, Got
  <2>3. MMGot(k, pc', paused')
    BY <1>6 DEF MMGot, Got
  <2> QED
    BY <2>1, <2>2, <2>3 DEF MailOK
<1>15. Exiting(k, pc', plan', paused')
  BY <1>7 DEF Exiting
<1>16. CtlTyped(pc', plan', paused')
  BY <1>6 DEF CtlTyped, PcType
<1>17. Good(k, pc', plan', paused', closed)
  BY <1>3, <1>7, <1>8, <1>9, <1>11, <1>13, <1>14, <1>15, <1>16 DEF CInv, Good
<1> QED
  BY <1>2, <1>17 DEF Now

\* Plans of one step and of two
LEMMA PlanOne ==
  ASSUME NEW s, NEW Z, NEW K, NEW a \in Steps, MMElem(s, Z, K, <<a>>, 1),
         a.m.type # "SYS_ENDSIG"
  PROVE  PlanFor(s, Z, K, <<a>>)
<1> DEFINE t == <<a>>
<1>1. t \in Seq(Steps) /\ DOMAIN t = {1} /\ t[1] = a
  OBVIOUS
<1> HIDE DEF t
<1>2. MMElem(s, Z, K, t, 1)
  BY DEF t
<1>3. MMPlan(s, Z, K, t)
  BY <1>1, <1>2 DEF MMPlan, RepliesOnce
<1>4. \A u : Ends(t, u) = {}
  BY <1>1 DEF Ends
<1>5. PlanFor(s, Z, K, t)
  BY <1>1, <1>3, <1>4 DEF PlanFor
<1> QED
  BY <1>5 DEF t

\* Of which one may be an answer
LEMMA PlanTwo ==
  ASSUME NEW s, NEW Z, NEW K, NEW a \in Steps, NEW b \in Steps,
         NEW t, t = <<a, b>>, MMElem(s, Z, K, t, 1), MMElem(s, Z, K, t, 2),
         a.m.type # "SYS_ENDSIG", b.m.type # "SYS_ENDSIG", ~IsReply(a)
  PROVE  PlanFor(s, Z, K, t)
<1>1. t \in Seq(Steps) /\ DOMAIN t = {1, 2} /\ t[1] = a /\ t[2] = b
  OBVIOUS
<1>2. MMPlan(s, Z, K, t)
  BY <1>1 DEF MMPlan, RepliesOnce
<1>3. \A u : Ends(t, u) = {}
  BY <1>1 DEF Ends
<1> QED
  BY <1>1, <1>2, <1>3 DEF PlanFor

\* The end of a process of whom MM asks FS first, and then what comes after
LEMMA ExitSteps ==
  ASSUME NEW p \in UserSlots
  PROVE  LET a == Call(FS, Message("TELL_EXIT", p, 0, 0))
             b == Call(SYSTASK, Message("SYS_XIT", INIT, p, 0))
         IN /\ a \in Steps /\ b \in Steps /\ ExitPlan(p) = <<a, b>>
            /\ IsCall(a, "TELL_EXIT") /\ a.m.i1 = p /\ a.to = FS
            /\ IsCall(b, "SYS_XIT") /\ b.m.i2 = p /\ b.to = SYSTASK
<1>1. /\ FS \in Procs /\ SYSTASK \in Procs /\ p \in Int /\ INIT \in Int /\ 0 \in Int
      /\ "TELL_EXIT" \in MessTypes /\ "SYS_XIT" \in MessTypes
  <2>1. p \in Int /\ INIT \in Int
    BY ProcAssumption DEF UserSlots, LOW_USER, INIT
  <2> QED
    BY <2>1, SystemProcs DEF MessTypes, Tidings, SysRequests
<1> QED
  BY <1>1, StepFacts DEF ExitPlan, IsCall

\* What the requests of MM's callers say
Asked(m, Z) ==
  /\ m \in Mess /\ AsksMM(m, m.src) /\ Answerable(k, m.src, MM)
  /\ m.type = "PAUSE" \/ m.src \notin Z
  /\ KInv(k)

\* The answer to the caller is a possible step.
LEMMA AnswerElem ==
  ASSUME NEW Z, NEW K, NEW m, Asked(m, Z), m.type # "PAUSE", NEW t, NEW i,
         t[i] \in {SendResult(m.src)} \cup {Send(m.src, r) : r \in Int}
  PROVE  MMElem(k, Z, K, t, i) /\ IsReply(t[i]) /\ t[i] \in Steps /\ t[i].m.type # "SYS_ENDSIG"
<1>1. m.src \in UserSlots /\ m.src \in Procs /\ Answerable(k, m.src, MM) /\ m.src \notin Z
  BY SystemProcs DEF Asked, AsksMM
<1>2. /\ t[i] \in Steps /\ t[i].to = m.src /\ t[i].how \in {"send", "result"}
      /\ t[i].m.type \in {"REPLY", "none"}
  BY <1>1, StepFacts
<1> QED
  BY <1>1, <1>2 DEF MMElem, ReplyOK, IsReply

\* One sequence after another
LEMMA Joined ==
  ASSUME NEW S, NEW x \in Seq(S), NEW y \in Seq(S)
  PROVE  /\ x \o y \in Seq(S) /\ Len(x \o y) = Len(x) + Len(y)
         /\ \A i \in 1..Len(x) : (x \o y)[i] = x[i]
         /\ \A i \in 1..Len(y) : (x \o y)[Len(x) + i] = y[i]
         /\ \A i \in 1..(Len(x) + Len(y)) : i > Len(x) => (x \o y)[i] = y[i - Len(x)]
<1> QED
  OBVIOUS

\* One call, with what it asks
LEMMA CallFacts ==
  ASSUME NEW d \in Procs, NEW ty \in MessTypes, NEW x \in Int, NEW y \in Int, NEW z \in Int,
         NEW c, c = Call(d, Message(ty, x, y, z))
  PROVE  /\ c \in Steps /\ c.how = "sendrec" /\ c.to = d /\ c.m.type = ty
         /\ c.m.i1 = x /\ c.m.i2 = y /\ c.m.i3 = z
<1> QED
  BY StepFacts

\* The plans for the calls but FORK
LEMMA CallPlans ==
  ASSUME NEW Z, NEW K, NEW m, Asked(m, Z), m.type # "FORK", NEW t \in MMPlans(m)
  PROVE  PlanFor(k, Z, K, t)
<1>1. /\ m.src \in UserSlots /\ m.src \in Procs /\ Answerable(k, m.src, MM) /\ m.type \in MMCalls
      /\ m.type \in {"KILL", "RESUME"} => m.i1 \in UserSlots
      /\ m.i1 \in Int /\ m.i2 \in Int /\ m.src \in Int /\ 0 \in Int /\ 1 \in Int /\ -3 \in Int
  <2>1. /\ m.src \in UserSlots /\ m \in Mess /\ m.type \in MMCalls
        /\ m.type \in {"KILL", "RESUME"} => m.i1 \in UserSlots
    BY DEF Asked, AsksMM
  <2>2. m.src \in Int
    <3>1. \A n \in UserSlots : n \in Int
      BY ProcAssumption DEF UserSlots, LOW_USER
    <3> QED
      BY <2>1, <3>1
  <2>3. m.i1 \in Int /\ m.i2 \in Int
    BY <2>1 DEF Mess
  <2>4. 0 \in Int /\ 1 \in Int /\ -3 \in Int
    OBVIOUS
  <2>5. m.src \in Procs
    BY <2>1, SystemProcs
  <2>6. Answerable(k, m.src, MM)
    BY DEF Asked
  <2> QED
    BY <2>1, <2>2, <2>3, <2>4, <2>5, <2>6
<1>2. SYSTASK \in Procs /\ CLOCK \in Procs
  BY SystemProcs
<1>3. ~isemptyp(k, m.src)
  BY <1>1 DEF Answerable
<1>4. CASE m.type = "EXIT"
  <2>1. t = ExitPlan(m.src)
    BY <1>4 DEF MMPlans
  <2>2. PICK a \in Steps, b \in Steps :
          /\ t = <<a, b>> /\ IsCall(a, "TELL_EXIT") /\ a.m.i1 = m.src /\ a.to = FS
          /\ IsCall(b, "SYS_XIT") /\ b.m.i2 = m.src /\ b.to = SYSTASK
    BY <1>1, <2>1, ExitSteps
  <2>3. t[1] = a /\ t[2] = b /\ DOMAIN t = {1, 2}
    BY <2>2
  <2>4. MMElem(k, Z, K, t, 1)
    BY <2>2, <2>3 DEF MMElem, OtherCallOK, IsCall, Tidings
  <2>5. MMElem(k, Z, K, t, 2)
    BY <1>1, <1>3, <2>2, <2>3 DEF MMElem, SysCallOK, XitOK, IsCall
  <2>6. ~IsReply(a) /\ a.m.type # "SYS_ENDSIG" /\ b.m.type # "SYS_ENDSIG"
    BY <2>2 DEF IsReply, IsCall
  <2> QED
    BY <2>2, <2>4, <2>5, <2>6, PlanTwo
<1>5. CASE m.type = "EXEC"
  <2>1. t = <<Call(SYSTASK, Message("SYS_EXEC", m.src, m.i2, 0))>>
    BY <1>5 DEF MMPlans
  <2>2. PICK a : a = Call(SYSTASK, Message("SYS_EXEC", m.src, m.i2, 0))
    OBVIOUS
  <2>3. /\ a \in Steps /\ a.how = "sendrec" /\ a.to = SYSTASK /\ a.m.type = "SYS_EXEC"
        /\ a.m.i1 = m.src
    <3>1. "SYS_EXEC" \in MessTypes
      BY DEF MessTypes, SysRequests
    <3> QED
      BY <1>1, <1>2, <2>2, <3>1, CallFacts
  <2> HIDE <2>2
  <2>4. t = <<a>> /\ t[1] = a /\ Len(t) = 1
    BY <2>1, <2>2
  <2>5. m.src \notin Z
    BY <1>5 DEF Asked
  <2>6. MMElem(k, Z, K, t, 1)
    BY <1>1, <2>3, <2>4, <2>5 DEF MMElem, SysCallOK, ExecOK, IsCall
  <2> QED
    BY <2>3, <2>4, <2>6, PlanOne
<1>6. CASE m.type = "PAUSE"
  <2>1. t = << >>
    BY <1>6 DEF MMPlans
  <2> QED
    BY <2>1 DEF PlanFor, MMPlan, RepliesOnce, Ends
<1>7. ASSUME m.type # "PAUSE", NEW a \in Steps, NEW b, t = <<a, b>>, ~IsReply(a),
             b \in {SendResult(m.src)} \cup {Send(m.src, r) : r \in Int},
             MMElem(k, Z, K, t, 1), a.m.type # "SYS_ENDSIG"
      PROVE  PlanFor(k, Z, K, t)
  <2>1. t[2] = b
    BY <1>7
  <2>2. MMElem(k, Z, K, t, 2) /\ b \in Steps /\ b.m.type # "SYS_ENDSIG"
    BY <1>7, <2>1, AnswerElem
  <2> QED
    BY <1>7, <2>2, PlanTwo
<1>8. ASSUME m.type # "PAUSE", NEW b, t = <<b>>,
             b \in {SendResult(m.src)} \cup {Send(m.src, r) : r \in Int}
      PROVE  PlanFor(k, Z, K, t)
  <2>1. t[1] = b
    BY <1>8
  <2>2. MMElem(k, Z, K, t, 1) /\ b \in Steps /\ b.m.type # "SYS_ENDSIG"
    BY <1>8, <2>1, AnswerElem
  <2> QED
    BY <1>8, <2>2, PlanOne
<1>9. CASE m.type = "ALARM"
  <2>1. t = <<Call(CLOCK, Message("SET_ALARM", m.src, 1, 0)), Send(m.src, 0)>>
    BY <1>9 DEF MMPlans
  <2>2. PICK a : a = Call(CLOCK, Message("SET_ALARM", m.src, 1, 0))
    OBVIOUS
  <2>3. /\ a \in Steps /\ a.how = "sendrec" /\ a.to = CLOCK /\ a.m.type = "SET_ALARM"
        /\ a.m.i1 = m.src
    <3>1. "SET_ALARM" \in MessTypes
      BY DEF MessTypes
    <3> QED
      BY <1>1, <1>2, <2>2, <3>1, CallFacts
  <2> HIDE <2>2
  <2>4. t = <<a, Send(m.src, 0)>> /\ t[1] = a
    BY <2>1, <2>2
  <2>5. MMElem(k, Z, K, t, 1)
    BY <1>1, <1>3, <2>3, <2>4 DEF MMElem, OtherCallOK
  <2>6. ~IsReply(a)
    BY <2>3 DEF IsReply
  <2> QED
    BY <1>1, <1>7, <1>9, <2>3, <2>4, <2>5, <2>6
<1>10. CASE m.type = "GETPRI"
  <2>1. t = <<Call(SYSTASK, Message("SYS_GETPRI", m.i1, 0, 0)), SendResult(m.src)>>
    BY <1>10 DEF MMPlans
  <2>2. PICK a : a = Call(SYSTASK, Message("SYS_GETPRI", m.i1, 0, 0))
    OBVIOUS
  <2>3. a \in Steps /\ a.how = "sendrec" /\ a.to = SYSTASK /\ a.m.type = "SYS_GETPRI"
    <3>1. "SYS_GETPRI" \in MessTypes
      BY DEF MessTypes, SysRequests
    <3> QED
      BY <1>1, <1>2, <2>2, <3>1, CallFacts
  <2> HIDE <2>2
  <2>4. t = <<a, SendResult(m.src)>> /\ t[1] = a
    BY <2>1, <2>2
  <2>5. MMElem(k, Z, K, t, 1)
    BY <2>3, <2>4 DEF MMElem, SysCallOK
  <2>6. ~IsReply(a)
    BY <2>3 DEF IsReply
  <2> QED
    BY <1>1, <1>7, <1>10, <2>3, <2>4, <2>5, <2>6
<1>11. CASE m.type = "SETPRI"
  <2>1. t = <<Call(SYSTASK, Message("SYS_SETPRI", m.i1, m.i2, 0)), Send(m.src, 0)>>
    BY <1>11 DEF MMPlans
  <2>2. PICK a : a = Call(SYSTASK, Message("SYS_SETPRI", m.i1, m.i2, 0))
    OBVIOUS
  <2>3. a \in Steps /\ a.how = "sendrec" /\ a.to = SYSTASK /\ a.m.type = "SYS_SETPRI"
    <3>1. "SYS_SETPRI" \in MessTypes
      BY DEF MessTypes, SysRequests
    <3> QED
      BY <1>1, <1>2, <2>2, <3>1, CallFacts
  <2> HIDE <2>2
  <2>4. t = <<a, Send(m.src, 0)>> /\ t[1] = a
    BY <2>1, <2>2
  <2>5. MMElem(k, Z, K, t, 1)
    BY <2>3, <2>4 DEF MMElem, SysCallOK
  <2>6. ~IsReply(a)
    BY <2>3 DEF IsReply
  <2> QED
    BY <1>1, <1>7, <1>11, <2>3, <2>4, <2>5, <2>6
<1>12. CASE m.type = "RESUME"
  <2>1. t = IF "P_STOP" \notin k.p_flags[m.i1] THEN <<Send(m.src, -3)>>
            ELSE <<Call(SYSTASK, Message("SYS_TRACE", m.i1, T_RESUME, 0)), Send(m.src, 0)>>
    BY <1>12 DEF MMPlans
  <2>2. CASE "P_STOP" \notin k.p_flags[m.i1]
    BY <1>1, <1>8, <1>12, <2>1, <2>2
  <2>3. CASE "P_STOP" \in k.p_flags[m.i1]
    <3>1. PICK a : a = Call(SYSTASK, Message("SYS_TRACE", m.i1, T_RESUME, 0))
      OBVIOUS
    <3>2. /\ a \in Steps /\ a.how = "sendrec" /\ a.to = SYSTASK /\ a.m.type = "SYS_TRACE"
          /\ a.m.i1 = m.i1 /\ a.m.i2 = T_RESUME
      <4>1. "SYS_TRACE" \in MessTypes /\ T_RESUME \in Int
        BY DEF MessTypes, SysRequests, T_RESUME
      <4>2. SYSTASK \in Procs /\ m.i1 \in Int /\ 0 \in Int
        BY <1>1, <1>2
      <4> QED
        BY <3>1, <4>1, <4>2, CallFacts
    <3> HIDE <3>1
    <3>3. t = <<a, Send(m.src, 0)>> /\ t[1] = a
      BY <2>1, <2>3, <3>1
    <3>4. MMElem(k, Z, K, t, 1)
      BY <1>1, <1>12, <2>3, <3>2, <3>3 DEF MMElem, SysCallOK, TraceOK, IsCall
    <3>5. ~IsReply(a)
      BY <3>2 DEF IsReply
    <3> QED
      BY <1>1, <1>7, <1>12, <3>2, <3>3, <3>4, <3>5
  <2> QED
    BY <2>2, <2>3
<1>13. CASE m.type = "KILL"
  <2>1. t = IF m.i1 \notin LiveUsers THEN <<Send(m.src, -3)>>
            ELSE IF m.i1 = m.src THEN ExitPlan(m.i1)
            ELSE ExitPlan(m.i1) \o <<Send(m.src, 0)>>
    BY <1>13 DEF MMPlans
  <2>2. CASE m.i1 \notin LiveUsers
    BY <1>1, <1>8, <1>13, <2>1, <2>2
  <2>3. ASSUME m.i1 \in LiveUsers PROVE PlanFor(k, Z, K, t)
    <3>1. ~isemptyp(k, m.i1) /\ m.i1 \in UserSlots
      <4>1. isuserp(k, m.i1) /\ m.i1 \in UserSlots
        BY <2>3 DEF LiveUsers
      <4> QED
        BY <4>1 DEF isuserp, isemptyp, PPRI_USER, PPRI_NONE
    <3>2. PICK a \in Steps, b \in Steps :
            /\ ExitPlan(m.i1) = <<a, b>> /\ IsCall(a, "TELL_EXIT") /\ a.m.i1 = m.i1 /\ a.to = FS
            /\ IsCall(b, "SYS_XIT") /\ b.m.i2 = m.i1 /\ b.to = SYSTASK
      BY <3>1, ExitSteps
    <3>3. ~IsReply(a) /\ ~IsReply(b) /\ a.m.type # "SYS_ENDSIG" /\ b.m.type # "SYS_ENDSIG"
      BY <3>2 DEF IsReply, IsCall
    <3>4. CASE m.i1 = m.src
      <4>1. t = <<a, b>>
        BY <2>1, <2>3, <3>2, <3>4
      <4>2. t[1] = a /\ t[2] = b /\ DOMAIN t = {1, 2}
        BY <4>1
      <4>3. MMElem(k, Z, K, t, 1)
        BY <3>2, <4>2 DEF MMElem, OtherCallOK, IsCall, Tidings
      <4>4. MMElem(k, Z, K, t, 2)
        BY <3>1, <3>2, <4>2 DEF MMElem, SysCallOK, XitOK, IsCall
      <4> QED
        BY <3>3, <4>1, <4>3, <4>4, PlanTwo
    <3>5. CASE m.i1 # m.src
      <4>1. PICK c : c = Send(m.src, 0)
        OBVIOUS
      <4>2. c \in Steps
        BY <1>1, <4>1, StepFacts
      <4>3. t = <<a, b>> \o <<c>>
        <5>1. t = ExitPlan(m.i1) \o <<c>>
          BY <2>1, <2>3, <3>5, <4>1
        <5> QED
          BY <3>2, <5>1
      <4>4. t \in Seq(Steps) /\ DOMAIN t = {1, 2, 3} /\ t[1] = a /\ t[2] = b /\ t[3] = c
        <5>1. PICK x, y : x = <<a, b>> /\ y = <<c>>
          OBVIOUS
        <5>2. /\ x \in Seq(Steps) /\ y \in Seq(Steps) /\ Len(x) = 2 /\ Len(y) = 1
              /\ x[1] = a /\ x[2] = b /\ y[1] = c
          BY <4>2, <5>1
        <5>3. t = x \o y
          BY <4>3, <5>1
        <5> HIDE <5>1
        <5>4. t \in Seq(Steps) /\ Len(t) = 3 /\ t[1] = a /\ t[2] = b /\ t[3] = c
          <6>1. 1 \in 1..Len(x) /\ 2 \in 1..Len(x) /\ 1 \in 1..Len(y)
            BY <5>2
          <6>2. /\ t \in Seq(Steps) /\ Len(t) = Len(x) + Len(y)
                /\ \A i \in 1..Len(x) : t[i] = x[i]
                /\ \A i \in 1..Len(y) : t[Len(x) + i] = y[i]
            BY <5>2, <5>3, Joined
          <6>3. t[1] = a /\ t[2] = b
            BY <5>2, <6>1, <6>2
          <6>4. Len(x) + 1 = 3 /\ Len(x) + Len(y) = 3
            BY <5>2
          <6>5. t[Len(x) + 1] = y[1]
            BY <6>1, <6>2
          <6>6. t[3] = c
            BY <5>2, <6>4, <6>5
          <6>7. Len(t) = 3
            BY <6>2, <6>4
          <6> QED
            BY <6>2, <6>3, <6>6, <6>7
        <5> QED
          BY <5>4
      <4>5. MMElem(k, Z, K, t, 3) /\ IsReply(c) /\ c.m.type # "SYS_ENDSIG" /\ c.to = m.src
        <5>1. t[3] \in {SendResult(m.src)} \cup {Send(m.src, r) : r \in Int}
          BY <1>1, <4>1, <4>4
        <5>2. c.to = m.src
          BY <1>1, <4>1, StepFacts
        <5>3. m.type # "PAUSE"
          BY <1>13
        <5>4. MMElem(k, Z, K, t, 3) /\ IsReply(t[3]) /\ t[3].m.type # "SYS_ENDSIG"
          BY <5>1, <5>3, AnswerElem
        <5> QED
          BY <4>4, <5>2, <5>4
      <4> HIDE <4>1, <4>3
      <4>6. MMElem(k, Z, K, t, 1)
        BY <3>2, <4>4 DEF MMElem, OtherCallOK, IsCall, Tidings
      <4>7. MMElem(k, Z, K, t, 2)
        BY <3>1, <3>2, <3>5, <4>4, <4>5 DEF MMElem, SysCallOK, XitOK, IsCall
      <4>8. RepliesOnce(t)
        BY <3>3, <4>4 DEF RepliesOnce
      <4>9. MMPlan(k, Z, K, t)
        BY <4>4, <4>5, <4>6, <4>7, <4>8 DEF MMPlan
      <4>10. \A u : Ends(t, u) = {}
        BY <3>3, <4>4, <4>5 DEF Ends
      <4> QED
        BY <4>4, <4>9, <4>10 DEF PlanFor
    <3> QED
      BY <3>4, <3>5
  <2> QED
    BY <2>2, <2>3
<1> QED
  BY <1>1, <1>4, <1>5, <1>6, <1>9, <1>10, <1>11, <1>12, <1>13 DEF MMCalls
\* Sequences of three and two steps, one after the other
LEMMA ThreeAndTwo ==
  ASSUME NEW S, NEW a \in S, NEW b \in S, NEW c \in S, NEW d \in S, NEW e \in S,
         NEW t, t = <<a, b, c>> \o <<d, e>>
  PROVE  /\ t \in Seq(S) /\ DOMAIN t = 1..5
         /\ t[1] = a /\ t[2] = b /\ t[3] = c /\ t[4] = d /\ t[5] = e
<1>1. PICK x, y : x = <<a, b, c>> /\ y = <<d, e>>
  OBVIOUS
<1>2. /\ x \in Seq(S) /\ y \in Seq(S) /\ Len(x) = 3 /\ Len(y) = 2
      /\ x[1] = a /\ x[2] = b /\ x[3] = c /\ y[1] = d /\ y[2] = e
  BY <1>1
<1>3. t = x \o y
  BY <1>1
<1> HIDE <1>1
<1>4. /\ t \in Seq(S) /\ Len(t) = 5
      /\ t[1] = a /\ t[2] = b /\ t[3] = c /\ t[4] = d /\ t[5] = e
  BY <1>2, <1>3, Joined
<1> QED
  BY <1>4

\* The slot and the pid that a fork takes
ForkFor(who, child, pid) ==
  /\ who \in UserSlots /\ Answerable(k, who, MM)
  /\ child \in UserSlots /\ isemptyp(k, child)
  /\ \A p \in UserSlots : p < child => ~isemptyp(k, p)
  /\ \A p \in UserSlots : ~isemptyp(k, p) => k.p_pid[p] # pid

\* A request that makes a process, with all that comes after it
ForkStep(a, who, child, pid) ==
  /\ a \in Steps /\ IsCall(a, "SYS_FORK") /\ a.to = SYSTASK
  /\ a.m.i1 = who /\ a.m.i2 = child /\ a.m.i3 = pid
TellStep(b) == b \in Steps /\ IsCall(b, "TELL_FORK") /\ b.to = FS
MapStep(c, child) ==
  c \in Steps /\ IsCall(c, "SYS_NEWMAP") /\ c.to = SYSTASK /\ c.m.i1 = child
AnswerStep(d) == d \in Steps /\ d.how = "send" /\ d.m.type = "REPLY"

\* The plan for FORK
LEMMA ForkPlan ==
  ASSUME NEW Z, NEW K, NEW who, NEW child, NEW pid, ForkFor(who, child, pid),
         NEW a, ForkStep(a, who, child, pid), NEW b, TellStep(b), NEW c, MapStep(c, child),
         NEW d, AnswerStep(d), NEW e, AnswerStep(e),
         \/ d.to = who /\ e.to = child
         \/ d.to = child /\ e.to = who,
         NEW t, t = <<a, b, c>> \o <<d, e>>
  PROVE  PlanFor(k, Z, K, t)
<1>1. a \in Steps /\ b \in Steps /\ c \in Steps /\ d \in Steps /\ e \in Steps
  BY DEF ForkStep, TellStep, MapStep, AnswerStep
<1>2. /\ t \in Seq(Steps) /\ DOMAIN t = 1..5
      /\ t[1] = a /\ t[2] = b /\ t[3] = c /\ t[4] = d /\ t[5] = e
  BY <1>1, ThreeAndTwo
<1>3. who # child
  BY DEF ForkFor, Answerable
<1>4. /\ ~IsReply(a) /\ ~IsReply(b) /\ ~IsReply(c) /\ IsReply(d) /\ IsReply(e)
      /\ d.how # "result" /\ e.how # "result"
      /\ d.m.type = "REPLY" /\ e.m.type = "REPLY"
  BY DEF ForkStep, TellStep, MapStep, AnswerStep, IsCall, IsReply
<1>5. DOMAIN t = {1, 2, 3, 4, 5}
  BY <1>2
<1>6. Kid(t, child) /\ t # << >>
  <2>1. t # << >>
    BY <1>5
  <2> QED
    BY <1>2, <2>1 DEF Kid, ForkStep
<1>7. MMElem(k, Z, K, t, 1)
  <2>1. \A j \in DOMAIN t \ {1} :
          IsReply(t[j]) \/ IsCall(t[j], "TELL_FORK") \/ IsCall(t[j], "SYS_NEWMAP")
    BY <1>2, <1>4, <1>5 DEF TellStep, MapStep
  <2>2. ForkOK(k, t, 1)
    BY <1>2, <2>1 DEF ForkOK, ForkStep, ForkFor
  <2> QED
    BY <1>2, <2>2 DEF MMElem, SysCallOK, ForkStep, IsCall
<1>8. MMElem(k, Z, K, t, 2)
  BY <1>2 DEF MMElem, OtherCallOK, TellStep, IsCall, Tidings
<1>9. MMElem(k, Z, K, t, 3)
  BY <1>2, <1>6 DEF MMElem, SysCallOK, NewmapOK, MapStep, IsCall, ForkFor
<1>10. ASSUME NEW i \in {4, 5} PROVE MMElem(k, Z, K, t, i)
  <2>1. t[i].to \in UserSlots /\ (Answerable(k, t[i].to, MM) \/ (i # 1 /\ Kid(t, t[i].to)))
    BY <1>2, <1>6, <1>10 DEF ForkFor
  <2>2. IsReply(t[i]) /\ t[i].how # "result" /\ t[i].m.type = "REPLY"
    BY <1>2, <1>4, <1>10
  <2> QED
    BY <2>1, <2>2 DEF MMElem, ReplyOK
<1>11. RepliesOnce(t)
  <2>1. ASSUME NEW i \in DOMAIN t, NEW j \in DOMAIN t, IsReply(t[i]), IsReply(t[j]),
               t[i].to = t[j].to
        PROVE  i = j
    <3>1. i \in {4, 5} /\ j \in {4, 5}
      BY <1>2, <1>4, <1>5, <2>1
    <3> QED
      BY <1>2, <1>3, <2>1, <3>1
  <2> QED
    BY <2>1 DEF RepliesOnce
<1>12. MMPlan(k, Z, K, t)
  BY <1>5, <1>7, <1>8, <1>9, <1>10, <1>11 DEF MMPlan
<1>13. \A u : Ends(t, u) = {}
  <2>1. /\ a.m.type # "SYS_ENDSIG" /\ b.m.type # "SYS_ENDSIG" /\ c.m.type # "SYS_ENDSIG"
        /\ d.m.type # "SYS_ENDSIG" /\ e.m.type # "SYS_ENDSIG"
    BY DEF ForkStep, TellStep, MapStep, AnswerStep, IsCall
  <2>2. \A i \in DOMAIN t : t[i].m.type # "SYS_ENDSIG"
    BY <1>2, <1>5, <2>1
  <2> QED
    BY <2>2 DEF Ends
<1> QED
  BY <1>2, <1>12, <1>13 DEF PlanFor

\* The live users are those in use.
LEMMA LiveOnes ==
  ASSUME KInv(k)
  PROVE  \A p \in UserSlots : p \in LiveUsers <=> ~isemptyp(k, p)
<1>1. ASSUME NEW p \in UserSlots PROVE isuserp(k, p) <=> ~isemptyp(k, p)
  <2>1. Classed(k.p_priority)
    BY DEF KInv, Base
  <2>2. k.p_priority[p] \in {PPRI_NONE, PPRI_USER}
    BY <2>1 DEF Classed
  <2> QED
    BY <2>2 DEF isuserp, isemptyp, PPRI_NONE, PPRI_USER
<1> QED
  BY <1>1 DEF LiveUsers

\* The plans for FORK
LEMMA ForkPlansGood ==
  ASSUME NEW Z, NEW K, NEW m, Asked(m, Z), m.type = "FORK", load \in Workloads,
         NEW t \in MMPlans(m)
  PROVE  PlanFor(k, Z, K, t)
<1>1. m.src \in UserSlots /\ m.src \in Procs /\ Answerable(k, m.src, MM) /\ KInv(k)
  BY SystemProcs DEF Asked, AsksMM
<1>2. t \in ForkPlans(m.src)
  BY DEF MMPlans
<1>3. CASE FreeSlots = {} \/ FreePids = {}
  <2>1. PICK c : c = Send(m.src, -1)
    OBVIOUS
  <2>2. t = <<c>>
    BY <1>2, <1>3, <2>1 DEF ForkPlans
  <2>3. t[1] = c /\ -1 \in Int
    BY <2>2
  <2>4. t[1] \in {SendResult(m.src)} \cup {Send(m.src, r) : r \in Int}
    BY <2>1, <2>3
  <2> HIDE <2>1
  <2>5. MMElem(k, Z, K, t, 1) /\ t[1] \in Steps /\ t[1].m.type # "SYS_ENDSIG"
    BY <2>4, AnswerElem
  <2> QED
    BY <2>2, <2>3, <2>5, PlanOne
<1>4. CASE FreeSlots # {} /\ FreePids # {}
  <2>1. PICK child : child = Least(FreeSlots)
    OBVIOUS
  <2>2. PICK replies : replies = IF child < m.src THEN <<Send(child, 0), Send(m.src, 1)>>
                                 ELSE <<Send(m.src, 1), Send(child, 0)>>
    OBVIOUS
  <2>3. PICK pid \in FreePids :
          t = <<Call(SYSTASK, Message("SYS_FORK", m.src, child, pid)),
                Call(FS, Message("TELL_FORK", m.src, child, 0)),
                Call(SYSTASK, Message("SYS_NEWMAP", child, 0, 0))>> \o replies
    BY <1>2, <1>4, <2>1, <2>2 DEF ForkPlans
  <2>4. child \in UserSlots /\ isemptyp(k, child) /\ \A y \in FreeSlots : child <= y
    <3>1. FreeSlots \subseteq UserSlots /\ UserSlots \subseteq Nat
      BY ProcAssumption DEF FreeSlots, UserSlots, LOW_USER
    <3>2. child \in FreeSlots /\ \A y \in FreeSlots : child <= y
      BY <1>4, <2>1, <3>1, LeastExists
    <3> QED
      BY <3>1, <3>2 DEF FreeSlots
  <2>5. pid \in Int /\ \A p \in UserSlots : ~isemptyp(k, p) => k.p_pid[p] # pid
    <3>1. pid \in load.pids /\ \A p \in LiveUsers : k.p_pid[p] # pid
      BY DEF FreePids
    <3>2. load.pids \subseteq Nat
      BY KernelAssumption
    <3> QED
      BY <1>1, <3>1, <3>2, LiveOnes
  <2>6. ForkFor(m.src, child, pid)
    <3>1. ASSUME NEW p \in UserSlots, p < child PROVE ~isemptyp(k, p)
      <4>1. p \in Int /\ child \in Int
        BY <2>4, ProcAssumption DEF UserSlots, LOW_USER
      <4>2. ~(child <= p)
        BY <3>1, <4>1
      <4> QED
        BY <2>4, <4>2 DEF FreeSlots
    <3> QED
      BY <1>1, <2>4, <2>5, <3>1 DEF ForkFor
  <2>7. PICK a, b, c : /\ a = Call(SYSTASK, Message("SYS_FORK", m.src, child, pid))
                       /\ b = Call(FS, Message("TELL_FORK", m.src, child, 0))
                       /\ c = Call(SYSTASK, Message("SYS_NEWMAP", child, 0, 0))
    OBVIOUS
  <2>8. /\ SYSTASK \in Procs /\ FS \in Procs /\ m.src \in Int /\ child \in Int /\ child \in Procs
        /\ 0 \in Int /\ 1 \in Int
        /\ "SYS_FORK" \in MessTypes /\ "TELL_FORK" \in MessTypes /\ "SYS_NEWMAP" \in MessTypes
    <3>1. m.src \in Int /\ child \in Int
      BY <1>1, <2>4, ProcAssumption DEF UserSlots, LOW_USER
    <3>2. "SYS_FORK" \in MessTypes /\ "TELL_FORK" \in MessTypes /\ "SYS_NEWMAP" \in MessTypes
      BY DEF MessTypes, SysRequests, Tidings
    <3> QED
      BY <2>4, <3>1, <3>2, SystemProcs
  <2>9. ForkStep(a, m.src, child, pid)
    <3>1. /\ a \in Steps /\ a.how = "sendrec" /\ a.to = SYSTASK /\ a.m.type = "SYS_FORK"
          /\ a.m.i1 = m.src /\ a.m.i2 = child /\ a.m.i3 = pid
      BY <2>5, <2>7, <2>8, CallFacts
    <3> QED
      BY <3>1 DEF ForkStep, IsCall
  <2>10. TellStep(b)
    <3>1. b = Call(FS, Message("TELL_FORK", m.src, child, 0))
      BY <2>7
    <3>2. b \in Steps /\ b.how = "sendrec" /\ b.to = FS /\ b.m.type = "TELL_FORK"
      BY <2>8, <3>1, CallFacts
    <3> QED
      BY <3>2 DEF TellStep, IsCall
  <2>11. MapStep(c, child)
    <3>1. /\ c \in Steps /\ c.how = "sendrec" /\ c.to = SYSTASK /\ c.m.type = "SYS_NEWMAP"
          /\ c.m.i1 = child
      BY <2>7, <2>8, CallFacts
    <3> QED
      BY <3>1 DEF MapStep, IsCall
  <2>12. PICK x, y : x = Send(m.src, 1) /\ y = Send(child, 0)
    OBVIOUS
  <2>13. AnswerStep(x) /\ AnswerStep(y) /\ x.to = m.src /\ y.to = child
    BY <1>1, <2>8, <2>12, StepFacts DEF AnswerStep
  <2>14. \/ t = <<a, b, c>> \o <<x, y>>
         \/ t = <<a, b, c>> \o <<y, x>>
    BY <2>2, <2>3, <2>7, <2>12
  <2> HIDE <2>1, <2>2, <2>3, <2>7, <2>12
  <2>15. CASE t = <<a, b, c>> \o <<x, y>>
    BY <2>6, <2>9, <2>10, <2>11, <2>13, <2>15, ForkPlan
  <2>16. CASE t = <<a, b, c>> \o <<y, x>>
    BY <2>6, <2>9, <2>10, <2>11, <2>13, <2>16, ForkPlan
  <2> QED
    BY <2>14, <2>15, <2>16
<1> QED
  BY <1>3, <1>4
\* The report that one signal of p is finished
EndStep(p) == Call(SYSTASK, Message("SYS_ENDSIG", p, 0, 0))

\* The steps x, c reports and the steps w
Shaped(t, x, c, p, w) ==
  /\ t \in Seq(Steps) /\ DOMAIN t = 1..(Len(x) + c + Len(w))
  /\ \A i \in 1..Len(x) : t[i] = x[i]
  /\ \A i \in (Len(x) + 1)..(Len(x) + c) : t[i] = EndStep(p)
  /\ \A i \in (Len(x) + c + 1)..(Len(x) + c + Len(w)) : t[i] = w[i - (Len(x) + c)]

\* What a plan that ends with reports is made of
LEMMA PlanShaped ==
  ASSUME NEW x \in Seq(Steps), NEW w \in Seq(Steps), NEW c \in Nat, NEW p, EndStep(p) \in Steps,
         NEW ends, ends = [i \in 1..c |-> EndStep(p)],
         NEW t, t = (x \o ends) \o w
  PROVE  Shaped(t, x, c, p, w)
<1>1. ends \in Seq(Steps) /\ Len(ends) = c /\ \A i \in 1..c : ends[i] = EndStep(p)
  <2>1. ends \in Seq(Steps)
    OBVIOUS
  <2> QED
    BY <2>1
<1>2. Len(x) \in Nat /\ Len(w) \in Nat
  OBVIOUS
<1>3. PICK y : y = x \o ends
  OBVIOUS
<1>4. /\ y \in Seq(Steps) /\ Len(y) = Len(x) + c
      /\ \A i \in 1..Len(x) : y[i] = x[i]
      /\ \A i \in 1..(Len(x) + c) : i > Len(x) => y[i] = ends[i - Len(x)]
  BY <1>1, <1>3, Joined
<1>5. /\ t \in Seq(Steps) /\ Len(t) = Len(y) + Len(w)
      /\ \A i \in 1..Len(y) : t[i] = y[i]
      /\ \A i \in 1..(Len(y) + Len(w)) : i > Len(y) => t[i] = w[i - Len(y)]
  BY <1>3, <1>4, Joined
<1>6. DOMAIN t = 1..(Len(x) + c + Len(w))
  BY <1>4, <1>5, LenProperties
<1>7. ASSUME NEW i \in 1..Len(x) PROVE t[i] = x[i]
  BY <1>2, <1>4, <1>5, <1>7
<1>8. ASSUME NEW i \in (Len(x) + 1)..(Len(x) + c) PROVE t[i] = EndStep(p)
  <2>1. i \in 1..(Len(x) + c) /\ i > Len(x) /\ i - Len(x) \in 1..c
    BY <1>2, <1>8
  <2>2. t[i] = y[i] /\ y[i] = ends[i - Len(x)]
    BY <1>4, <1>5, <2>1
  <2> QED
    BY <1>1, <2>1, <2>2
<1>9. ASSUME NEW i \in (Len(x) + c + 1)..(Len(x) + c + Len(w))
      PROVE  t[i] = w[i - (Len(x) + c)]
  <2>1. i \in 1..(Len(y) + Len(w)) /\ i > Len(y)
    BY <1>2, <1>4, <1>9
  <2> QED
    BY <1>4, <1>5, <2>1
<1> QED
  BY <1>5, <1>6, <1>7, <1>8, <1>9 DEF Shaped

\* How many reports there are
EndsAre(t, p, c) == \A u : Cardinality(Ends(t, u)) = IF u = p THEN c ELSE 0

\* The reports of such a plan
LEMMA ShapedEnds ==
  ASSUME NEW x \in Seq(Steps), NEW w \in Seq(Steps), NEW c \in Nat, NEW p \in UserSlots,
         NEW t, Shaped(t, x, c, p, w),
         EndsOne(EndStep(p), p),
         \A i \in 1..Len(x) : x[i].m.type # "SYS_ENDSIG",
         \A i \in 1..Len(w) : w[i].m.type # "SYS_ENDSIG"
  PROVE  EndsAre(t, p, c)
<1>1. PICK a \in Nat, b \in Nat : a = Len(x) /\ b = Len(w)
  OBVIOUS
<1>2. /\ DOMAIN t = 1..(a + c + b)
      /\ \A i \in 1..a : t[i].m.type # "SYS_ENDSIG"
      /\ \A i \in (a + 1)..(a + c) : t[i] = EndStep(p)
  BY <1>1 DEF Shaped
<1>3. \A i \in (a + c + 1)..(a + c + b) : t[i].m.type # "SYS_ENDSIG"
  <2>1. ASSUME NEW i \in (a + c + 1)..(a + c + b) PROVE t[i].m.type # "SYS_ENDSIG"
    <3>1. i - (a + c) \in 1..b
      BY <1>1, <2>1
    <3>2. t[i] = w[i - (a + c)]
      BY <1>1, <2>1 DEF Shaped
    <3> QED
      BY <1>1, <3>1, <3>2
  <2> QED
    BY <2>1
<1>4. \A i \in DOMAIN t : t[i].m.type = "SYS_ENDSIG" => i \in (a + 1)..(a + c)
  BY <1>1, <1>2, <1>3
<1>5. Ends(t, p) = (a + 1)..(a + c)
  <2>1. \A i \in (a + 1)..(a + c) : i \in DOMAIN t
    BY <1>1, <1>2
  <2> QED
    BY <1>2, <1>4, <2>1 DEF Ends, EndsOne
<1>6. \A u : u # p => Ends(t, u) = {}
  BY <1>2, <1>4 DEF Ends, EndsOne
<1>7. Cardinality((a + 1)..(a + c)) = c
  <2>1. a + 1 \in Int /\ a + c \in Int
    BY <1>1
  <2>2. Cardinality((a + 1)..(a + c)) =
          IF a + 1 > a + c THEN 0 ELSE (a + c) - (a + 1) + 1
    BY <2>1, FS_Interval
  <2> QED
    BY <1>1, <2>2
<1> QED
  BY <1>5, <1>6, <1>7, FS_EmptySet DEF EndsAre

\* Such a plan is possible when its first steps are.
LEMMA ShapedPlan ==
  ASSUME NEW Z, NEW K, NEW x \in Seq(Steps), NEW w \in Seq(Steps), NEW c \in Nat,
         NEW p \in UserSlots, NEW t, Shaped(t, x, c, p, w),
         IsCall(EndStep(p), "SYS_ENDSIG"), EndStep(p).to = SYSTASK, EndStep(p).m.i1 = p,
         \A i \in 1..Len(x) : ~IsReply(x[i]) /\ MMElem(k, Z, K, t, i),
         Len(w) <= 1,
         \A i \in 1..Len(w) :
           /\ w[i].how = "send" /\ w[i].m.type = "REPLY" /\ w[i].to \in UserSlots
           /\ Answerable(k, w[i].to, MM)
  PROVE  MMPlan(k, Z, K, t)
<1>1. PICK a \in Nat, b \in Nat : a = Len(x) /\ b = Len(w)
  OBVIOUS
<1>2. /\ DOMAIN t = 1..(a + c + b) /\ b <= 1
      /\ \A i \in 1..a : ~IsReply(t[i]) /\ MMElem(k, Z, K, t, i)
      /\ \A i \in (a + 1)..(a + c) : t[i] = EndStep(p)
  BY <1>1 DEF Shaped
<1>3. ASSUME NEW i \in DOMAIN t, i > a + c
      PROVE  i = a + c + 1 /\ MMElem(k, Z, K, t, i)
  <2>1. i = a + c + 1 /\ b = 1 /\ i - (a + c) = 1
    BY <1>1, <1>2, <1>3
  <2>2. t[i] = w[1]
    <3>1. i \in (a + c + 1)..(a + c + b)
      BY <1>1, <1>2, <1>3
    <3>2. t[i] = w[i - (a + c)]
      BY <1>1, <3>1 DEF Shaped
    <3> QED
      BY <2>1, <3>2
  <2>3. /\ t[i].how = "send" /\ t[i].m.type = "REPLY" /\ t[i].to \in UserSlots
        /\ Answerable(k, t[i].to, MM)
    BY <1>1, <2>1, <2>2
  <2>4. ReplyOK(k, Z, t, i)
    BY <2>3 DEF ReplyOK, IsReply
  <2> QED
    BY <2>1, <2>4 DEF MMElem
<1>4. ASSUME NEW i \in (a + 1)..(a + c) PROVE MMElem(k, Z, K, t, i) /\ ~IsReply(t[i])
  <2>1. t[i].how = "sendrec" /\ t[i].to = SYSTASK /\ t[i].m.type = "SYS_ENDSIG" /\ t[i].m.i1 = p
    BY <1>2, <1>4 DEF IsCall
  <2> QED
    BY <2>1 DEF MMElem, SysCallOK, IsReply
<1>5. \A i \in DOMAIN t : i \in Int /\ (i \in 1..a \/ i \in (a + 1)..(a + c) \/ i > a + c)
  BY <1>1, <1>2
<1>6. \A i \in DOMAIN t : MMElem(k, Z, K, t, i)
  BY <1>2, <1>3, <1>4, <1>5
<1>7. \A i \in DOMAIN t : IsReply(t[i]) => i = a + c + 1
  BY <1>2, <1>3, <1>4, <1>5
<1>8. RepliesOnce(t)
  BY <1>7 DEF RepliesOnce
<1> QED
  BY <1>6, <1>8 DEF MMPlan
\* What a plan for the signals of p is like
SignalsPlan(p, c, Z, K, t) ==
  /\ t \in Seq(Steps) /\ MMPlan(k, Z, K, t)
  /\ \A u \in UserSlots : ~isemptyp(k, u) =>
       Cardinality(Ends(t, u)) = IF u = p THEN c ELSE 0

\* The step that reports a signal
LEMMA EndStepFacts ==
  ASSUME NEW p \in UserSlots
  PROVE  LET e == EndStep(p)
         IN /\ e \in Steps /\ IsCall(e, "SYS_ENDSIG") /\ e.to = SYSTASK /\ e.m.i1 = p
            /\ EndsOne(e, p)
<1>1. SYSTASK \in Procs /\ p \in Int /\ 0 \in Int /\ "SYS_ENDSIG" \in MessTypes
  <2>1. p \in Int
    BY ProcAssumption DEF UserSlots, LOW_USER
  <2>2. "SYS_ENDSIG" \in MessTypes
    BY DEF MessTypes, SysRequests
  <2> QED
    BY <2>1, <2>2, SystemProcs
<1>2. PICK e : e = EndStep(p)
  OBVIOUS
<1>3. e = Call(SYSTASK, Message("SYS_ENDSIG", p, 0, 0))
  BY <1>2 DEF EndStep
<1>4. /\ e \in Steps /\ e.how = "sendrec" /\ e.to = SYSTASK /\ e.m.type = "SYS_ENDSIG"
      /\ e.m.i1 = p
  BY <1>1, <1>3, CallFacts
<1>5. /\ e \in Steps /\ IsCall(e, "SYS_ENDSIG") /\ e.to = SYSTASK /\ e.m.i1 = p
      /\ EndsOne(e, p)
  BY <1>4 DEF IsCall, EndsOne
<1> QED
  BY <1>2, <1>5

\* What the first steps x and the last steps w have to be
Fits(Z, K, t, x, w) ==
  /\ \A i \in 1..Len(x) : ~IsReply(x[i]) /\ MMElem(k, Z, K, t, i)
  /\ \A i \in 1..Len(x) : x[i].m.type # "SYS_ENDSIG"
  /\ Len(w) <= 1
  /\ \A i \in 1..Len(w) :
       /\ w[i].how = "send" /\ w[i].m.type = "REPLY" /\ w[i].to \in UserSlots
       /\ Answerable(k, w[i].to, MM)

\* Then the plan is a possible one.
LEMMA ShapedGood ==
  ASSUME NEW Z, NEW K, NEW x \in Seq(Steps), NEW w \in Seq(Steps), NEW c \in Nat,
         NEW p \in UserSlots, NEW t, Shaped(t, x, c, p, w), Fits(Z, K, t, x, w)
  PROVE  SignalsPlan(p, c, Z, K, t)
<1>1. /\ IsCall(EndStep(p), "SYS_ENDSIG") /\ EndStep(p).to = SYSTASK /\ EndStep(p).m.i1 = p
      /\ EndsOne(EndStep(p), p)
  BY EndStepFacts
<1>2. \A i \in 1..Len(x) : ~IsReply(x[i]) /\ MMElem(k, Z, K, t, i)
  BY DEF Fits
<1>3. \A i \in 1..Len(x) : x[i].m.type # "SYS_ENDSIG"
  BY DEF Fits
<1>4. Len(w) <= 1
  BY DEF Fits
<1>5. \A i \in 1..Len(w) :
        /\ w[i].how = "send" /\ w[i].m.type = "REPLY" /\ w[i].to \in UserSlots
        /\ Answerable(k, w[i].to, MM)
  BY DEF Fits
<1>6. \A i \in 1..Len(w) : w[i].m.type # "SYS_ENDSIG"
  BY <1>5
<1>7. MMPlan(k, Z, K, t)
  BY <1>1, <1>2, <1>4, <1>5, ShapedPlan
<1>8. EndsAre(t, p, c)
  BY <1>1, <1>3, <1>6, ShapedEnds
<1>9. t \in Seq(Steps)
  BY DEF Shaped
<1> QED
  BY <1>7, <1>8, <1>9 DEF SignalsPlan, EndsAre

\* One first step, which is possible wherever it is
LEMMA SignalOne ==
  ASSUME NEW Z, NEW K, NEW p \in UserSlots, NEW c \in Nat, NEW a \in Steps,
         a.how = "sendrec", a.m.type # "SYS_ENDSIG",
         \A t : t[1] = a => MMElem(k, Z, K, t, 1),
         NEW w \in Seq(Steps), Len(w) <= 1,
         \A i \in 1..Len(w) :
           /\ w[i].how = "send" /\ w[i].m.type = "REPLY" /\ w[i].to \in UserSlots
           /\ Answerable(k, w[i].to, MM),
         NEW ends, ends = [i \in 1..c |-> EndStep(p)],
         NEW t, t = (<<a>> \o ends) \o w
  PROVE  SignalsPlan(p, c, Z, K, t)
<1>1. PICK x : x = <<a>>
  OBVIOUS
<1>2. x \in Seq(Steps) /\ Len(x) = 1 /\ x[1] = a
  BY <1>1
<1>3. t = (x \o ends) \o w
  BY <1>1
<1> HIDE <1>1
<1>4. Shaped(t, x, c, p, w)
  BY <1>2, <1>3, EndStepFacts, PlanShaped
<1>5. t[1] = a
  BY <1>2, <1>4 DEF Shaped
<1>6. \A i \in 1..Len(x) : ~IsReply(x[i]) /\ MMElem(k, Z, K, t, i) /\ x[i].m.type # "SYS_ENDSIG"
  <2>1. MMElem(k, Z, K, t, 1)
    BY <1>5
  <2>2. ~IsReply(a)
    BY DEF IsReply
  <2>3. \A i \in 1..Len(x) : i = 1
    BY <1>2
  <2> QED
    BY <1>2, <2>1, <2>2, <2>3
<1>7. Fits(Z, K, t, x, w)
  BY <1>6 DEF Fits
<1> QED
  BY <1>2, <1>4, <1>7, ShapedGood

\* Reports only
LEMMA SignalNone ==
  ASSUME NEW Z, NEW K, NEW p \in UserSlots, NEW c \in Nat,
         NEW t, t = [i \in 1..c |-> EndStep(p)]
  PROVE  SignalsPlan(p, c, Z, K, t)
<1>1. PICK x : x = << >>
  OBVIOUS
<1>2. x \in Seq(Steps) /\ Len(x) = 0
  BY <1>1
<1>3. t \in Seq(Steps)
  <2>1. EndStep(p) \in Steps
    BY EndStepFacts
  <2> QED
    BY <2>1
<1>4. t = (x \o t) \o x
  BY <1>1, <1>3, ConcatEmptySeq
<1> HIDE <1>1
<1>5. Shaped(t, x, c, p, x)
  BY <1>2, <1>4, EndStepFacts, PlanShaped
<1>6. \A i \in 1..Len(x) : FALSE
  BY <1>2
<1>7. Fits(Z, K, t, x, x)
  BY <1>2, <1>6 DEF Fits
<1> QED
  BY <1>2, <1>5, <1>7, ShapedGood

\* The end of the process first
LEMMA SignalKills ==
  ASSUME NEW Z, NEW K, NEW p \in UserSlots, ~isemptyp(k, p), NEW c \in Nat,
         NEW ends, ends = [i \in 1..c |-> EndStep(p)],
         NEW t, t = ExitPlan(p) \o ends
  PROVE  SignalsPlan(p, c, Z, K, t)
<1>1. PICK a \in Steps, b \in Steps :
        /\ ExitPlan(p) = <<a, b>> /\ IsCall(a, "TELL_EXIT") /\ a.m.i1 = p /\ a.to = FS
        /\ IsCall(b, "SYS_XIT") /\ b.m.i2 = p /\ b.to = SYSTASK
  BY ExitSteps
<1>2. PICK x : x = <<a, b>>
  OBVIOUS
<1>3. x \in Seq(Steps) /\ Len(x) = 2 /\ x[1] = a /\ x[2] = b
  BY <1>2
<1>4. t = x \o ends
  BY <1>1, <1>2
<1>5. PICK w : w = << >>
  OBVIOUS
<1>6. w \in Seq(Steps) /\ Len(w) = 0
  BY <1>5
<1> HIDE <1>2
<1>7. Shaped(t, x, c, p, w)
  <2>1. ends \in Seq(Steps)
    <3>1. EndStep(p) \in Steps
      BY EndStepFacts
    <3> QED
      BY <3>1
  <2>2. t = (x \o ends) \o w
    <3>1. x \o ends \in Seq(Steps)
      BY <1>3, <2>1
    <3> QED
      BY <1>4, <1>5, <3>1, ConcatEmptySeq
  <2> HIDE <1>5
  <2> QED
    BY <1>3, <1>6, <2>2, EndStepFacts, PlanShaped
<1> HIDE <1>5
<1>8. /\ t[1] = a /\ t[2] = b
      /\ \A j \in DOMAIN t : j > 2 => t[j] = EndStep(p)
  <2>1. DOMAIN t = 1..(2 + c)
    BY <1>3, <1>6, <1>7 DEF Shaped
  <2>2. \A i \in 3..(2 + c) : t[i] = EndStep(p)
    <3>1. \A i \in (Len(x) + 1)..(Len(x) + c) : t[i] = EndStep(p)
      BY <1>7 DEF Shaped
    <3>2. Len(x) + 1 = 3 /\ Len(x) + c = 2 + c
      BY <1>3
    <3> QED
      BY <3>1, <3>2
  <2>3. t[1] = a /\ t[2] = b
    BY <1>3, <1>7 DEF Shaped
  <2> QED
    BY <2>1, <2>2, <2>3
<1>9. MMElem(k, Z, K, t, 1)
  BY <1>1, <1>8 DEF MMElem, OtherCallOK, IsCall, Tidings
<1>10. MMElem(k, Z, K, t, 2)
  <2>1. \A j \in DOMAIN t : j > 2 => IsCall(t[j], "SYS_ENDSIG")
    BY <1>8, EndStepFacts
  <2>2. XitOK(k, K, t, 2)
    BY <1>1, <1>8, <2>1 DEF XitOK
  <2> QED
    BY <1>1, <1>8, <2>2 DEF MMElem, SysCallOK, IsCall
<1>11. \A i \in 1..Len(x) : ~IsReply(x[i]) /\ MMElem(k, Z, K, t, i) /\ x[i].m.type # "SYS_ENDSIG"
  <2>1. \A i \in 1..Len(x) : i = 1 \/ i = 2
    BY <1>3
  <2>2. ~IsReply(a) /\ ~IsReply(b) /\ a.m.type # "SYS_ENDSIG" /\ b.m.type # "SYS_ENDSIG"
    BY <1>1 DEF IsReply, IsCall
  <2> QED
    BY <1>3, <1>9, <1>10, <2>1, <2>2
<1>12. \A i \in 1..Len(w) : FALSE
  BY <1>6
<1>13. Fits(Z, K, t, x, w)
  BY <1>6, <1>11, <1>12 DEF Fits
<1> QED
  BY <1>3, <1>6, <1>7, <1>13, ShapedGood

\* The answer to a process that a signal wakes
LEMMA Woken ==
  ASSUME PausedOK(k, paused), NEW p \in UserSlots,
         NEW w, w = IF p \in paused THEN <<Send(p, -4)>> ELSE << >>
  PROVE  /\ w \in Seq(Steps) /\ Len(w) <= 1
         /\ \A i \in 1..Len(w) :
              /\ w[i].how = "send" /\ w[i].m.type = "REPLY" /\ w[i].to \in UserSlots
              /\ Answerable(k, w[i].to, MM)
<1>1. CASE p \notin paused
  BY <1>1
<1>2. CASE p \in paused
  <2>1. PICK e : e = Send(p, -4)
    OBVIOUS
  <2>2. e \in Steps /\ e.how = "send" /\ e.m.type = "REPLY" /\ e.to = p
    <3>1. p \in Procs /\ -4 \in Int
      BY SystemProcs
    <3> QED
      BY <2>1, <3>1, StepFacts
  <2>3. w = <<e>>
    BY <1>2, <2>1
  <2> HIDE <2>1
  <2>4. w \in Seq(Steps) /\ Len(w) = 1 /\ w[1] = e
    <3>1. e \in Steps
      BY <2>2
    <3> HIDE <2>2
    <3>2. \A y : y = <<e>> => y \in Seq(Steps) /\ Len(y) = 1 /\ y[1] = e
      BY <3>1
    <3> QED
      BY <2>3, <3>2
  <2>6. \A i \in 1..Len(w) : i = 1
    BY <2>4
  <2>5. Answerable(k, p, MM)
    BY <1>2 DEF PausedOK
  <2>7. e.to \in UserSlots /\ Answerable(k, e.to, MM)
    BY <2>2, <2>5
  <2>8. \A i \in 1..Len(w) : w[i] = e
    BY <2>4, <2>6
  <2>9. Len(w) <= 1
    BY <2>4
  <2> QED
    BY <2>2, <2>4, <2>7, <2>8, <2>9
<1> QED
  BY <1>1, <1>2

\* A request of the system task without conditions, or one to stop a process
LEMMA AnyElem ==
  ASSUME NEW Z, NEW K, NEW t, t[1].how = "sendrec", t[1].to = SYSTASK,
         \/ t[1].m.type = "SYS_SENDSIG"
         \/ t[1].m.type = "SYS_TRACE" /\ t[1].m.i1 \in UserSlots /\ t[1].m.i2 = T_STOP
  PROVE  MMElem(k, Z, K, t, 1)
<1> QED
  BY DEF MMElem, SysCallOK, TraceOK, IsCall
\* The plans for the signals MM was told of
LEMMA SignalPlansGood ==
  ASSUME KInv(k), PausedOK(k, paused), NEW K, NEW p \in UserSlots, NEW map, IsFiniteSet(map),
         NEW t \in SignalPlans(p, map)
  PROVE  SignalsPlan(p, Cardinality(map), paused, K, t) \/ (isemptyp(k, p) /\ t = << >>)
<1>1. PICK c \in Nat : c = Cardinality(map)
  BY FS_CardinalityType
<1>2. PICK ends : ends = [i \in 1..c |-> EndStep(p)]
  OBVIOUS
<1>3. ends = [i \in 1..Cardinality(map) |-> Call(SYSTASK, Message("SYS_ENDSIG", p, 0, 0))]
  BY <1>1, <1>2 DEF EndStep
<1>4. PICK w : w = IF p \in paused THEN <<Send(p, -4)>> ELSE << >>
  OBVIOUS
<1>5. /\ w \in Seq(Steps) /\ Len(w) <= 1
      /\ \A i \in 1..Len(w) :
           /\ w[i].how = "send" /\ w[i].m.type = "REPLY" /\ w[i].to \in UserSlots
           /\ Answerable(k, w[i].to, MM)
  BY <1>4, Woken
<1>6. PICK a, b : /\ a = Call(SYSTASK, Message("SYS_SENDSIG", p, 0, 0))
                  /\ b = Call(SYSTASK, Message("SYS_TRACE", p, T_STOP, 0))
  OBVIOUS
<1>7. \/ p \notin LiveUsers /\ t = << >>
      \/ /\ p \in LiveUsers
         /\ \/ t = (<<a>> \o ends) \o w
            \/ t = ends
            \/ t = ExitPlan(p) \o ends
            \/ t = (<<b>> \o ends) \o w
  BY <1>3, <1>4, <1>6 DEF SignalPlans
<1>8. p \in LiveUsers <=> ~isemptyp(k, p)
  BY LiveOnes
<1>9. /\ SYSTASK \in Procs /\ p \in Int /\ 0 \in Int /\ T_STOP \in Int
      /\ "SYS_SENDSIG" \in MessTypes /\ "SYS_TRACE" \in MessTypes
  <2>1. p \in Int
    BY ProcAssumption DEF UserSlots, LOW_USER
  <2>2. "SYS_SENDSIG" \in MessTypes /\ "SYS_TRACE" \in MessTypes /\ T_STOP \in Int
    BY DEF MessTypes, SysRequests, T_STOP
  <2> QED
    BY <2>1, <2>2, SystemProcs
<1>10. a \in Steps /\ a.how = "sendrec" /\ a.to = SYSTASK /\ a.m.type = "SYS_SENDSIG"
  <2>1. a = Call(SYSTASK, Message("SYS_SENDSIG", p, 0, 0))
    BY <1>6
  <2> QED
    BY <1>9, <2>1, CallFacts
<1>11. /\ b \in Steps /\ b.how = "sendrec" /\ b.to = SYSTASK /\ b.m.type = "SYS_TRACE"
       /\ b.m.i1 = p /\ b.m.i2 = T_STOP
  <2>1. b = Call(SYSTASK, Message("SYS_TRACE", p, T_STOP, 0))
    BY <1>6
  <2> QED
    BY <1>9, <2>1, CallFacts
<1> HIDE <1>3, <1>4, <1>6
<1>12. \A r : r[1] = a => MMElem(k, paused, K, r, 1)
  BY <1>10, AnyElem
<1>13. \A r : r[1] = b => MMElem(k, paused, K, r, 1)
  BY <1>11, AnyElem
<1>14. CASE p \notin LiveUsers
  BY <1>7, <1>8, <1>14
<1>15. CASE p \in LiveUsers /\ t = (<<a>> \o ends) \o w
  <2>1. SignalsPlan(p, c, paused, K, t)
    BY <1>2, <1>5, <1>10, <1>12, <1>15, SignalOne
  <2> QED
    BY <1>1, <2>1
<1>16. CASE p \in LiveUsers /\ t = ends
  <2>1. SignalsPlan(p, c, paused, K, t)
    BY <1>2, <1>16, SignalNone
  <2> QED
    BY <1>1, <2>1
<1>17. CASE p \in LiveUsers /\ t = ExitPlan(p) \o ends
  <2>1. SignalsPlan(p, c, paused, K, t)
    BY <1>2, <1>8, <1>17, SignalKills
  <2> QED
    BY <1>1, <2>1
<1>18. CASE p \in LiveUsers /\ t = (<<b>> \o ends) \o w
  <2>1. SignalsPlan(p, c, paused, K, t)
    BY <1>2, <1>5, <1>11, <1>13, <1>18, SignalOne
  <2> QED
    BY <1>1, <2>1
<1> QED
  BY <1>7, <1>14, <1>15, <1>16, <1>17, <1>18

\* MM decides what to do.
LEMMA MMWorks ==
  ASSUME Now, load \in Workloads, MMWork
  PROVE  Now'
<1>1. MM \in Servers /\ MM \in Procs /\ MM \notin Tasks
  BY SystemProcs
<1>2. /\ k.proc_ptr = MM /\ pc[MM] = "work"
      /\ paused' = IF k.mess[MM].type = "PAUSE" THEN paused \cup {k.mess[MM].src} ELSE paused
  BY DEF MMWork
<1>3. PICK t \in MMPlans(k.mess[MM]) : Decide(MM, t)
  BY DEF MMWork
<1>4. /\ KInv(k) /\ k \in KernelState /\ k.p_flags[MM] = {}
      /\ CInv(k, pc, plan, paused, closed)
  BY <1>1, <1>2, TaskRuns
<1>5. MMGot(k, pc, paused) /\ PausedOK(k, paused) /\ paused \subseteq UserSlots
  BY <1>4 DEF CInv, MailOK, CtlTyped
<1>6. PICK m : m = k.mess[MM]
  OBVIOUS
<1>7. m \in Mess
  BY <1>1, <1>4, <1>6 DEF KernelState
<1>8. \/ m.type = "KSIG" /\ m.i1 \in UserSlots /\ IsFiniteSet(m.map)
      \/ AsksMM(m, m.src) /\ Answerable(k, m.src, MM) /\ m.src \notin paused
  BY <1>2, <1>4, <1>5, <1>6 DEF MMGot, Got
<1>9. \A u : HasTold(k, pc, u) =
               IF m.type = "KSIG" /\ m.i1 = u THEN Cardinality(m.map) ELSE 0
  BY <1>2, <1>4, <1>6 DEF HasTold, Got
<1>10. paused' = IF m.type = "PAUSE" THEN paused \cup {m.src} ELSE paused
  BY <1>2, <1>6
<1>11. t \in MMPlans(m)
  BY <1>3, <1>6
<1> HIDE <1>6
<1>12. PICK K : K = Known(k, pc, closed)
  OBVIOUS
<1>13. CASE m.type = "KSIG"
  <2>1. m.i1 \in UserSlots /\ IsFiniteSet(m.map)
    BY <1>8, <1>13 DEF AsksMM, MMCalls
  <2>2. t \in SignalPlans(m.i1, m.map)
    BY <1>11, <1>13 DEF MMPlans
  <2>3. paused' = paused
    BY <1>10, <1>13
  <2>4. PICK p, c : p = m.i1 /\ c = Cardinality(m.map)
    OBVIOUS
  <2>5. SignalsPlan(p, c, paused, K, t) \/ (isemptyp(k, p) /\ t = << >>)
    BY <1>4, <1>5, <2>1, <2>2, <2>4, SignalPlansGood
  <2>6. \A u : HasTold(k, pc, u) = IF u = p THEN c ELSE 0
    BY <1>9, <1>13, <2>4
  <2>7. t \in Seq(Steps) /\ MMPlan(k, paused, K, t)
    <3>1. << >> \in Seq(Steps) /\ MMPlan(k, paused, K, << >>)
      BY DEF MMPlan, RepliesOnce
    <3> QED
      BY <2>5, <3>1 DEF SignalsPlan
  <2>8. ASSUME NEW u \in UserSlots, ~isemptyp(k, u)
        PROVE  Cardinality(Ends(t, u)) = HasTold(k, pc, u)
    <3>1. CASE SignalsPlan(p, c, paused, K, t)
      BY <2>6, <2>8, <3>1 DEF SignalsPlan
    <3>2. CASE isemptyp(k, p) /\ t = << >>
      <4>1. u # p
        BY <2>8, <3>2
      <4>2. Ends(t, u) = {}
        BY <3>2 DEF Ends
      <4> QED
        BY <2>6, <4>1, <4>2, FS_EmptySet
    <3> QED
      BY <2>5, <3>1, <3>2
  <2>9. paused' \subseteq UserSlots /\ PausedOK(k, paused') /\ MMPlan(k, paused', K, t)
    BY <1>5, <2>3, <2>7
  <2> QED
    BY <1>3, <1>12, <2>7, <2>8, <2>9, MMDecides
<1>14. CASE m.type # "KSIG"
  <2>1. AsksMM(m, m.src) /\ Answerable(k, m.src, MM) /\ m.src \notin paused
    BY <1>8, <1>14
  <2>2. m.src \in UserSlots
    BY <2>1 DEF AsksMM
  <2>3. paused' \subseteq UserSlots /\ PausedOK(k, paused')
    BY <1>5, <1>10, <2>1, <2>2 DEF PausedOK
  <2>4. Asked(m, paused')
    BY <1>4, <1>7, <1>10, <2>1 DEF Asked
  <2>5. PlanFor(k, paused', K, t)
    <3>1. CASE m.type = "FORK"
      BY <1>11, <2>4, <3>1, ForkPlansGood
    <3>2. CASE m.type # "FORK"
      BY <1>11, <2>4, <3>2, CallPlans
    <3> QED
      BY <3>1, <3>2
  <2>6. \A u \in UserSlots : ~isemptyp(k, u) => Cardinality(Ends(t, u)) = HasTold(k, pc, u)
    BY <1>9, <1>14, <2>5, FS_EmptySet DEF PlanFor
  <2>7. t \in Seq(Steps) /\ MMPlan(k, paused', K, t)
    BY <2>5 DEF PlanFor
  <2> QED
    BY <1>3, <1>12, <2>3, <2>6, <2>7, MMDecides
<1> QED
  BY <1>13, <1>14
-----------------------------------------------------------------------------
(* FS decides what to do. *)

\* The end of a process is all that a plan has to know of what FS was told.
LEMMA NoXitPlan ==
  ASSUME NEW s, NEW Z, NEW K, NEW K2, NEW t, MMPlan(s, Z, K, t), NoXit(t)
  PROVE  MMPlan(s, Z, K2, t)
<1>1. ASSUME NEW i \in DOMAIN t PROVE MMElem(s, Z, K2, t, i)
  <2>1. MMElem(s, Z, K, t, i) /\ ~IsCall(t[i], "SYS_XIT")
    BY <1>1 DEF MMPlan, NoXit
  <2>2. ~XitOK(s, K, t, i)
    BY <2>1 DEF XitOK
  <2> QED
    BY <2>1, <2>2 DEF MMElem, SysCallOK
<1> QED
  BY <1>1 DEF MMPlan

\* What FS does for the call m: it answers the caller, perhaps after one call
FSTodo(t, m, C) ==
  /\ t \in Seq(Steps) /\ Len(t) \in {1, 2}
  /\ t[Len(t)].how = "send" /\ t[Len(t)].to = m.src
  /\ Len(t) = 2 =>
       \/ t[1].how = "sendrec" /\ t[1].to = DISK /\ t[1].m.type = "DEV_IO"
       \/ /\ IsCall(t[1], "SYS_KILL") /\ t[1].to = SYSTASK
          /\ t[1].m.i1 = m.src /\ m.type = "WRITE"
  /\ m.type \in FSCalls /\ m.src \in C => Len(t) = 1

\* The plans of FS
LEMMA FSPlansGood ==
  ASSUME NEW m \in Mess, NEW t \in FSPlans(m)
  PROVE  FSTodo(t, m, closed)
<1>1. /\ m.src \in Procs /\ SYSTASK \in Procs /\ DISK \in Procs
      /\ m.src \in Int /\ 0 \in Int
  <2>1. m.src \in Procs /\ SYSTASK \in Procs /\ DISK \in Procs
    BY SystemProcs DEF Mess
  <2>2. \A p \in Procs : p \in Int
    BY DEF Procs, Slots, Tasks, DISK, CLOCK, SYSTASK, IDLE, HARDWARE
  <2> QED
    BY <2>1, <2>2
<1>2. PICK a : a = Call(DISK, Message("DEV_IO", 0, 0, 0))
  OBVIOUS
<1>3. PICK b : b = Call(SYSTASK, Message("SYS_KILL", m.src, 0, 0))
  OBVIOUS
<1>4. PICK e : e = Send(m.src, 0)
  OBVIOUS
<1>5. "DEV_IO" \in MessTypes /\ "SYS_KILL" \in MessTypes
  BY DEF MessTypes
<1>6. a \in Steps /\ a.how = "sendrec" /\ a.to = DISK /\ a.m.type = "DEV_IO"
  BY <1>1, <1>2, <1>5, CallFacts
<1>7. /\ b \in Steps /\ b.how = "sendrec" /\ b.to = SYSTASK /\ b.m.type = "SYS_KILL"
      /\ b.m.i1 = m.src
  BY <1>1, <1>3, <1>5, CallFacts
<1>8. e \in Steps /\ e.how = "send" /\ e.to = m.src
  BY <1>1, <1>4, StepFacts
<1>9. \/ t = <<a, e>> /\ (m.type = "TELL_EXIT" \/ (m.type = "READ" /\ m.src \notin closed))
      \/ t = <<b, e>> /\ m.type = "WRITE" /\ m.src \notin closed
      \/ t = <<e>>
  <2>1. t = CASE m.type = "TELL_EXIT" \/ (m.type = "READ" /\ m.src \notin closed) -> <<a, e>>
              [] m.type = "WRITE" /\ m.src \notin closed -> <<b, e>>
              [] OTHER -> <<e>>
    BY <1>2, <1>3, <1>4 DEF FSPlans
  <2> HIDE <1>2, <1>3, <1>4
  <2>2. CASE m.type = "TELL_EXIT" \/ (m.type = "READ" /\ m.src \notin closed)
    BY <2>1, <2>2
  <2>3. CASE m.type = "WRITE" /\ m.src \notin closed
    BY <2>1, <2>3
  <2>4. CASE /\ ~(m.type = "TELL_EXIT" \/ (m.type = "READ" /\ m.src \notin closed))
             /\ ~(m.type = "WRITE" /\ m.src \notin closed)
    BY <2>1, <2>4
  <2> QED
    BY <2>2, <2>3, <2>4
<1> HIDE <1>2, <1>3, <1>4
<1>10. CASE t = <<a, e>> /\ (m.type = "TELL_EXIT" \/ (m.type = "READ" /\ m.src \notin closed))
  <2>1. t \in Seq(Steps) /\ Len(t) = 2 /\ t[1] = a /\ t[2] = e
    BY <1>6, <1>8, <1>10
  <2>2. m.type \in FSCalls => m.src \notin closed
    BY <1>10 DEF FSCalls
  <2> QED
    BY <1>6, <1>8, <2>1, <2>2 DEF FSTodo
<1>11. CASE t = <<b, e>> /\ m.type = "WRITE" /\ m.src \notin closed
  <2>1. t \in Seq(Steps) /\ Len(t) = 2 /\ t[1] = b /\ t[2] = e
    BY <1>7, <1>8, <1>11
  <2> QED
    BY <1>7, <1>8, <1>11, <2>1 DEF FSTodo, IsCall
<1>12. CASE t = <<e>>
  <2>1. t \in Seq(Steps) /\ Len(t) = 1 /\ t[1] = e
    BY <1>8, <1>12
  <2> QED
    BY <1>8, <2>1 DEF FSTodo
<1> QED
  BY <1>9, <1>10, <1>11, <1>12

\* FS decides what to do.
LEMMA FSWorks ==
  ASSUME Now, FSWork
  PROVE  Now'
<1>1. MM \in Servers /\ FS \in Servers /\ MM # FS /\ FS \notin Tasks /\ FS \in Procs
      /\ MM \notin UserSlots /\ MM \in Procs
  BY SystemProcs
<1>2. PICK m : m = k.mess[FS]
  OBVIOUS
<1>3. PICK t \in FSPlans(m) : Decide(FS, t)
  BY <1>2 DEF FSWork
<1>4. /\ k.proc_ptr = FS /\ pc[FS] = "work" /\ k' = k /\ paused' = paused
      /\ plan' = [plan EXCEPT ![FS] = t]
      /\ pc' = [pc EXCEPT ![FS] = IF t = << >> THEN "recv" ELSE "plan"]
  BY <1>3 DEF FSWork, Decide
<1>5. closed' = CASE m.type = "TELL_EXIT" -> closed \cup {m.i1}
                  [] m.type = "TELL_FORK" -> closed \ {m.i2}
                  [] OTHER -> closed
  BY <1>2 DEF FSWork
<1>6. /\ KInv(k) /\ k \in KernelState /\ pc \in PcType /\ k.p_flags[FS] = {}
      /\ CInv(k, pc, plan, paused, closed)
  BY <1>1, <1>4, TaskRuns
<1>7. /\ \A p \in Tasks : k.p_flags[p] # {}
      /\ (\A w : ~Busy(k, pc, w)) /\ HeadFS(k)
      /\ TodoOK(k, pc, paused, closed, plan[MM])
  BY <1>1, <1>4, ServerRuns
<1>8. plan \in [Servers -> Seq(Steps)] /\ plan[FS] = << >>
  <2>1. plan \in [Servers -> Seq(Steps)]
    BY <1>6 DEF CInv, CtlTyped
  <2>2. ServerState(k, pc, plan, FS)
    BY <1>6 DEF CInv, ServersOK
  <2> QED
    BY <1>4, <2>1, <2>2 DEF ServerState
<1>9. m \in Mess
  BY <1>1, <1>2, <1>6 DEF KernelState
<1>10. FSTodo(t, m, closed)
  BY <1>9, FSPlansGood
<1>11. t \in Seq(Steps) /\ t # << >>
  <2>1. t \in Seq(Steps) /\ Len(t) \in {1, 2}
    BY <1>10 DEF FSTodo
  <2> QED
    BY <2>1
<1>12. /\ plan' \in [Servers -> Seq(Steps)] /\ plan'[FS] = t /\ plan'[MM] = plan[MM]
       /\ pc' \in PcType /\ pc'[MM] = pc[MM] /\ \A p \in Tasks : pc'[p] = pc[p]
       /\ pc'[FS] = "plan"
  <2>1. plan' \in [Servers -> Seq(Steps)] /\ plan'[FS] = t /\ plan'[MM] = plan[MM]
    BY <1>1, <1>4, <1>8, <1>11
  <2>2. /\ pc' \in PcType /\ pc'[MM] = pc[MM] /\ \A p \in Tasks : pc'[p] = pc[p]
        /\ pc'[FS] = "plan"
    BY <1>1, <1>4, <1>6, <1>11 DEF PcType
  <2> QED
    BY <2>1, <2>2
<1>13. TasksOK(k, pc') /\ \A w : ~Busy(k, pc', w)
  <2>1. TasksWait(k, pc, k, pc')
    BY <1>7, <1>12 DEF TasksWait
  <2>2. TasksOK(k, pc)
    BY <1>6 DEF CInv
  <2> QED
    BY <2>1, <2>2, TasksStay
<1>14. ServersOK(k, pc', plan')
  <2>1. ServerState(k, pc, plan, MM)
    BY <1>6 DEF CInv, ServersOK
  <2>2. ServerState(k, pc', plan', MM)
    BY <1>12, <2>1 DEF ServerState
  <2>3. ServerState(k, pc', plan', FS)
    BY <1>6, <1>11, <1>12 DEF ServerState
  <2> QED
    BY <2>2, <2>3 DEF ServersOK
<1>15. Todo(k, pc', plan') = plan[MM]
  BY <1>12, <1>13 DEF Todo
<1>16. /\ Client(k, m.src)
       /\ \/ m.src = MM /\ m.type \in Tidings
          \/ m.src \in UserSlots /\ m.type \in FSCalls
  <2>1. Got(k, pc, FS) /\ FSGot(k, pc)
    BY <1>4, <1>6 DEF Got, CInv, MailOK
  <2>2. Serves(k, pc, plan, m.src) /\ m.src \in Procs
    BY <1>2, <1>4, <1>6, <1>9 DEF Serves, Mess
  <2>3. Client(k, m.src)
    BY <1>6, <2>2 DEF CInv, FSPlan
  <2> QED
    BY <1>2, <2>1, <2>3 DEF FSGot
<1>17. /\ m.src \in UserSlots => closed' = closed
       /\ m.type = "TELL_EXIT" => closed' = closed \cup {m.i1}
       /\ m.type \in {"TELL_EXIT", "TELL_FORK"} => m.src = MM
       /\ m.type \notin {"TELL_EXIT", "TELL_FORK"} => m.src \in UserSlots
       /\ m.src = MM => m.type \in {"TELL_EXIT", "TELL_FORK"}
  BY <1>1, <1>5, <1>16 DEF Tidings, FSCalls
<1>18. \A c : Serves(k, pc', plan', c) <=> c = m.src
  <2>1. t[Len(t)].to = m.src
    BY <1>10 DEF FSTodo
  <2> QED
    BY <1>11, <1>12, <2>1 DEF Serves
<1>19. FSPlan(k, pc', plan', closed')
  <2>1. Len(t) <= 2 /\ (t # << >> => t[Len(t)].how = "send")
    BY <1>10 DEF FSTodo
  <2>2. Len(t) = 2 =>
          \/ t[1].how = "sendrec" /\ t[1].to = DISK /\ t[1].m.type = "DEV_IO"
          \/ /\ IsCall(t[1], "SYS_KILL") /\ t[1].to = SYSTASK
             /\ t[1].m.i1 = t[2].to /\ t[2].to \in UserSlots
    BY <1>10, <1>17 DEF FSTodo
  <2>3. m.src \in closed' \cap UserSlots => Len(t) <= 1
    BY <1>1, <1>10, <1>16, <1>17 DEF FSTodo
  <2>4. \A c \in Procs : Serves(k, pc', plan', c) =>
          Client(k, c) /\ (c \in closed' \cap UserSlots => HeadFS(k) /\ Len(t) <= 1)
    BY <1>7, <1>16, <1>18, <2>3
  <2> HIDE <1>3, <1>4, <1>5
  <2> QED
    BY <1>12, <1>13, <2>1, <2>2, <2>4 DEF FSPlan
<1>20. ASSUME m.src = MM
      PROVE  /\ MMPlan(k, paused, Known(k, pc', closed'), plan[MM])
             /\ TellsFork(k, pc') => NoXit(plan[MM])
  <2>1. InTransit(k, pc) = m /\ InTransit(k, pc') = NoMess
    <3>1. "SENDING" \notin k.p_flags[MM]
      BY <1>1, <1>16, <1>20, SystemProcs DEF Client, WaitsFor, Answerable
    <3> QED
      BY <1>2, <1>4, <1>6, <1>12, <1>20, <3>1 DEF InTransit
  <2>2. MMPlan(k, paused, Known(k, pc', closed'), plan[MM])
    <3>1. MMPlan(k, paused, Known(k, pc, closed), plan[MM])
      BY <1>7 DEF TodoOK
    <3>2. CASE m.type = "TELL_EXIT"
      <4>1. Known(k, pc, closed) \subseteq Known(k, pc', closed')
        BY <1>17, <2>1, <3>2 DEF Known
      <4>2. UsersStay(k, k)
        BY DEF UsersStay
      <4> QED
        BY <3>1, <4>1, <4>2, PlanStays
    <3>3. CASE m.type = "TELL_FORK"
      <4>1. NoXit(plan[MM])
        BY <1>7, <2>1, <3>3 DEF TodoOK, TellsFork
      <4> QED
        BY <3>1, <4>1, NoXitPlan
    <3> QED
      BY <1>17, <1>20, <3>2, <3>3
  <2>3. ~TellsFork(k, pc')
    BY <2>1 DEF TellsFork, NoMess
  <2> QED
    BY <2>2, <2>3
<1>21. ASSUME m.src # MM
      PROVE  /\ MMPlan(k, paused, Known(k, pc', closed'), plan[MM])
             /\ TellsFork(k, pc') => NoXit(plan[MM])
  <2>1. InTransit(k, pc') = InTransit(k, pc) /\ closed' = closed
    BY <1>2, <1>12, <1>16, <1>17, <1>21 DEF InTransit
  <2>2. Known(k, pc', closed') = Known(k, pc, closed) /\ TellsFork(k, pc') = TellsFork(k, pc)
    BY <2>1 DEF Known, TellsFork
  <2> QED
    BY <1>7, <2>2 DEF TodoOK
<1>22. TodoOK(k, pc', paused, closed', plan[MM])
  <2>1. OpenOK(k, pc, plan[MM])
    BY <1>7 DEF TodoOK
  <2>2. \A u : HasTold(k, pc', u) = HasTold(k, pc, u)
    BY <1>12 DEF HasTold, Got
  <2>3. OpenOK(k, pc', plan[MM])
    BY <2>1, <2>2 DEF OpenOK
  <2> QED
    BY <1>20, <1>21, <2>3 DEF TodoOK
<1>23. MailOK(k, pc', paused)
  <2>1. UserMess(k) /\ MMGot(k, pc, paused) /\ PausedOK(k, paused) /\ PidsDiffer(k)
    BY <1>6 DEF CInv, MailOK
  <2>2. FSGot(k, pc')
    BY <1>12 DEF FSGot, Got
  <2>3. MMGot(k, pc', paused)
    BY <1>12, <2>1 DEF MMGot, Got
  <2> QED
    BY <2>1, <2>2, <2>3 DEF MailOK
<1>24. Exiting(k, pc', plan', paused)
  BY <1>13 DEF Exiting
<1>25. CtlTyped(pc', plan', paused)
  BY <1>6, <1>12 DEF CtlTyped, PcType, CInv
<1>26. Good(k, pc', plan', paused, closed')
  <2> HIDE <1>3, <1>4, <1>5, <1>17
  <2> QED
    BY <1>6, <1>13, <1>14, <1>15, <1>19, <1>22, <1>23, <1>24, <1>25 DEF CInv, Good
<1> QED
  BY <1>4, <1>26 DEF Now
-----------------------------------------------------------------------------
(* The steps of FS's plan *)

\* A server v does the first step of its plan: what is the same for all steps
PlanStep(v, t) ==
  /\ KInv(k) /\ k \in KernelState /\ CInv(k, pc, plan, paused, closed)
  /\ k.proc_ptr = v /\ k.p_flags[v] = {} /\ pc[v] = "plan"
  /\ t = plan[v] /\ t \in Seq(Steps) /\ t # << >> /\ t[1] \in Steps
  /\ plan' \in [Servers -> Seq(Steps)] /\ plan'[v] = Tail(t)
  /\ pc' \in PcType /\ (\A x \in (Tasks \cup Servers) \ {v} : pc'[x] = pc[x])
  /\ \A x \in Servers \ {v} : plan'[x] = plan[x]
  /\ pc'[v] = IF Tail(t) = << >> THEN "recv" ELSE "plan"
  /\ closed' = closed
  /\ (\A p \in Tasks : k.p_flags[p] # {})
  /\ IdleTask(k, pc, SYSTASK) /\ IdleTask(k, pc, CLOCK)
  /\ (v = FS => IdleTask(k, pc, DISK))
  /\ ~k.p_int_blocked[SYSTASK] /\ ~k.p_int_blocked[DISK]
  /\ TodoOK(k, pc, paused, closed, plan[MM]) /\ \A w : ~Busy(k, pc, w)
  /\ (v = MM => ~HeadFS(k)) /\ (v = FS => HeadFS(k))

\* The guards of ServerStep, and what the invariant says when they hold
LEMMA StepsOfPlan ==
  ASSUME Now, NEW v \in Servers, ServerStep(v)
  PROVE  PlanStep(v, plan[v])
<1>1. /\ k.proc_ptr = v /\ pc[v] = "plan"
      /\ plan' = [plan EXCEPT ![v] = Tail(plan[v])]
      /\ pc' = [pc EXCEPT ![v] = IF Len(plan[v]) = 1 THEN "recv" ELSE "plan"]
      /\ closed' = closed
  BY DEF ServerStep
<1>2. /\ KInv(k) /\ k \in KernelState /\ pc \in PcType /\ k.p_flags[v] = {}
      /\ CInv(k, pc, plan, paused, closed)
  BY <1>1, TaskRuns
<1>3. /\ \A p \in Tasks : k.p_flags[p] # {}
      /\ (\A w : ~Busy(k, pc, w))
      /\ TodoOK(k, pc, paused, closed, plan[MM])
      /\ (v = MM => ~HeadFS(k)) /\ (v = FS => HeadFS(k))
  BY <1>1, ServerRuns
<1>4. plan \in [Servers -> Seq(Steps)] /\ plan[v] \in Seq(Steps)
  BY <1>2 DEF CInv, CtlTyped
<1>5. plan[v] # << >>
  <2>1. ServerState(k, pc, plan, v)
    BY <1>2 DEF CInv, ServersOK, Servers
  <2> QED
    BY <1>1, <2>1 DEF ServerState
<1>6. PICK t : t = plan[v]
  OBVIOUS
<1>7. t \in Seq(Steps) /\ t # << >>
  BY <1>4, <1>5, <1>6
<1>8. /\ Tail(t) \in Seq(Steps) /\ t[1] \in Steps
      /\ Tail(t) = << >> <=> Len(t) = 1
  <2>1. Tail(t) \in Seq(Steps) /\ t[1] \in Steps /\ Len(Tail(t)) = Len(t) - 1 /\ Len(t) \in Nat
    BY <1>7, TailFacts
  <2>2. PICK r : r = Tail(t)
    OBVIOUS
  <2>3. PICK n \in Nat : n = Len(t)
    BY <2>1
  <2>4. r \in Seq(Steps) /\ Len(r) = n - 1
    BY <2>1, <2>2, <2>3
  <2>5. r = << >> <=> n = 1
    BY <2>4
  <2> QED
    BY <2>1, <2>2, <2>3, <2>5
<1>9. /\ plan' \in [Servers -> Seq(Steps)] /\ plan'[v] = Tail(t)
      /\ \A x \in Servers \ {v} : plan'[x] = plan[x]
  BY <1>1, <1>4, <1>6, <1>8
<1>10. /\ pc' \in PcType /\ \A x \in (Tasks \cup Servers) \ {v} : pc'[x] = pc[x]
       /\ pc'[v] = IF Tail(t) = << >> THEN "recv" ELSE "plan"
  BY <1>1, <1>2, <1>6, <1>8 DEF PcType
<1>11. /\ IdleTask(k, pc, SYSTASK) /\ IdleTask(k, pc, CLOCK)
       /\ (v = FS => IdleTask(k, pc, DISK))
       /\ ~k.p_int_blocked[SYSTASK] /\ ~k.p_int_blocked[DISK]
  <2>1. SysState(k, pc) /\ ClockState(k, pc) /\ DiskState(k, pc)
    BY <1>2 DEF CInv, TasksOK
  <2>2. SYSTASK \in Tasks /\ CLOCK \in Tasks /\ DISK \in Tasks
    BY SystemProcs
  <2>3. IdleTask(k, pc, SYSTASK)
    BY <1>3, <2>1, <2>2 DEF SysState, DoneTask, Busy
  <2>4. IdleTask(k, pc, CLOCK)
    BY <1>3, <2>1, <2>2 DEF ClockState, DoneTask
  <2>5. IdleTask(k, pc, DISK) \/ WaitsFor(k, FS, DISK)
    BY <1>3, <2>1, <2>2 DEF DiskState, DoneTask
  <2>6. v = FS => ~WaitsFor(k, FS, DISK)
    BY <1>2 DEF WaitsFor
  <2> QED
    BY <2>1, <2>3, <2>4, <2>5, <2>6 DEF SysState, DiskState
<1> QED
  BY <1>1, <1>2, <1>3, <1>6, <1>7, <1>8, <1>9, <1>10, <1>11 DEF PlanStep
\* What a step of FS may do to MM: nothing, or answer it
MMKept(s, n, P) ==
  \/ /\ n.p_flags[MM] = s.p_flags[MM] /\ n.p_getfrom[MM] = s.p_getfrom[MM]
     /\ n.mess[MM] = s.mess[MM]
  \/ P[MM] # "work" /\ s.p_flags[MM] = {"RECEIVING"} /\ n.p_flags[MM] = {}

\* Then all goes on.
LEMMA FSDone ==
  ASSUME Now, NEW t, PlanStep(FS, t), paused' = paused,
         KInv(k'), TasksOK(k', pc'), ~Busy(k', pc', MM),
         ServerState(k', pc', plan', FS), FSPlan(k', pc', plan', closed),
         UsersStay(k, k'), UserMess(k'), PidsDiffer(k'),
         \A u \in UserSlots : Open(k', u) = Open(k, u),
         MMKept(k, k', pc)
  PROVE  Now'
<1>1. MM \in Servers /\ FS \in Servers /\ MM # FS /\ MM \in (Tasks \cup Servers) \ {FS}
      /\ Tasks \cap Servers = {}
  BY SystemProcs
<1>2. /\ plan'[MM] = plan[MM] /\ pc'[MM] = pc[MM] /\ pc'[FS] # "work" /\ pc[FS] = "plan"
      /\ closed' = closed /\ plan' \in [Servers -> Seq(Steps)] /\ pc' \in PcType
      /\ CInv(k, pc, plan, paused, closed)
      /\ TodoOK(k, pc, paused, closed, plan[MM])
  BY <1>1 DEF PlanStep
<1>3. ServerState(k, pc, plan, MM) /\ MMGot(k, pc, paused) /\ PausedOK(k, paused)
  BY <1>2 DEF CInv, ServersOK, MailOK
<1>4. ServerState(k', pc', plan', MM)
  BY <1>2, <1>3 DEF ServerState, WaitsFor, MMKept
<1>5. Todo(k', pc', plan') = plan[MM]
  BY <1>2 DEF Todo
<1>6. Got(k', pc', MM) => Got(k, pc, MM) /\ k'.mess[MM] = k.mess[MM]
  BY <1>2 DEF Got, MMKept
<1>7. Got(k, pc, MM) => Got(k', pc', MM)
  BY <1>2 DEF Got, MMKept
<1>8. MMGot(k', pc', paused)
  BY <1>3, <1>6 DEF MMGot, UsersStay, AsksMM
<1>9. PausedOK(k', paused)
  <2>1. paused \subseteq UserSlots
    BY <1>2 DEF CInv, CtlTyped
  <2> QED
    BY <1>3, <2>1 DEF PausedOK, UsersStay
<1>10. InTransit(k', pc') = InTransit(k, pc)
  <2>1. "SENDING" \in k'.p_flags[MM] <=> "SENDING" \in k.p_flags[MM]
    BY DEF MMKept
  <2>2. "SENDING" \in k'.p_flags[MM] => k'.mess[MM] = k.mess[MM]
    BY DEF MMKept
  <2> QED
    BY <1>2, <2>1, <2>2 DEF InTransit
<1>11. TodoOK(k', pc', paused, closed, plan[MM])
  <2>1. Known(k', pc', closed) = Known(k, pc, closed) /\ TellsFork(k', pc') = TellsFork(k, pc)
    BY <1>10 DEF Known, TellsFork
  <2>2. MMPlan(k', paused, Known(k, pc, closed), plan[MM])
    BY <1>2, PlanStays DEF TodoOK
  <2>3. \A u : HasTold(k', pc', u) = HasTold(k, pc, u)
    BY <1>6, <1>7 DEF HasTold
  <2>4. OpenOK(k', pc', plan[MM])
    BY <1>2, <2>3 DEF TodoOK, OpenOK, UsersStay
  <2> QED
    BY <1>2, <2>1, <2>2, <2>4 DEF TodoOK
<1>12. MailOK(k', pc', paused)
  BY <1>2, <1>8, <1>9 DEF MailOK, FSGot, Got
<1>13. Exiting(k', pc', plan', paused)
  BY DEF Exiting
<1>14. CtlTyped(pc', plan', paused)
  BY <1>2 DEF CtlTyped, PcType, CInv
<1>15. Good(k', pc', plan', paused, closed)
  BY <1>4, <1>5, <1>11, <1>12, <1>13, <1>14 DEF CInv, Good, ServersOK
<1> QED
  BY <1>2, <1>15 DEF Now

\* The system task runs when it is the only task that does.
LEMMA SysFirst ==
  ASSUME NEW s, KInv(s), s.p_flags[SYSTASK] = {},
         \A t \in Tasks \ {SYSTASK} : s.p_flags[t] # {}
  PROVE  s.proc_ptr = SYSTASK
<1>1. /\ s \in KernelState /\ Lists(s.rdy, Ready(s)) /\ s.proc_ptr = Top(s.rdy)
      /\ Classed(s.p_priority)
  BY DEF KInv, Base, Scheduled
<1>2. SYSTASK \in Tasks /\ SYSTASK \in Schedulable /\ Tasks \subseteq Schedulable /\ TASK_Q \in Queues
  BY ProcFacts, SystemProcs DEF Queues
<1>3. Class(SYSTASK) = TASK_Q /\ ~isemptyp(s, SYSTASK)
  BY <1>1, <1>2, Classes, SystemProcs DEF Class
<1>4. SYSTASK \in Ready(s)
  BY <1>2, <1>3 DEF Ready
<1>5. OnList(s.rdy[TASK_Q], SYSTASK)
  BY <1>1, <1>2, <1>3, <1>4 DEF Lists
<1>6. PICK r \in Seq(Schedulable) : r = s.rdy[TASK_Q]
  BY <1>1, <1>2 DEF KernelState
<1>7. r # << >>
  BY <1>5, <1>6 DEF OnList
<1>8. Head(r) \in Schedulable /\ OnList(r, Head(r))
  BY <1>7, HeadInSeq
<1>9. Head(r) \in Ready(s) /\ Class(Head(r)) = TASK_Q
  BY <1>1, <1>2, <1>6, <1>8 DEF Lists
<1>10. Head(r) \in Tasks
  BY <1>1, <1>8, <1>9, Classes
<1>11. Head(r) = SYSTASK
  BY <1>9, <1>10 DEF Ready
<1> QED
  BY <1>1, <1>6, <1>7, <1>11 DEF Top
\* The first step of a plan: an answer or a call
LEMMA PlanStepIs ==
  ASSUME NEW v \in Servers, ServerStep(v), NEW t, PlanStep(v, t)
  PROVE  LET m == IF t[1].how = "result" THEN k.mess[v] ELSE t[1].m
             s == [k EXCEPT !.mess[v] = m]
             done == IF t[1].how = "sendrec" THEN send_rec(s, v, t[1].to)
                     ELSE mini_send(s, v, t[1].to, v)
         IN /\ k' = IF v = MM /\ done.r # OK THEN [done.k EXCEPT !.panic = TRUE]
                    ELSE done.k
            /\ paused' = IF v # MM THEN paused
                         ELSE IF m.type = "SYS_XIT" THEN paused \ {m.i2}
                         ELSE IF t[1].how # "sendrec" THEN paused \ {t[1].to}
                         ELSE paused
<1>1. t = plan[v] /\ Head(t) = t[1]
  BY TailFacts DEF PlanStep
<1> QED
  BY <1>1 DEF ServerStep

\* Who is answered, seen from the others: a process that waits for c does so no longer.
LEMMA AnsweredStays ==
  ASSUME NEW s \in KernelState, NEW m \in Mess, NEW c \in Servers, NEW d \in Servers \cup UserSlots,
         c # d, NEW n, RepliedIs(s, m, c, d, n), "SENDING" \notin s.p_flags[d],
         UserMess(s), PidsDiffer(s)
  PROVE  /\ Answered(s, m, c, d, n) /\ UserMess(n) /\ PidsDiffer(n)
         /\ \A u \in UserSlots : isemptyp(n, u) <=> isemptyp(s, u)
         /\ \A u \in UserSlots : \A v : u # d /\ Answerable(s, u, v) => Answerable(n, u, v)
         /\ \A u \in UserSlots : Open(n, u) = Open(s, u)
         /\ \A u \in UserSlots :
              n.p_pid[u] = s.p_pid[u] /\ ("P_STOP" \in s.p_flags[u] => "P_STOP" \in n.p_flags[u])
<1>1. c \in Procs /\ d \in Procs /\ UserSlots \subseteq Procs
      /\ c \notin UserSlots
  BY SystemProcs
<1>2. Answered(s, m, c, d, n)
  BY <1>1, RepliedFacts
<1>3. /\ n.p_flags[d] = s.p_flags[d] \ {"RECEIVING"}
      /\ \A x \in Procs \ {d} : n.p_flags[x] = s.p_flags[x]
      /\ \A x \in Procs \ {c, d} : n.mess[x] = s.mess[x]
      /\ n.p_getfrom = s.p_getfrom /\ n.p_priority = s.p_priority
      /\ n.p_sendto = s.p_sendto /\ n.p_pid = s.p_pid
      /\ \A u : Open(n, u) = Open(s, u)
  BY <1>2 DEF Answered
<1>4. UserMess(n)
  <2>1. ASSUME NEW u \in UserSlots, "SENDING" \in n.p_flags[u]
        PROVE  /\ n.p_sendto[u] = MM => AsksMM(n.mess[u], u)
               /\ n.p_sendto[u] = FS => n.mess[u].type \in FSCalls
    <3>1. u # d /\ u # c /\ u \in Procs
      BY <1>1, <1>3, <2>1
    <3>2. "SENDING" \in s.p_flags[u] /\ n.mess[u] = s.mess[u]
      BY <1>3, <2>1, <3>1
    <3> QED
      BY <1>3, <3>2 DEF UserMess
  <2> QED
    BY <2>1 DEF UserMess
<1>5. PidsDiffer(n) /\ \A u \in UserSlots : isemptyp(n, u) <=> isemptyp(s, u)
  BY <1>3 DEF PidsDiffer, isemptyp
<1>6. ASSUME NEW u \in UserSlots, NEW v, u # d, Answerable(s, u, v) PROVE Answerable(n, u, v)
  BY <1>1, <1>3, <1>6 DEF Answerable, isemptyp
<1>7. ASSUME NEW u \in UserSlots
      PROVE  n.p_pid[u] = s.p_pid[u] /\ ("P_STOP" \in s.p_flags[u] => "P_STOP" \in n.p_flags[u])
  BY <1>1, <1>3
<1> QED
  BY <1>2, <1>3, <1>4, <1>5, <1>6, <1>7

\* FS answers its client.
LEMMA FSAnswers ==
  ASSUME Now, ServerStep(FS), NEW t, PlanStep(FS, t), t[1].how # "sendrec"
  PROVE  Now'
<1>1. MM \in Servers /\ FS \in Servers /\ MM # FS /\ FS \notin Tasks /\ FS \in Procs
      /\ MM \notin UserSlots /\ FS \notin UserSlots /\ MM \in Procs
      /\ Tasks \subseteq Procs /\ Tasks \cap Servers = {} /\ Tasks \cap UserSlots = {}
  BY SystemProcs
<1>2. FSPlan(k, pc, plan, closed) /\ t = plan[FS] /\ t \in Seq(Steps) /\ t # << >>
  BY DEF PlanStep, CInv
<1>3. Len(t) = 1 /\ t[1].how = "send"
  <2>1. Len(t) \in Nat /\ Len(t) >= 1
    BY <1>2, TailFacts
  <2>2. Len(t) <= 2 /\ t[Len(t)].how = "send" /\ Len(t) # 2
    BY <1>2 DEF FSPlan, IsCall
  <2>3. PICK n \in Nat : n = Len(t)
    BY <2>1
  <2>4. n >= 1 /\ n <= 2 /\ n # 2 /\ t[n].how = "send"
    BY <2>1, <2>2, <2>3
  <2>5. n = 1
    BY <2>4
  <2> QED
    BY <2>3, <2>4, <2>5
<1>4. PICK m : m = t[1].m
  OBVIOUS
<1>5. PICK c : c = t[1].to
  OBVIOUS
<1>6. m \in Mess /\ c \in Procs
  BY <1>4, <1>5 DEF PlanStep, Steps
<1>7. Client(k, c)
  <2>1. Serves(k, pc, plan, c)
    BY <1>2, <1>3, <1>5 DEF Serves
  <2> QED
    BY <1>2, <1>6, <2>1 DEF FSPlan
<1>8. /\ k' = mini_send([k EXCEPT !.mess[FS] = m], FS, c, FS).k
      /\ paused' = paused
  BY <1>1, <1>3, <1>4, <1>5, PlanStepIs
<1> HIDE <1>4, <1>5
<1>9. /\ c \in Servers \cup UserSlots /\ ~isemptyp(k, c) /\ c # FS
      /\ "RECEIVING" \in k.p_flags[c] /\ "SENDING" \notin k.p_flags[c] /\ k.p_getfrom[c] = FS
      /\ c = MM => k.p_flags[MM] = {"RECEIVING"} /\ pc[MM] # "work"
  <2>1. CASE c = MM /\ WaitsFor(k, MM, FS)
    <3>1. k.p_flags[MM] = {"RECEIVING"} /\ k.p_getfrom[MM] = FS
      BY <2>1 DEF WaitsFor
    <3>2. ~isemptyp(k, MM)
      <4>1. Classed(k.p_priority) /\ MM \in Schedulable
        BY <1>1, ProcFacts DEF PlanStep, KInv, Base
      <4> QED
        BY <1>1, <4>1, Classes
    <3>3. pc[MM] # "work"
      <4>1. ServersOK(k, pc, plan) /\ FS # ANY
        BY <1>1, SystemProcs DEF PlanStep, CInv
      <4> QED
        BY <1>1, <2>1, <4>1, ServerWaits
    <3> QED
      BY <1>1, <2>1, <3>1, <3>2, <3>3
  <2>2. CASE Answerable(k, c, FS)
    BY <1>1, <2>2 DEF Answerable
  <2> QED
    BY <1>7, <2>1, <2>2 DEF Client
<1>10. KInv(k) /\ k \in KernelState /\ k.proc_ptr = FS
  BY DEF PlanStep
<1>11. RepliedIs(k, m, FS, c, k') /\ KInv(k')
  BY <1>1, <1>6, <1>8, <1>9, <1>10, Replies
<1>12. /\ UserMess(k) /\ PidsDiffer(k) /\ ServerState(k, pc, plan, FS) /\ TasksOK(k, pc)
  BY DEF PlanStep, CInv, MailOK, ServersOK
<1>13. /\ Answered(k, m, FS, c, k') /\ UserMess(k') /\ PidsDiffer(k')
       /\ \A u \in UserSlots : isemptyp(k', u) <=> isemptyp(k, u)
       /\ \A u \in UserSlots : \A v : u # c /\ Answerable(k, u, v) => Answerable(k', u, v)
       /\ \A u \in UserSlots : Open(k', u) = Open(k, u)
       /\ \A u \in UserSlots :
            k'.p_pid[u] = k.p_pid[u] /\ ("P_STOP" \in k.p_flags[u] => "P_STOP" \in k'.p_flags[u])
  BY <1>1, <1>6, <1>9, <1>10, <1>11, <1>12, AnsweredStays
<1>14. /\ k'.p_flags[c] = k.p_flags[c] \ {"RECEIVING"}
       /\ \A x \in Procs \ {c} : k'.p_flags[x] = k.p_flags[x]
       /\ \A x \in Procs \ {FS, c} : k'.mess[x] = k.mess[x]
       /\ k'.p_getfrom = k.p_getfrom /\ k'.p_int_blocked = k.p_int_blocked
  BY <1>13 DEF Answered
<1>15. UsersStay(k, k')
  <2>1. ASSUME NEW u \in UserSlots, Answerable(k, u, MM) PROVE Answerable(k', u, MM)
    <3>1. u # c
      BY <1>1, <1>9, <2>1 DEF Answerable
    <3> QED
      BY <1>13, <2>1, <3>1
  <2> QED
    BY <1>13, <2>1 DEF UsersStay
<1>16. MMKept(k, k', pc)
  <2>1. CASE c = MM
    BY <1>9, <1>14, <2>1 DEF MMKept
  <2>2. CASE c # MM
    BY <1>1, <1>14, <2>2 DEF MMKept
  <2> QED
    BY <2>1, <2>2
<1>17. /\ pc'[FS] = "recv" /\ plan'[FS] = << >> /\ k.p_flags[FS] = {}
       /\ (\A p \in Tasks : k.p_flags[p] # {} /\ pc'[p] = pc[p])
  <2>1. Tail(t) \in Seq(Steps) /\ Len(Tail(t)) = Len(t) - 1
    BY <1>2, TailFacts
  <2>2. PICK r : r = Tail(t)
    OBVIOUS
  <2>3. r \in Seq(Steps) /\ Len(r) = 0
    BY <1>3, <2>1, <2>2
  <2>4. r = << >>
    BY <2>3
  <2>5. Tail(t) = << >>
    BY <2>2, <2>4
  <2> QED
    BY <1>1, <2>5 DEF PlanStep
<1>18. TasksOK(k', pc') /\ \A w : ~Busy(k', pc', w)
  <2>1. \A x \in Tasks : x \in Procs \ {c}
    BY <1>1, <1>9
  <2>2. TasksWait(k, pc, k', pc')
    BY <1>14, <1>17, <2>1 DEF TasksWait
  <2>3. ~WaitsFor(k, FS, DISK)
    BY <1>17 DEF WaitsFor
  <2> QED
    BY <1>12, <2>2, <2>3, TasksStay
<1>19. ServerState(k', pc', plan', FS)
  BY <1>1, <1>9, <1>14, <1>17 DEF ServerState
<1>20. FSPlan(k', pc', plan', closed)
  <2>1. \A x : ~Serves(k', pc', plan', x)
    BY <1>17 DEF Serves
  <2>2. Len(<< >>) = 0
    OBVIOUS
  <2> QED
    BY <1>17, <1>18, <2>1, <2>2 DEF FSPlan
<1> HIDE <1>8
<1> QED
  BY <1>8, <1>11, <1>13, <1>15, <1>16, <1>18, <1>19, <1>20, FSDone
\* The server v has called the task d with m and waits for the answer.
CallMade(v, d, m, n) ==
  /\ n.p_flags[v] = {"RECEIVING"} /\ n.p_getfrom[v] = d /\ n.mess[v] = m
  /\ n.p_flags[d] = {} /\ n.mess[d] = From(m, v)
  /\ \A x \in Procs \ {v, d} :
       /\ n.p_flags[x] = k.p_flags[x] /\ n.p_getfrom[x] = k.p_getfrom[x]
       /\ n.mess[x] = k.mess[x]
  /\ n.p_int_blocked = k.p_int_blocked
  /\ CallsTaken(k, n) /\ \A u : Open(n, u) = Open(k, u)

\* A server calls a task that waits for it: what the call changes
LEMMA TaskCalled ==
  ASSUME NEW v \in Servers, NEW t, PlanStep(v, t), NEW d \in Tasks, IdleTask(k, pc, d),
         NEW m \in Mess, NEW e, e = send_rec([k EXCEPT !.mess[v] = m], v, d)
  PROVE  e.r = OK /\ KInv(e.k) /\ CallMade(v, d, m, e.k)
<1>1. /\ v \in Procs /\ d \in Procs /\ v # d /\ v \notin UserSlots /\ d \notin UserSlots
      /\ UserSlots \subseteq Procs
  BY SystemProcs
<1>2. KInv(k) /\ k \in KernelState /\ k.proc_ptr = v /\ k.p_flags[v] = {}
      /\ Base(k) /\ MMHears(k) /\ Scheduled(k)
  BY DEF PlanStep, KInv
<1>3. PICK s : s = [k EXCEPT !.mess[v] = m]
  OBVIOUS
<1>4. /\ s \in KernelState /\ SameSignals(k, s)
      /\ s.p_getfrom = k.p_getfrom /\ s.p_int_blocked = k.p_int_blocked
      /\ s.p_pid = k.p_pid /\ s.proc_ptr = k.proc_ptr
      /\ s.p_flags = k.p_flags
      /\ s.mess = [k.mess EXCEPT ![v] = m]
      /\ Base(s) /\ MMHears(s) /\ Scheduled(s)
  BY <1>1, <1>2, <1>3, OwnMessage
<1>5. e = send_rec(s, v, d)
  BY <1>3
<1> HIDE <1>3
<1>6. KInv(s) /\ s.proc_ptr = v
  BY <1>2, <1>4 DEF KInv
<1>7. s.p_flags[d] = {"RECEIVING"} /\ s.p_getfrom[d] = ANY
  BY <1>4 DEF IdleTask, WaitsFor
<1>8. e.r = OK /\ ExchangedIs(s, s.mess[v], v, d, e.k) /\ KInv(e.k)
  <2>1. "RECEIVING" \in s.p_flags[d] /\ "SENDING" \notin s.p_flags[d]
        /\ s.p_getfrom[d] \in {ANY, v}
    BY <1>7
  <2>2. v \in Servers \cup UserSlots /\ d \in Tasks \cup Servers
    OBVIOUS
  <2> QED
    BY <1>1, <1>5, <1>6, <2>1, <2>2, CallDelivers
<1>9. s.mess[v] = m /\ \A x \in Procs \ {v} : s.mess[x] = k.mess[x]
  BY <1>1, <1>2, <1>4 DEF KernelState
<1>10. PICK n : n = e.k
  OBVIOUS
<1>11. /\ n.p_getfrom = [k.p_getfrom EXCEPT ![v] = d]
       /\ n.p_int_blocked = k.p_int_blocked /\ n.p_pid = k.p_pid
       /\ n.mess = [s.mess EXCEPT ![d] = From(m, v)]
       /\ n.p_flags = [k.p_flags EXCEPT ![d] = s.p_flags[d] \ {"RECEIVING"},
                                        ![v] = {"RECEIVING"}]
       /\ n.p_priority = k.p_priority /\ n.p_sendto = k.p_sendto
       /\ n.p_pending = k.p_pending /\ n.p_pendcount = k.p_pendcount
  BY <1>4, <1>8, <1>9, <1>10 DEF ExchangedIs, From, SameSignals
<1>12. /\ n.p_flags[v] = {"RECEIVING"} /\ n.p_flags[d] = {}
       /\ \A x \in Procs \ {v, d} : n.p_flags[x] = k.p_flags[x]
  <2>1. k.p_flags \in [Procs -> SUBSET Flags]
    BY <1>2 DEF KernelState
  <2>2. s.p_flags[d] \ {"RECEIVING"} = {}
    BY <1>7
  <2> QED
    BY <1>1, <1>11, <2>1, <2>2
<1>13. /\ n.mess[v] = m /\ n.mess[d] = From(m, v)
       /\ \A x \in Procs \ {v, d} : n.mess[x] = k.mess[x]
  <2>1. s.mess \in [Procs -> Mess]
    BY <1>4 DEF KernelState
  <2> QED
    BY <1>1, <1>9, <1>11, <2>1
<1>14. n.p_getfrom[v] = d /\ \A x \in Procs \ {v} : n.p_getfrom[x] = k.p_getfrom[x]
  <2>1. k.p_getfrom \in [Procs -> Procs \cup {ANY}]
    BY <1>2 DEF KernelState
  <2> QED
    BY <1>1, <1>11, <2>1
<1>15. \A u \in UserSlots : u \in Procs \ {v, d}
  BY <1>1
<1>16. CallsTaken(k, n) /\ \A u : Open(n, u) = Open(k, u)
  <2>1. \A u : Open(n, u) = Open(k, u)
    BY <1>11 DEF Open
  <2> QED
    BY <1>11, <1>12, <1>13, <1>14, <1>15, <2>1 DEF CallsTaken
<1>17. CallMade(v, d, m, n)
  BY <1>11, <1>12, <1>13, <1>14, <1>16 DEF CallMade
<1> QED
  BY <1>8, <1>10, <1>17

\* FS asks a task.
LEMMA FSAsks ==
  ASSUME Now, ServerStep(FS), NEW t, PlanStep(FS, t), t[1].how = "sendrec"
  PROVE  Now'
<1>1. MM \in Servers /\ FS \in Servers /\ MM # FS /\ FS \notin Tasks /\ FS \in Procs
      /\ MM \notin UserSlots /\ FS \notin UserSlots /\ MM \in Procs
      /\ Tasks \subseteq Procs /\ Tasks \cap Servers = {} /\ Tasks \cap UserSlots = {}
      /\ UserSlots \subseteq Procs
      /\ SYSTASK \in Tasks /\ DISK \in Tasks /\ CLOCK \in Tasks /\ SYSTASK # DISK
      /\ CLOCK # SYSTASK /\ CLOCK # DISK
  BY SystemProcs
<1>2. FSPlan(k, pc, plan, closed) /\ t = plan[FS] /\ t \in Seq(Steps) /\ t # << >>
  BY DEF PlanStep, CInv
<1>3. PICK n \in Nat : n = Len(t)
  BY <1>2, TailFacts
<1>4. n = 2
  <2>1. n >= 1
    <3>1. Len(t) >= 1
      BY <1>2, TailFacts
    <3> QED
      BY <1>3, <3>1
  <2>2. n <= 2 /\ t[n].how = "send"
    BY <1>2, <1>3 DEF FSPlan
  <2>3. n # 1
    BY <2>2
  <2> QED
    BY <2>1, <2>2, <2>3
<1>5. PICK r \in Seq(Steps) : r = Tail(t)
  BY <1>2, TailFacts
<1>6. Len(r) = 1 /\ r[1] = t[2] /\ r # << >>
  <2>1. Len(Tail(t)) = Len(t) - 1 /\ DOMAIN Tail(t) = 1..(Len(t) - 1)
        /\ \A i \in DOMAIN Tail(t) : Tail(t)[i] = t[i + 1]
    BY <1>2, TailFacts
  <2>2. Len(r) = 1 /\ DOMAIN r = 1..1 /\ \A i \in 1..1 : r[i] = t[i + 1]
    BY <1>3, <1>4, <1>5, <2>1
  <2>3. r[1] = t[2]
    BY <2>2
  <2>4. r # << >>
    <3>1. Len(r) = 1
      BY <2>2
    <3> HIDE <2>2
    <3> QED
      BY <3>1
  <2> QED
    BY <2>2, <2>3, <2>4
<1>7. PICK m : m = t[1].m
  OBVIOUS
<1>8. PICK d : d = t[1].to
  OBVIOUS
<1>9. /\ t[2].how = "send"
      /\ \/ d = DISK /\ m.type = "DEV_IO"
         \/ d = SYSTASK /\ m.type = "SYS_KILL" /\ m.i1 = t[2].to /\ t[2].to \in UserSlots
      /\ \A c \in Procs : Serves(k, pc, plan, c) => Client(k, c) /\ c \notin closed \cap UserSlots
  <2>1. t[Len(t)].how = "send" /\ Len(t) = 2
    BY <1>2, <1>3, <1>4 DEF FSPlan
  <2>2. \/ d = DISK /\ m.type = "DEV_IO"
        \/ d = SYSTASK /\ m.type = "SYS_KILL" /\ m.i1 = t[2].to /\ t[2].to \in UserSlots
    BY <1>2, <1>7, <1>8, <2>1 DEF FSPlan, IsCall
  <2>3. \A c \in Procs : Serves(k, pc, plan, c) =>
          Client(k, c) /\ (c \in closed \cap UserSlots => HeadFS(k) /\ Len(t) <= 1)
    BY <1>2 DEF FSPlan
  <2>4. ~(Len(t) <= 1)
    BY <2>1
  <2> QED
    BY <2>1, <2>2, <2>3, <2>4
<1>10. m \in Mess
  BY <1>7 DEF PlanStep, Steps
<1>11. k' = send_rec([k EXCEPT !.mess[FS] = m], FS, d).k /\ paused' = paused
  BY <1>1, <1>7, <1>8, PlanStepIs
<1> HIDE <1>7, <1>8
<1>12. d \in Tasks /\ IdleTask(k, pc, d)
  BY <1>1, <1>9 DEF PlanStep
<1>13. KInv(k') /\ CallMade(FS, d, m, k')
  <2>1. PICK e : e = send_rec([k EXCEPT !.mess[FS] = m], FS, d)
    OBVIOUS
  <2>2. k' = e.k
    BY <1>11, <2>1
  <2> HIDE <1>11
  <2> QED
    BY <1>1, <1>10, <1>12, <2>1, <2>2, TaskCalled
<1> HIDE <1>11
<1>14. /\ k'.p_flags[FS] = {"RECEIVING"} /\ k'.p_getfrom[FS] = d
       /\ k'.p_flags[d] = {} /\ k'.mess[d] = From(m, FS) /\ k'.mess[FS] = m
       /\ \A x \in Procs \ {FS, d} :
            /\ k'.p_flags[x] = k.p_flags[x] /\ k'.p_getfrom[x] = k.p_getfrom[x]
            /\ k'.mess[x] = k.mess[x]
       /\ k'.p_int_blocked = k.p_int_blocked
       /\ CallsTaken(k, k') /\ \A u : Open(k', u) = Open(k, u)
  BY <1>13 DEF CallMade
<1>15. /\ UserMess(k) /\ PidsDiffer(k)
  BY DEF PlanStep, CInv, MailOK
<1>16. /\ \A u, v : Answerable(k, u, v) => Answerable(k', u, v)
       /\ UsersStay(k, k') /\ UserMess(k') /\ PidsDiffer(k')
  BY <1>14, <1>15, TakenStays
<1>17. MMKept(k, k', pc)
  BY <1>1, <1>12, <1>14 DEF MMKept
<1>18. /\ pc'[FS] = "plan" /\ plan'[FS] = r /\ pc[FS] = "plan" /\ k.p_flags[FS] = {}
       /\ (\A p \in Tasks : k.p_flags[p] # {} /\ pc'[p] = pc[p])
       /\ IdleTask(k, pc, SYSTASK) /\ IdleTask(k, pc, CLOCK) /\ IdleTask(k, pc, DISK)
       /\ ~k.p_int_blocked[SYSTASK] /\ ~k.p_int_blocked[DISK]
  BY <1>1, <1>5, <1>6 DEF PlanStep
<1>19. WaitsFor(k', FS, d) /\ pc'[d] = "work"
  BY <1>12, <1>14, <1>18 DEF WaitsFor, IdleTask
<1>20. \A x \in Tasks \ {d} : IdleTask(k, pc, x) => IdleTask(k', pc', x)
  BY <1>1, <1>14, <1>18 DEF IdleTask, WaitsFor
<1>21. From(m, FS).src = FS /\ From(m, FS).type = m.type /\ From(m, FS).i1 = m.i1
       /\ [m EXCEPT !.src = FS] = From(m, FS)
  BY <1>10 DEF From, Mess
<1>22. TasksOK(k', pc') /\ ~Busy(k', pc', MM)
  <2>1. CASE d = DISK
    <3>1. IdleTask(k', pc', SYSTASK) /\ IdleTask(k', pc', CLOCK)
      BY <1>1, <1>18, <1>20, <2>1
    <3>2. k'.p_flags[SYSTASK] # {}
      BY <1>1, <1>14, <1>18, <2>1
    <3>3. SysState(k', pc') /\ ClockState(k', pc') /\ ~Busy(k', pc', MM)
      BY <1>14, <1>18, <3>1, <3>2 DEF SysState, ClockState, Busy
    <3>4. DiskState(k', pc')
      BY <1>14, <1>18, <1>19, <2>1 DEF DiskState
    <3> QED
      BY <3>3, <3>4 DEF TasksOK
  <2>2. CASE d = SYSTASK
    <3>1. IdleTask(k', pc', DISK) /\ IdleTask(k', pc', CLOCK)
      BY <1>1, <1>18, <1>20, <2>2
    <3>2. k'.proc_ptr = SYSTASK
      <4>1. \A x \in Tasks \ {SYSTASK} : k'.p_flags[x] # {}
        BY <1>1, <1>14, <1>18, <2>2
      <4> QED
        BY <1>13, <1>14, <2>2, <4>1, SysFirst
    <3>3. Busy(k', pc', FS) /\ ~Busy(k', pc', MM)
      BY <1>1, <1>14, <1>19, <1>21, <2>2 DEF Busy
    <3>4. k'.mess[SYSTASK] = [k'.mess[FS] EXCEPT !.src = FS]
      BY <1>14, <1>21, <2>2
    <3>5. SysState(k', pc')
      BY <1>1, <1>14, <1>18, <1>19, <2>2, <3>2, <3>3, <3>4 DEF SysState
    <3>6. ClockState(k', pc') /\ DiskState(k', pc')
      BY <1>14, <1>18, <3>1 DEF ClockState, DiskState
    <3> QED
      BY <3>3, <3>5, <3>6 DEF TasksOK
  <2> QED
    BY <1>9, <2>1, <2>2
<1>23. ServerState(k', pc', plan', FS)
  BY <1>1, <1>6, <1>12, <1>14, <1>18 DEF ServerState
<1>24. \A c : Serves(k', pc', plan', c) <=> Serves(k, pc, plan, c)
  <2>1. t[Len(t)] = t[2] /\ r[Len(r)] = t[2]
    BY <1>3, <1>4, <1>6
  <2> QED
    BY <1>2, <1>6, <1>18, <2>1 DEF Serves
<1>25. FSPlan(k', pc', plan', closed)
  <2>1. ASSUME NEW c \in Procs, Serves(k', pc', plan', c)
        PROVE  Client(k', c) /\ c \notin closed \cap UserSlots
    <3>1. Client(k, c) /\ c \notin closed \cap UserSlots
      BY <1>9, <1>24, <2>1
    <3>2. WaitsFor(k, MM, FS) => WaitsFor(k', MM, FS)
      BY <1>1, <1>12, <1>14 DEF WaitsFor
    <3> QED
      BY <1>16, <3>1, <3>2 DEF Client
  <2>2. ASSUME Busy(k', pc', FS)
        PROVE  /\ k'.mess[SYSTASK].type = "SYS_KILL" /\ k'.mess[SYSTASK].i1 \in UserSlots
               /\ Serves(k', pc', plan', k'.mess[SYSTASK].i1)
    <3>1. d = SYSTASK
      BY <1>1, <1>9, <1>14, <1>18, <2>2 DEF Busy
    <3>2. /\ k'.mess[SYSTASK].type = "SYS_KILL" /\ k'.mess[SYSTASK].i1 = t[2].to
          /\ t[2].to \in UserSlots
      BY <1>1, <1>9, <1>14, <1>21, <3>1
    <3>3. Serves(k', pc', plan', t[2].to)
      BY <1>6, <1>18 DEF Serves
    <3> QED
      BY <3>2, <3>3
  <2>3. Len(r) <= 2 /\ Len(r) # 2 /\ r[Len(r)].how = "send"
    BY <1>6, <1>9
  <2> QED
    BY <1>18, <2>1, <2>2, <2>3 DEF FSPlan
<1> QED
  BY <1>11, <1>13, <1>14, <1>16, <1>17, <1>22, <1>23, <1>25, FSDone

\* FS goes on with its plan.
LEMMA FSSteps ==
  ASSUME Now, ServerStep(FS)
  PROVE  Now'
<1>1. PlanStep(FS, plan[FS])
  BY StepsOfPlan, SystemProcs
<1> QED
  BY <1>1, FSAnswers, FSAsks
-----------------------------------------------------------------------------
(* The steps of MM's plan *)

\* While MM does a step of its plan, nothing that it told FS is on its way.
MMOnStep(t) ==
  /\ PlanStep(MM, t) /\ MMPlan(k, paused, closed, t)
  /\ InTransit(k, pc) = NoMess /\ ~Serves(k, pc, plan, MM)
  /\ \A c \in closed \cap UserSlots : ~Serves(k, pc, plan, c)
  /\ \A u \in UserSlots : ~isemptyp(k, u) => Open(k, u) = Cardinality(Ends(t, u))

\* When MM does a step, FS has seen to what MM told it.
LEMMA MMSteps ==
  ASSUME Now, ServerStep(MM)
  PROVE  MMOnStep(plan[MM])
<1>1. MM \in Servers /\ MM \in Procs /\ MM \notin UserSlots /\ UserSlots \subseteq Procs
  BY SystemProcs
<1>2. PlanStep(MM, plan[MM])
  BY <1>1, StepsOfPlan
<1>3. /\ CInv(k, pc, plan, paused, closed) /\ k.p_flags[MM] = {} /\ pc[MM] = "plan"
      /\ ~HeadFS(k) /\ TodoOK(k, pc, paused, closed, plan[MM])
  BY <1>2 DEF PlanStep
<1>4. ~Client(k, MM)
  BY <1>1, <1>3 DEF Client, WaitsFor, Answerable
<1>5. /\ ~Serves(k, pc, plan, MM)
      /\ \A c \in closed \cap UserSlots : ~Serves(k, pc, plan, c)
  <2>1. FSPlan(k, pc, plan, closed)
    BY <1>3 DEF CInv
  <2> QED
    BY <1>1, <1>3, <1>4, <2>1 DEF FSPlan
<1>6. InTransit(k, pc) = NoMess
  BY <1>3, <1>5 DEF InTransit, Serves
<1>7. Known(k, pc, closed) = closed
  BY <1>6 DEF Known, NoMess
<1>8. /\ MMPlan(k, paused, closed, plan[MM]) /\ OpenOK(k, pc, plan[MM])
  BY <1>3, <1>7 DEF TodoOK
<1>9. ASSUME NEW u \in UserSlots, ~isemptyp(k, u)
      PROVE  Open(k, u) = Cardinality(Ends(plan[MM], u))
  <2>1. HasTold(k, pc, u) = 0
    BY <1>3 DEF HasTold, Got
  <2>2. PICK c \in Nat : c = Cardinality(Ends(plan[MM], u))
    <3>1. plan[MM] \in Seq(Steps)
      BY <1>2 DEF PlanStep
    <3> QED
      BY <3>1, EndsTail
  <2>3. Open(k, u) = c + 0
    BY <1>8, <1>9, <2>1, <2>2 DEF OpenOK
  <2> QED
    BY <2>2, <2>3
<1> QED
  BY <1>2, <1>5, <1>6, <1>8, <1>9 DEF MMOnStep

\* The file system has nothing to do with the step.
FSKept(n) ==
  /\ n.p_flags[FS] = k.p_flags[FS] /\ n.p_getfrom[FS] = k.p_getfrom[FS]
  /\ n.mess[FS] = k.mess[FS]

\* A step that leaves FS alone leaves its plan in order.
LEMMA FSLeft ==
  ASSUME NEW t, MMOnStep(t), FSKept(k'), ~Busy(k', pc', FS),
         \A u \in UserSlots : Answerable(k, u, FS) => Answerable(k', u, FS)
  PROVE  /\ ServerState(k', pc', plan', FS) /\ FSPlan(k', pc', plan', closed)
         /\ FSGot(k', pc') /\ (\A c : Serves(k', pc', plan', c) <=> Serves(k, pc, plan, c))
         /\ ~(pc'[FS] = "work" /\ k'.p_flags[FS] = {} /\ k'.mess[FS].src = MM)
<1>1. MM \in Servers /\ FS \in Servers /\ MM # FS /\ FS \in (Tasks \cup Servers) \ {MM}
      /\ FS \in Servers \ {MM} /\ Tasks \cap Servers = {}
  BY SystemProcs
<1>2. /\ plan'[FS] = plan[FS] /\ pc'[FS] = pc[FS] /\ CInv(k, pc, plan, paused, closed)
      /\ ~Serves(k, pc, plan, MM)
      /\ \A c \in closed \cap UserSlots : ~Serves(k, pc, plan, c)
  BY <1>1 DEF MMOnStep, PlanStep
<1>3. ServerState(k, pc, plan, FS) /\ FSPlan(k, pc, plan, closed) /\ FSGot(k, pc)
  BY <1>2 DEF CInv, ServersOK, MailOK
<1>4. \A c : Serves(k', pc', plan', c) <=> Serves(k, pc, plan, c)
  BY <1>2 DEF Serves, FSKept
<1>5. ServerState(k', pc', plan', FS)
  BY <1>2, <1>3 DEF ServerState, WaitsFor, FSKept
<1>6. FSGot(k', pc')
  BY <1>2, <1>3 DEF FSGot, Got, FSKept
<1>7. ASSUME NEW c \in Procs, Serves(k', pc', plan', c)
      PROVE  Client(k', c) /\ c \notin closed \cap UserSlots
  <2>1. Serves(k, pc, plan, c) /\ Client(k, c)
    BY <1>3, <1>4, <1>7 DEF FSPlan
  <2>2. c # MM
    BY <1>2, <2>1
  <2>3. Answerable(k, c, FS)
    BY <2>1, <2>2 DEF Client
  <2>4. Answerable(k', c, FS)
    BY <2>3 DEF Answerable
  <2> QED
    BY <1>2, <2>1, <2>4 DEF Client
<1>8. FSPlan(k', pc', plan', closed)
  BY <1>2, <1>3, <1>7 DEF FSPlan
<1>9. ~(pc'[FS] = "work" /\ k'.p_flags[FS] = {} /\ k'.mess[FS].src = MM)
  BY <1>2, <1>4 DEF Serves
<1> QED
  BY <1>4, <1>5, <1>6, <1>8, <1>9

\* All goes on after a step of MM when this does.
LEMMA MMDone ==
  ASSUME NEW t, MMOnStep(t), KInv(k'), TasksOK(k', pc'),
         ServerState(k', pc', plan', MM), ServerState(k', pc', plan', FS),
         FSPlan(k', pc', plan', closed), FSGot(k', pc'),
         UserMess(k'), PidsDiffer(k'), PausedOK(k', paused'), paused' \subseteq UserSlots,
         NEW r, r = Todo(k', pc', plan'), MMPlan(k', paused', Known(k', pc', closed), r),
         TellsFork(k', pc') => NoXit(r),
         \A u \in UserSlots : ~isemptyp(k', u) => Open(k', u) = Cardinality(Ends(r, u)),
         Exiting(k', pc', plan', paused'),
         r \in Seq(Steps)
  PROVE  Now'
<1>1. /\ plan' \in [Servers -> Seq(Steps)] /\ pc' \in PcType /\ closed' = closed
      /\ pc'[MM] # "work"
  BY DEF MMOnStep, PlanStep
<1>2. OpenOK(k', pc', r)
  <2>1. ASSUME NEW u \in UserSlots, ~isemptyp(k', u)
        PROVE  Open(k', u) = Cardinality(Ends(r, u)) + HasTold(k', pc', u)
    <3>1. HasTold(k', pc', u) = 0
      BY <1>1 DEF HasTold, Got
    <3>2. PICK c \in Nat : c = Cardinality(Ends(r, u))
      BY EndsTail
    <3>3. Open(k', u) = c + 0
      BY <2>1, <3>2
    <3> QED
      BY <3>1, <3>2, <3>3
  <2> QED
    BY <2>1 DEF OpenOK
<1>3. TodoOK(k', pc', paused', closed, r)
  BY <1>2 DEF TodoOK
<1>4. MailOK(k', pc', paused')
  BY <1>1 DEF MailOK, MMGot, Got
<1>5. CtlTyped(pc', plan', paused')
  BY <1>1 DEF CtlTyped, PcType
<1>6. Good(k', pc', plan', paused', closed)
  BY <1>3, <1>4, <1>5 DEF CInv, Good, ServersOK
<1> QED
  BY <1>1, <1>6 DEF Now
\* MM does the first step of its plan with the message m, and e comes of it.
MMDoes(t, m, e) ==
  /\ m = IF t[1].how = "result" THEN k.mess[MM] ELSE t[1].m
  /\ e = IF t[1].how = "sendrec" THEN send_rec([k EXCEPT !.mess[MM] = m], MM, t[1].to)
         ELSE mini_send([k EXCEPT !.mess[MM] = m], MM, t[1].to, MM)
  /\ k' = IF e.r # OK THEN [e.k EXCEPT !.panic = TRUE] ELSE e.k
  /\ paused' = IF m.type = "SYS_XIT" THEN paused \ {m.i2}
               ELSE IF t[1].how # "sendrec" THEN paused \ {t[1].to}
               ELSE paused

\* ServerStep(MM), case by case
LEMMA MMStepIs ==
  ASSUME ServerStep(MM), NEW t, PlanStep(MM, t)
  PROVE  \E m, e : MMDoes(t, m, e)
<1>1. t = plan[MM] /\ Head(t) = t[1]
  BY TailFacts DEF PlanStep
<1>2. PICK m : m = IF t[1].how = "result" THEN k.mess[MM] ELSE t[1].m
  OBVIOUS
<1>3. PICK s : s = [k EXCEPT !.mess[MM] = m]
  OBVIOUS
<1>4. PICK e : e = IF t[1].how = "sendrec" THEN send_rec(s, MM, t[1].to)
                   ELSE mini_send(s, MM, t[1].to, MM)
  OBVIOUS
<1>5. /\ k' = IF e.r # OK THEN [e.k EXCEPT !.panic = TRUE] ELSE e.k
      /\ paused' = IF m.type = "SYS_XIT" THEN paused \ {m.i2}
                   ELSE IF t[1].how # "sendrec" THEN paused \ {t[1].to}
                   ELSE paused
  BY <1>1, <1>2, <1>3, <1>4 DEF ServerStep
<1>6. e = IF t[1].how = "sendrec" THEN send_rec([k EXCEPT !.mess[MM] = m], MM, t[1].to)
          ELSE mini_send([k EXCEPT !.mess[MM] = m], MM, t[1].to, MM)
  BY <1>3, <1>4
<1> HIDE <1>3, <1>4
<1>7. MMDoes(t, m, e)
  BY <1>2, <1>5, <1>6 DEF MMDoes
<1> QED
  BY <1>7

\* MM answers a process: it is the first step of the plan, so it waits for it.
LEMMA MMAnswers ==
  ASSUME ServerStep(MM), NEW t, MMOnStep(t), t[1].how # "sendrec"
  PROVE  Now'
<1>1. MM \in Servers /\ FS \in Servers /\ MM # FS /\ MM \notin Tasks /\ MM \in Procs
      /\ FS \in Procs /\ MM \notin UserSlots /\ FS \notin UserSlots
      /\ Tasks \subseteq Procs /\ Tasks \cap Servers = {} /\ Tasks \cap UserSlots = {}
      /\ UserSlots \subseteq Procs
  BY SystemProcs
<1>2. /\ PlanStep(MM, t) /\ KInv(k) /\ k \in KernelState /\ k.proc_ptr = MM
      /\ k.p_flags[MM] = {} /\ t \in Seq(Steps) /\ t # << >> /\ t[1] \in Steps
      /\ CInv(k, pc, plan, paused, closed)
  BY DEF MMOnStep, PlanStep
<1>3. PICK c : c = t[1].to
  OBVIOUS
<1>4. PICK m, e : MMDoes(t, m, e)
  BY <1>2, MMStepIs
<1>5. m \in Mess
  BY <1>1, <1>2, <1>4 DEF KernelState, Steps, MMDoes
<1>6. e = mini_send([k EXCEPT !.mess[MM] = m], MM, c, MM)
  BY <1>3, <1>4 DEF MMDoes
<1>7. /\ k' = IF e.r # OK THEN [e.k EXCEPT !.panic = TRUE] ELSE e.k
      /\ paused' = IF m.type = "SYS_XIT" THEN paused \ {m.i2} ELSE paused \ {c}
  BY <1>3, <1>4 DEF MMDoes
<1>8. MMElem(k, paused, closed, t, 1) /\ RepliesOnce(t)
  <2>1. 1 \in DOMAIN t
    BY <1>2, TailFacts
  <2> QED
    BY <2>1 DEF MMOnStep, MMPlan
<1>9. ReplyOK(k, paused, t, 1)
  BY <1>8 DEF MMElem, SysCallOK, OtherCallOK
<1>10. /\ IsReply(t[1]) /\ c \in UserSlots /\ Answerable(k, c, MM)
       /\ t[1].m.type \in {"REPLY", "none"} /\ (t[1].how = "result" => c \notin paused)
  BY <1>3, <1>9 DEF ReplyOK
<1>11. c \notin paused' /\ paused' \subseteq paused
  <2>1. t[1].how # "result" => m.type # "SYS_XIT"
    BY <1>4, <1>10 DEF MMDoes
  <2> QED
    BY <1>7, <1>10, <2>1
<1>12. /\ c \in Servers \cup UserSlots /\ ~isemptyp(k, c) /\ MM # c
       /\ "RECEIVING" \in k.p_flags[c] /\ "SENDING" \notin k.p_flags[c] /\ k.p_getfrom[c] = MM
  BY <1>1, <1>10 DEF Answerable
<1> HIDE <1>4
<1>13. RepliedIs(k, m, MM, c, k') /\ KInv(k')
  <2>1. e.r = OK /\ RepliedIs(k, m, MM, c, e.k) /\ KInv(e.k)
    BY <1>1, <1>2, <1>5, <1>6, <1>12, Replies
  <2>2. k' = e.k
    BY <1>7, <2>1
  <2> QED
    BY <2>1, <2>2
<1> HIDE <1>3, <1>6, <1>7
<1>14. UserMess(k) /\ PidsDiffer(k) /\ PausedOK(k, paused) /\ TasksOK(k, pc)
       /\ paused \subseteq UserSlots
  BY <1>2 DEF CInv, MailOK, CtlTyped
<1>15. /\ Answered(k, m, MM, c, k') /\ UserMess(k') /\ PidsDiffer(k')
       /\ \A u \in UserSlots : isemptyp(k', u) <=> isemptyp(k, u)
       /\ \A u \in UserSlots : \A v : u # c /\ Answerable(k, u, v) => Answerable(k', u, v)
       /\ \A u \in UserSlots : Open(k', u) = Open(k, u)
  BY <1>1, <1>2, <1>5, <1>12, <1>13, <1>14, AnsweredStays
<1>16. /\ \A x \in Procs \ {c} : k'.p_flags[x] = k.p_flags[x]
       /\ \A x \in Procs \ {MM, c} : k'.mess[x] = k.mess[x]
       /\ k'.p_getfrom = k.p_getfrom /\ k'.p_int_blocked = k.p_int_blocked
  BY <1>15 DEF Answered
<1>17. FSKept(k') /\ k'.p_flags[MM] = {}
  <2>1. FS \in Procs \ {MM, c} /\ FS \in Procs \ {c} /\ MM \in Procs \ {c}
    BY <1>1, <1>10
  <2> QED
    BY <1>2, <1>16, <2>1 DEF FSKept
<1>18. TasksOK(k', pc') /\ \A w : ~Busy(k', pc', w)
  <2>1. \A x \in Tasks : x \in Procs \ {c}
    BY <1>1, <1>10
  <2>2. \A p \in Tasks : k.p_flags[p] # {} /\ pc'[p] = pc[p]
    BY <1>1, <1>2 DEF PlanStep
  <2>3. TasksWait(k, pc, k', pc')
    BY <1>16, <2>1, <2>2 DEF TasksWait
  <2>4. WaitsFor(k, FS, DISK) => WaitsFor(k', FS, DISK)
    BY <1>17 DEF FSKept, WaitsFor
  <2> QED
    BY <1>14, <2>3, <2>4, TasksStay
<1>19. \A u \in UserSlots : Answerable(k, u, FS) => Answerable(k', u, FS)
  BY <1>1, <1>12, <1>15 DEF Answerable
<1>20. /\ ServerState(k', pc', plan', FS) /\ FSPlan(k', pc', plan', closed)
       /\ FSGot(k', pc')
       /\ ~(pc'[FS] = "work" /\ k'.p_flags[FS] = {} /\ k'.mess[FS].src = MM)
  BY <1>17, <1>18, <1>19, FSLeft
<1>21. PICK r \in Seq(Steps) : r = Tail(t)
  BY <1>2, TailFacts
<1>22. plan'[MM] = r /\ pc'[MM] = IF r = << >> THEN "recv" ELSE "plan"
  BY <1>2, <1>21 DEF PlanStep
<1>23. ServerState(k', pc', plan', MM)
  BY <1>17, <1>22 DEF ServerState
<1>24. Todo(k', pc', plan') = r
  BY <1>18, <1>22 DEF Todo
<1>25. InTransit(k', pc') = NoMess
  BY <1>17, <1>20 DEF InTransit
<1>26. Known(k', pc', closed) = closed /\ ~TellsFork(k', pc')
  BY <1>25 DEF Known, TellsFork, NoMess
<1>27. MMPlan(k', paused', closed, r)
  <2>1. ~IsCall(t[1], "SYS_FORK") /\ ~IsCall(t[1], "TELL_EXIT")
    BY DEF IsCall
  <2>2. \A u : ~Kid(t, u)
    BY <2>1 DEF Kid
  <2>3. ASSUME NEW u \in UserSlots, Answerable(k, u, MM) \/ Kid(t, u)
        PROVE  Answerable(k', u, MM) \/ Finishes(t, u)
    <3>1. CASE u = c
      BY <1>3, <1>10, <3>1 DEF Finishes
    <3>2. CASE u # c
      BY <1>15, <2>2, <2>3, <3>2
    <3> QED
      BY <3>1, <3>2
  <2>4. ASSUME NEW u \in UserSlots, ~isemptyp(k, u) \/ Kid(t, u)
        PROVE  ~isemptyp(k', u) \/ (IsCall(t[1], "SYS_XIT") /\ t[1].m.i2 = u)
    BY <1>15, <2>2, <2>4
  <2>5. MMPlan(k, paused, closed, t)
    BY DEF MMOnStep
  <2>6. IsCall(t[1], "TELL_EXIT") => t[1].m.i1 \in closed
    BY <2>1
  <2>7. MMPlan(k', paused', closed, Tail(t))
    BY <1>2, <1>11, <2>3, <2>4, <2>5, <2>6, TailStays
  <2> QED
    BY <1>21, <2>7
<1>28. ASSUME NEW u \in UserSlots, ~isemptyp(k', u) PROVE Open(k', u) = Cardinality(Ends(r, u))
  <2>1. Open(k, u) = Cardinality(Ends(t, u))
    BY <1>15, <1>28 DEF MMOnStep
  <2>2. ~EndsOne(t[1], u)
    BY <1>10 DEF EndsOne
  <2>3. /\ Cardinality(Ends(t, u)) = Cardinality(Ends(Tail(t), u)) + 0
        /\ Cardinality(Ends(r, u)) \in Nat
    BY <1>2, <2>2, EndsTail
  <2>4. PICK a \in Nat : a = Cardinality(Ends(r, u))
    BY <2>3
  <2>5. Cardinality(Ends(t, u)) = a + 0
    BY <1>21, <2>3, <2>4
  <2>6. Cardinality(Ends(t, u)) = a
    BY <2>5
  <2> QED
    BY <1>15, <2>1, <2>4, <2>6
<1>29. PausedOK(k', paused')
  BY <1>11, <1>14, <1>15 DEF PausedOK
<1>30. Exiting(k', pc', plan', paused')
  BY <1>18 DEF Exiting
<1>31. paused' \subseteq UserSlots
  BY <1>11, <1>14
<1> HIDE <1>21, <1>3, <1>7, <1>16
<1> QED
  BY <1>13, <1>15, <1>18, <1>20, <1>23, <1>24, <1>26, <1>27, <1>28, <1>29, <1>30, <1>31, MMDone
\* A call of MM: what is the first step of the plan
LEMMA MMCallIs ==
  ASSUME ServerStep(MM), NEW t, MMOnStep(t), t[1].how = "sendrec",
         NEW m, m = t[1].m, NEW e, e = send_rec([k EXCEPT !.mess[MM] = m], MM, t[1].to)
  PROVE  /\ m \in Mess /\ m.src = HARDWARE /\ t[1] \in Steps
         /\ e.r = OK => k' = e.k
         /\ paused' = IF m.type = "SYS_XIT" THEN paused \ {m.i2} ELSE paused
         /\ SysCallOK(k, paused, closed, t, 1) \/ OtherCallOK(k, t, 1)
<1>1. PlanStep(MM, t) /\ t \in Seq(Steps) /\ t # << >> /\ t[1] \in Steps
  BY DEF MMOnStep, PlanStep
<1>2. m \in Mess /\ m.src = HARDWARE
  BY <1>1 DEF Steps
<1>3. PICK m2, e2 : MMDoes(t, m2, e2)
  BY <1>1, MMStepIs
<1>4. m2 = m
  BY <1>3 DEF MMDoes
<1>5. e2 = e
  BY <1>3, <1>4 DEF MMDoes
<1>6. /\ e.r = OK => k' = e.k
      /\ paused' = IF m.type = "SYS_XIT" THEN paused \ {m.i2} ELSE paused
  BY <1>3, <1>4, <1>5 DEF MMDoes
<1>7. MMElem(k, paused, closed, t, 1)
  <2>1. 1 \in DOMAIN t
    BY <1>1, TailFacts
  <2> QED
    BY <2>1 DEF MMOnStep, MMPlan
<1>8. SysCallOK(k, paused, closed, t, 1) \/ OtherCallOK(k, t, 1)
  BY <1>7 DEF MMElem, ReplyOK, IsReply
<1> QED
  BY <1>1, <1>2, <1>6, <1>8

\* The processes of users are all that a plan has to know of what FS was told.
LEMMA KnownPlan ==
  ASSUME NEW s, NEW Z, NEW K, NEW K2, NEW t, MMPlan(s, Z, K, t),
         \A p \in UserSlots : p \in K => p \in K2
  PROVE  MMPlan(s, Z, K2, t)
<1>1. ASSUME NEW i \in DOMAIN t PROVE MMElem(s, Z, K2, t, i)
  <2>1. MMElem(s, Z, K, t, i)
    BY <1>1 DEF MMPlan
  <2>2. XitOK(s, K, t, i) => XitOK(s, K2, t, i)
    BY DEF XitOK
  <2> QED
    BY <2>1, <2>2 DEF MMElem, SysCallOK
<1> QED
  BY <1>1 DEF MMPlan

\* The rest of the plan after a call of CLOCK or FS
LEMMA RestStays ==
  ASSUME NEW t, MMOnStep(t), OtherCallOK(k, t, 1), NEW n, CallsTaken(k, n),
         \A u \in UserSlots : Open(n, u) = Open(k, u),
         NEW K2, \A p \in UserSlots : IsCall(t[1], "TELL_EXIT") /\ t[1].m.i1 = p => p \in K2
  PROVE  /\ Tail(t) \in Seq(Steps) /\ MMPlan(n, paused, K2, Tail(t))
         /\ \A u \in UserSlots : ~isemptyp(n, u) => Open(n, u) = Cardinality(Ends(Tail(t), u))
         /\ t[1].m.type = "TELL_FORK" => NoXit(Tail(t))
<1>1. t \in Seq(Steps) /\ t # << >> /\ MMPlan(k, paused, closed, t)
  BY DEF MMOnStep, PlanStep
<1>2. t[1].how = "sendrec" /\ t[1].m.type \in {"TELL_EXIT", "TELL_FORK", "SET_ALARM"}
  BY DEF OtherCallOK, Tidings
<1>3. /\ \A u, v : Answerable(k, u, v) => Answerable(n, u, v)
      /\ \A u \in UserSlots : isemptyp(n, u) <=> isemptyp(k, u)
  BY TakenStays
<1>4. \A u : ~Kid(t, u)
  BY <1>2 DEF Kid, IsCall
<1>5. MMPlan(n, paused, K2, Tail(t))
  <2>1. \A u \in UserSlots :
          Answerable(k, u, MM) \/ Kid(t, u) => Answerable(n, u, MM) \/ Finishes(t, u)
    BY <1>3, <1>4
  <2>2. \A u \in UserSlots :
          ~isemptyp(k, u) \/ Kid(t, u) =>
            ~isemptyp(n, u) \/ (IsCall(t[1], "SYS_XIT") /\ t[1].m.i2 = u)
    BY <1>3, <1>4
  <2>3. PICK K3 : K3 = IF IsCall(t[1], "TELL_EXIT") THEN K2 \cup {t[1].m.i1} ELSE K2
    OBVIOUS
  <2>4. IsCall(t[1], "TELL_EXIT") => t[1].m.i1 \in K3
    BY <2>3
  <2>5. MMPlan(n, paused, K3, Tail(t))
    <3> HIDE <2>3
    <3> QED
      BY <1>1, <2>1, <2>2, <2>4, TailStays
  <2>6. \A p \in UserSlots : p \in K3 => p \in K2
    BY <2>3
  <2> QED
    BY <2>5, <2>6, KnownPlan
<1>6. ASSUME NEW u \in UserSlots, ~isemptyp(n, u)
      PROVE  Open(n, u) = Cardinality(Ends(Tail(t), u))
  <2>1. Open(k, u) = Cardinality(Ends(t, u))
    BY <1>3, <1>6 DEF MMOnStep
  <2>2. ~EndsOne(t[1], u)
    BY <1>2 DEF EndsOne
  <2>3. Tail(t) \in Seq(Steps)
    BY <1>1, TailFacts
  <2>4. /\ Cardinality(Ends(t, u)) = Cardinality(Ends(Tail(t), u)) + 0
    BY <1>1, <2>2, EndsTail
  <2>5. PICK a \in Nat : a = Cardinality(Ends(Tail(t), u))
    BY <2>3, EndsTail
  <2>6. Cardinality(Ends(t, u)) = a + 0
    BY <2>4, <2>5
  <2>7. Cardinality(Ends(t, u)) = a
    BY <2>6
  <2> QED
    BY <2>1, <2>5, <2>7
<1>7. ASSUME t[1].m.type = "TELL_FORK" PROVE NoXit(Tail(t))
  <2>1. ASSUME NEW i \in DOMAIN Tail(t), IsCall(Tail(t)[i], "SYS_XIT") PROVE FALSE
    <3>1. /\ DOMAIN Tail(t) = 1..(Len(t) - 1) /\ Len(t) \in Nat
          /\ i + 1 \in DOMAIN t /\ Tail(t)[i] = t[i + 1]
      BY <1>1, TailFacts
    <3>2. PICK j \in DOMAIN t : j = i + 1 /\ t[j] = Tail(t)[i] /\ j # 1
      <4>1. i \in Nat /\ i >= 1
        BY <3>1
      <4>2. i + 1 # 1
        BY <4>1
      <4> QED
        BY <3>1, <4>2
    <3>3. MMElem(k, paused, closed, t, j) /\ IsCall(t[j], "SYS_XIT")
      BY <1>1, <2>1, <3>2 DEF MMPlan
    <3>4. XitOK(k, closed, t, j)
      BY <3>3, ElemKinds
    <3>5. j = 2 /\ IsCall(t[1], "TELL_EXIT")
      BY <3>2, <3>4 DEF XitOK
    <3> QED
      BY <1>7, <3>5 DEF IsCall
  <2> QED
    BY <2>1 DEF NoXit
<1>8. Tail(t) \in Seq(Steps)
  BY <1>1, TailFacts
<1> QED
  BY <1>5, <1>6, <1>7, <1>8

\* MM has the clock task set an alarm.
LEMMA MMAsksClock ==
  ASSUME ServerStep(MM), NEW t, MMOnStep(t), t[1].how = "sendrec", t[1].to = CLOCK
  PROVE  Now'
<1>1. MM \in Servers /\ FS \in Servers /\ MM # FS /\ MM \notin Tasks /\ MM \in Procs
      /\ FS \in Procs /\ MM \notin UserSlots /\ FS \notin UserSlots
      /\ Tasks \subseteq Procs /\ Tasks \cap Servers = {} /\ Tasks \cap UserSlots = {}
      /\ CLOCK \in Tasks /\ SYSTASK \in Tasks /\ DISK \in Tasks
      /\ CLOCK # SYSTASK /\ CLOCK # DISK /\ FS \notin Tasks
  BY SystemProcs
<1>2. PICK m : m = t[1].m
  OBVIOUS
<1>3. PICK e : e = send_rec([k EXCEPT !.mess[MM] = m], MM, CLOCK)
  OBVIOUS
<1>4. /\ m \in Mess /\ (e.r = OK => k' = e.k)
      /\ paused' = IF m.type = "SYS_XIT" THEN paused \ {m.i2} ELSE paused
      /\ SysCallOK(k, paused, closed, t, 1) \/ OtherCallOK(k, t, 1)
  BY <1>2, <1>3, MMCallIs
<1>5. OtherCallOK(k, t, 1)
  BY <1>1, <1>4 DEF SysCallOK
<1>6. m.type = "SET_ALARM" /\ m.i1 \in UserSlots /\ ~isemptyp(k, m.i1) /\ paused' = paused
  <2>1. m.type = "SET_ALARM" /\ m.i1 \in UserSlots /\ ~isemptyp(k, m.i1)
    BY <1>1, <1>2, <1>5 DEF OtherCallOK
  <2> QED
    BY <1>4, <2>1
<1>7. /\ PlanStep(MM, t) /\ IdleTask(k, pc, CLOCK) /\ IdleTask(k, pc, SYSTASK)
      /\ CInv(k, pc, plan, paused, closed)
      /\ (\A p \in Tasks : k.p_flags[p] # {} /\ pc'[p] = pc[p])
      /\ k.p_flags[MM] = {} /\ pc[MM] = "plan" /\ ~k.p_int_blocked[SYSTASK]
      /\ pc'[MM] # "work"
  BY <1>1 DEF MMOnStep, PlanStep
<1>8. KInv(k') /\ CallMade(MM, CLOCK, m, k')
  <2>1. e.r = OK /\ KInv(e.k) /\ CallMade(MM, CLOCK, m, e.k)
    BY <1>1, <1>3, <1>4, <1>7, TaskCalled
  <2> QED
    BY <1>4, <2>1
<1>9. /\ k'.p_flags[MM] = {"RECEIVING"} /\ k'.p_getfrom[MM] = CLOCK
      /\ k'.p_flags[CLOCK] = {} /\ k'.mess[CLOCK] = From(m, MM)
      /\ \A x \in Procs \ {MM, CLOCK} :
           /\ k'.p_flags[x] = k.p_flags[x] /\ k'.p_getfrom[x] = k.p_getfrom[x]
           /\ k'.mess[x] = k.mess[x]
      /\ k'.p_int_blocked = k.p_int_blocked
      /\ CallsTaken(k, k') /\ \A u : Open(k', u) = Open(k, u)
  BY <1>8 DEF CallMade
<1> HIDE <1>2, <1>3, <1>4
<1>10. UserMess(k) /\ PidsDiffer(k) /\ PausedOK(k, paused) /\ DiskState(k, pc)
       /\ paused \subseteq UserSlots
  BY <1>7 DEF CInv, MailOK, CtlTyped, TasksOK
<1>11. /\ \A u, v : Answerable(k, u, v) => Answerable(k', u, v)
       /\ UserMess(k') /\ PidsDiffer(k') /\ PausedOK(k', paused)
       /\ \A u \in UserSlots : isemptyp(k', u) <=> isemptyp(k, u)
  BY <1>9, <1>10, TakenStays
<1>12. /\ Tail(t) \in Seq(Steps) /\ MMPlan(k', paused, closed, Tail(t))
       /\ \A u \in UserSlots : ~isemptyp(k', u) => Open(k', u) = Cardinality(Ends(Tail(t), u))
  <2>1. ~IsCall(t[1], "TELL_EXIT")
    BY <1>2, <1>6 DEF IsCall
  <2> QED
    BY <1>5, <1>9, <2>1, RestStays
<1>13. FSKept(k') /\ k'.p_flags[SYSTASK] # {}
  BY <1>1, <1>7, <1>9 DEF FSKept
<1>14. \A v : ~Busy(k', pc', v)
  BY <1>13 DEF Busy
<1>15. TasksOK(k', pc')
  <2>1. IdleTask(k', pc', SYSTASK)
    BY <1>1, <1>7, <1>9 DEF IdleTask, WaitsFor
  <2>2. SysState(k', pc')
    BY <1>7, <1>9, <1>13, <2>1 DEF SysState
  <2>3. From(m, MM).src = MM /\ From(m, MM).type = m.type /\ From(m, MM).i1 = m.i1
    BY <1>4 DEF From, Mess
  <2>4. SetsAlarm(k')
    BY <1>6, <1>9, <1>11, <2>3 DEF SetsAlarm, WaitsFor
  <2>5. ClockState(k', pc')
    BY <1>1, <1>7, <1>9, <2>4 DEF ClockState, IdleTask
  <2>6. DiskState(k', pc')
    BY <1>1, <1>7, <1>9, <1>10, <1>13 DEF DiskState, IdleTask, DoneTask, WaitsFor, FSKept
  <2> QED
    BY <2>2, <2>5, <2>6 DEF TasksOK
<1>16. /\ ServerState(k', pc', plan', FS) /\ FSPlan(k', pc', plan', closed)
       /\ FSGot(k', pc')
       /\ ~(pc'[FS] = "work" /\ k'.p_flags[FS] = {} /\ k'.mess[FS].src = MM)
  BY <1>11, <1>13, <1>14, FSLeft
<1>17. PICK r \in Seq(Steps) : r = Tail(t)
  BY <1>12
<1>18. plan'[MM] = r /\ pc'[MM] = IF r = << >> THEN "recv" ELSE "plan"
  BY <1>7, <1>17 DEF PlanStep
<1>19. ServerState(k', pc', plan', MM)
  BY <1>1, <1>9, <1>18 DEF ServerState
<1>20. Todo(k', pc', plan') = r
  BY <1>14, <1>18 DEF Todo
<1>21. InTransit(k', pc') = NoMess
  BY <1>9, <1>16 DEF InTransit
<1>22. Known(k', pc', closed) = closed /\ ~TellsFork(k', pc')
  BY <1>21 DEF Known, TellsFork, NoMess
<1>23. Exiting(k', pc', plan', paused')
  BY <1>14 DEF Exiting
<1>24. /\ MMPlan(k', paused', closed, r) /\ PausedOK(k', paused') /\ paused' \subseteq UserSlots
       /\ \A u \in UserSlots : ~isemptyp(k', u) => Open(k', u) = Cardinality(Ends(r, u))
  BY <1>6, <1>10, <1>11, <1>12, <1>17
<1> HIDE <1>17, <1>6, <1>9
<1> QED
  BY <1>8, <1>11, <1>15, <1>16, <1>19, <1>20, <1>22, <1>23, <1>24, MMDone
\* A plan is its first step and the rest.
LEMMA FirstAndRest ==
  ASSUME NEW S, NEW t \in Seq(S), t # << >>, NEW e, e = t[1]
  PROVE  <<e>> \o Tail(t) = t
<1>1. PICK r : r = Tail(t)
  OBVIOUS
<1>2. PICK n \in Nat : n = Len(t)
  BY TailFacts
<1>3. /\ r \in Seq(S) /\ n >= 1 /\ Len(r) = n - 1 /\ DOMAIN t = 1..n /\ e \in S
      /\ \A i \in 1..(n - 1) : r[i] = t[i + 1]
  BY <1>1, <1>2, TailFacts
<1>4. PICK x : x = <<e>> \o r
  OBVIOUS
<1>5. x \in Seq(S) /\ x # << >> /\ x[1] = e /\ Tail(x) = r
  BY <1>3, <1>4, ConsFacts
<1>6. PICK l \in Nat : l = Len(x)
  BY <1>5, TailFacts
<1>7. /\ l >= 1 /\ Len(r) = l - 1 /\ DOMAIN x = 1..l
      /\ \A i \in 1..(l - 1) : r[i] = x[i + 1]
  BY <1>5, <1>6, TailFacts
<1>8. l = n
  BY <1>3, <1>7
<1>9. ASSUME NEW i \in 1..n PROVE x[i] = t[i]
  <2>1. CASE i = 1
    BY <1>5, <2>1
  <2>2. CASE i # 1
    <3>1. PICK j \in 1..(n - 1) : i = j + 1
      <4>1. i - 1 \in 1..(n - 1) /\ i = (i - 1) + 1
        BY <2>2
      <4> QED
        BY <4>1
    <3>2. r[j] = t[j + 1] /\ r[j] = x[j + 1]
      BY <1>3, <1>7, <1>8
    <3> QED
      BY <3>1, <3>2
  <2> QED
    BY <2>1, <2>2
<1>10. x = t
  <2> HIDE <1>1, <1>4
  <2>1. \A i \in 1..Len(x) : x[i] = t[i]
    BY <1>2, <1>6, <1>8, <1>9
  <2> QED
    BY <1>2, <1>5, <1>6, <1>8, <2>1, SeqEqual
<1> QED
  BY <1>1, <1>4, <1>10

\* MM has the system task do something.
LEMMA MMAsksSys ==
  ASSUME ServerStep(MM), NEW t, MMOnStep(t), t[1].how = "sendrec", t[1].to = SYSTASK
  PROVE  Now'
<1>1. MM \in Servers /\ FS \in Servers /\ MM # FS /\ MM \notin Tasks /\ MM \in Procs
      /\ FS \in Procs /\ MM \notin UserSlots /\ FS \notin UserSlots
      /\ Tasks \subseteq Procs /\ Tasks \cap Servers = {} /\ Tasks \cap UserSlots = {}
      /\ CLOCK \in Tasks /\ SYSTASK \in Tasks /\ DISK \in Tasks
      /\ CLOCK # SYSTASK /\ SYSTASK # DISK /\ FS \notin Tasks
  BY SystemProcs
<1>2. PICK m : m = t[1].m
  OBVIOUS
<1>3. PICK e : e = send_rec([k EXCEPT !.mess[MM] = m], MM, SYSTASK)
  OBVIOUS
<1>4. /\ m \in Mess /\ m.src = HARDWARE /\ t[1] \in Steps /\ (e.r = OK => k' = e.k)
      /\ paused' = IF m.type = "SYS_XIT" THEN paused \ {m.i2} ELSE paused
  BY <1>2, <1>3, MMCallIs
<1>5. m.type = "SYS_XIT" => m.i2 \in closed \cap UserSlots
  <2>1. 1 \in DOMAIN t
    BY TailFacts DEF MMOnStep, PlanStep
  <2>2. MMElem(k, paused, closed, t, 1)
    BY <2>1 DEF MMOnStep, MMPlan
  <2>3. IsCall(t[1], "SYS_XIT") => XitOK(k, closed, t, 1)
    BY <2>2, ElemKinds
  <2> QED
    BY <1>2, <2>3 DEF IsCall, XitOK
<1>6. /\ PlanStep(MM, t) /\ IdleTask(k, pc, CLOCK) /\ IdleTask(k, pc, SYSTASK)
      /\ CInv(k, pc, plan, paused, closed) /\ t \in Seq(Steps) /\ t # << >>
      /\ (\A p \in Tasks : k.p_flags[p] # {} /\ pc'[p] = pc[p])
      /\ k.p_flags[MM] = {} /\ pc[MM] = "plan" /\ ~k.p_int_blocked[SYSTASK]
      /\ pc'[MM] # "work"
  BY <1>1 DEF MMOnStep, PlanStep
<1>7. KInv(k') /\ CallMade(MM, SYSTASK, m, k')
  <2>1. e.r = OK /\ KInv(e.k) /\ CallMade(MM, SYSTASK, m, e.k)
    BY <1>1, <1>3, <1>4, <1>6, TaskCalled
  <2> QED
    BY <1>4, <2>1
<1>8. /\ k'.p_flags[MM] = {"RECEIVING"} /\ k'.p_getfrom[MM] = SYSTASK /\ k'.mess[MM] = m
      /\ k'.p_flags[SYSTASK] = {} /\ k'.mess[SYSTASK] = From(m, MM)
      /\ \A x \in Procs \ {MM, SYSTASK} :
           /\ k'.p_flags[x] = k.p_flags[x] /\ k'.p_getfrom[x] = k.p_getfrom[x]
           /\ k'.mess[x] = k.mess[x]
      /\ k'.p_int_blocked = k.p_int_blocked
      /\ CallsTaken(k, k') /\ \A u : Open(k', u) = Open(k, u)
  BY <1>7 DEF CallMade
<1>9. t[1] = [how |-> "sendrec", to |-> SYSTASK, m |-> m]
  BY <1>2, <1>4 DEF Steps
<1>10. /\ From(m, MM).src = MM /\ From(m, MM).type = m.type /\ From(m, MM).i2 = m.i2
       /\ [From(m, MM) EXCEPT !.src = HARDWARE] = m /\ [m EXCEPT !.src = MM] = From(m, MM)
  BY <1>4 DEF From, Mess
<1> HIDE <1>2, <1>3
<1>11. UserMess(k) /\ PidsDiffer(k) /\ PausedOK(k, paused) /\ DiskState(k, pc)
       /\ paused \subseteq UserSlots
  BY <1>6 DEF CInv, MailOK, CtlTyped, TasksOK
<1>12. /\ \A u, v : Answerable(k, u, v) => Answerable(k', u, v)
       /\ UserMess(k') /\ PidsDiffer(k') /\ PausedOK(k', paused) /\ UsersStay(k, k')
       /\ \A u \in UserSlots : isemptyp(k', u) <=> isemptyp(k, u)
  BY <1>8, <1>11, TakenStays
<1>13. paused' \subseteq paused /\ (m.type = "SYS_XIT" => m.i2 \notin paused')
  BY <1>4
<1>14. FSKept(k') /\ WaitsFor(k', MM, SYSTASK)
  BY <1>1, <1>6, <1>8 DEF FSKept, WaitsFor
<1>15. Busy(k', pc', MM) /\ ~Busy(k', pc', FS)
  BY <1>1, <1>6, <1>8, <1>10 DEF Busy, IdleTask
<1>16. TasksOK(k', pc')
  <2>1. k'.proc_ptr = SYSTASK
    <3>1. \A x \in Tasks \ {SYSTASK} : k'.p_flags[x] # {}
      BY <1>1, <1>6, <1>8
    <3> QED
      BY <1>7, <1>8, <3>1, SysFirst
  <2>2. k'.mess[SYSTASK] = [k'.mess[MM] EXCEPT !.src = MM]
    BY <1>8, <1>10
  <2>3. SysState(k', pc')
    BY <1>1, <1>6, <1>8, <1>14, <1>15, <2>1, <2>2 DEF SysState
  <2>4. IdleTask(k', pc', CLOCK)
    BY <1>1, <1>6, <1>8 DEF IdleTask, WaitsFor
  <2>5. ClockState(k', pc')
    BY <2>4 DEF ClockState
  <2>6. DiskState(k', pc')
    BY <1>1, <1>6, <1>8, <1>11, <1>14 DEF DiskState, IdleTask, DoneTask, WaitsFor, FSKept
  <2> QED
    BY <2>3, <2>5, <2>6 DEF TasksOK
<1>17. /\ ServerState(k', pc', plan', FS) /\ FSPlan(k', pc', plan', closed)
       /\ FSGot(k', pc') /\ (\A c : Serves(k', pc', plan', c) <=> Serves(k, pc, plan, c))
       /\ ~(pc'[FS] = "work" /\ k'.p_flags[FS] = {} /\ k'.mess[FS].src = MM)
  BY <1>12, <1>14, <1>15, FSLeft
<1>18. PICK r \in Seq(Steps) : r = Tail(t)
  BY <1>6, TailFacts
<1>19. plan'[MM] = r /\ pc'[MM] = IF r = << >> THEN "recv" ELSE "plan"
  BY <1>6, <1>18 DEF PlanStep
<1>20. ServerState(k', pc', plan', MM)
  BY <1>1, <1>8, <1>19 DEF ServerState
<1>21. Todo(k', pc', plan') = t
  <2>1. PICK a : a = t[1]
    OBVIOUS
  <2>2. Call(SYSTASK, [k'.mess[SYSTASK] EXCEPT !.src = HARDWARE]) = a
    BY <1>8, <1>9, <1>10, <2>1 DEF Call
  <2>3. <<a>> \o r = t
    BY <1>6, <1>18, <2>1, FirstAndRest
  <2> QED
    BY <1>15, <1>19, <2>2, <2>3 DEF Todo
<1>22. InTransit(k', pc') = NoMess
  BY <1>8, <1>17 DEF InTransit
<1>23. Known(k', pc', closed) = closed /\ ~TellsFork(k', pc')
  BY <1>22 DEF Known, TellsFork, NoMess
<1>24. MMPlan(k', paused', closed, t)
  <2>1. MMPlan(k, paused, closed, t)
    BY DEF MMOnStep
  <2> QED
    BY <1>12, <1>13, <2>1, PlanStays
<1>25. Exiting(k', pc', plan', paused')
  <2>1. ASSUME k'.mess[SYSTASK].type = "SYS_XIT"
        PROVE  /\ ~Serves(k', pc', plan', k'.mess[SYSTASK].i2)
               /\ k'.mess[SYSTASK].i2 \notin paused'
    <3>1. m.type = "SYS_XIT" /\ k'.mess[SYSTASK].i2 = m.i2
      BY <1>8, <1>10, <2>1
    <3>2. ~Serves(k, pc, plan, m.i2)
      BY <1>5, <3>1 DEF MMOnStep
    <3> QED
      BY <1>13, <1>17, <3>1, <3>2
  <2> QED
    BY <2>1 DEF Exiting
<1>26. /\ PausedOK(k', paused') /\ paused' \subseteq UserSlots
  BY <1>11, <1>12, <1>13 DEF PausedOK
<1>27. \A u \in UserSlots : ~isemptyp(k', u) => Open(k', u) = Cardinality(Ends(t, u))
  BY <1>8, <1>12 DEF MMOnStep
<1> HIDE <1>18, <1>4, <1>8, <1>9
<1> QED
  BY <1>6, <1>7, <1>12, <1>16, <1>17, <1>20, <1>21, <1>23, <1>24, <1>25, <1>26, <1>27, MMDone
\* FS takes what MM tells it, and MM waits for the answer.
TidingsTaken(m, n) ==
  /\ k.p_flags[FS] = {"RECEIVING"} /\ k.p_getfrom[FS] \in {ANY, MM}
  /\ n.p_flags[MM] = {"RECEIVING"} /\ n.p_getfrom[MM] = FS /\ n.mess[MM] = m
  /\ n.p_flags[FS] = {} /\ n.mess[FS] = From(m, MM)
  /\ \A x \in Procs \ {MM, FS} :
       /\ n.p_flags[x] = k.p_flags[x] /\ n.p_getfrom[x] = k.p_getfrom[x]
       /\ n.mess[x] = k.mess[x]
  /\ n.p_int_blocked = k.p_int_blocked
  /\ CallsTaken(k, n) /\ \A u : Open(n, u) = Open(k, u)
\* FS is busy, and MM waits until it takes what it is told.
TidingsQueued(m, n) ==
  /\ n.p_flags[MM] = {"SENDING", "RECEIVING"} /\ n.p_getfrom[MM] = FS /\ n.mess[MM] = m
  /\ \A x \in Procs \ {MM} :
       /\ n.p_flags[x] = k.p_flags[x] /\ n.p_getfrom[x] = k.p_getfrom[x]
       /\ n.mess[x] = k.mess[x]
  /\ n.p_int_blocked = k.p_int_blocked
  /\ CallsTaken(k, n) /\ \A u : Open(n, u) = Open(k, u)

\* One of the two happens.
LEMMA FSTold ==
  ASSUME NEW t, MMOnStep(t), NEW m \in Mess,
         NEW e, e = send_rec([k EXCEPT !.mess[MM] = m], MM, FS)
  PROVE  e.r = OK /\ KInv(e.k) /\ (TidingsTaken(m, e.k) \/ TidingsQueued(m, e.k))
<1>1. /\ MM \in Procs /\ FS \in Procs /\ MM # FS /\ MM \in Servers /\ FS \in Servers
      /\ (\A u \in UserSlots : u \in Procs \ {MM, FS} /\ u \in Procs \ {MM})
  BY SystemProcs
<1>2. KInv(k) /\ k \in KernelState /\ k.proc_ptr = MM /\ k.p_flags[MM] = {}
      /\ Base(k) /\ MMHears(k) /\ Scheduled(k)
  BY DEF MMOnStep, PlanStep, KInv
<1>3. PICK s : s = [k EXCEPT !.mess[MM] = m]
  OBVIOUS
<1>4. /\ s \in KernelState /\ SameSignals(k, s)
      /\ s.p_getfrom = k.p_getfrom /\ s.p_int_blocked = k.p_int_blocked
      /\ s.p_pid = k.p_pid /\ s.proc_ptr = k.proc_ptr
      /\ s.p_flags = k.p_flags
      /\ s.mess = [k.mess EXCEPT ![MM] = m]
      /\ Base(s) /\ MMHears(s) /\ Scheduled(s)
  BY <1>1, <1>2, <1>3, OwnMessage
<1>5. e = send_rec(s, MM, FS)
  BY <1>3
<1> HIDE <1>3
<1>6. KInv(s) /\ s.proc_ptr = MM
  BY <1>2, <1>4 DEF KInv
<1>7. s.mess[MM] = m /\ \A x \in Procs \ {MM} : s.mess[x] = k.mess[x]
  BY <1>1, <1>2, <1>4 DEF KernelState
<1>8. PICK n : n = e.k
  OBVIOUS
<1>9. k.p_flags \in [Procs -> SUBSET Flags] /\ k.p_getfrom \in [Procs -> Procs \cup {ANY}]
      /\ s.mess \in [Procs -> Mess] /\ k.p_sendto \in [Procs -> Procs]
  BY <1>2, <1>4 DEF KernelState
<1>10. CASE WaitsForMessageOf(s, FS, MM)
  <2>1. k.p_flags[FS] \in {{}, {"RECEIVING"}}
    BY <1>2 DEF Base, SystemFlags
  <2>2. k.p_flags[FS] = {"RECEIVING"} /\ k.p_getfrom[FS] \in {ANY, MM}
        /\ s.p_flags[FS] = {"RECEIVING"} /\ s.p_getfrom[FS] \in {ANY, MM}
    BY <1>4, <1>10, <2>1 DEF WaitsForMessageOf
  <2>3. "RECEIVING" \in s.p_flags[FS] /\ "SENDING" \notin s.p_flags[FS]
        /\ MM \in Servers \cup UserSlots /\ FS \in Tasks \cup Servers
    BY <1>1, <2>2
  <2>4. MM \notin UserSlots
    BY SystemProcs
  <2>5. e.r = OK /\ ExchangedIs(s, s.mess[MM], MM, FS, n) /\ KInv(n)
    BY <1>5, <1>6, <1>8, <2>2, <2>3, <2>4, CallDelivers
  <2>6. /\ n.p_getfrom = [k.p_getfrom EXCEPT ![MM] = FS]
        /\ n.p_int_blocked = k.p_int_blocked /\ n.p_pid = k.p_pid
        /\ n.mess = [s.mess EXCEPT ![FS] = From(m, MM)]
        /\ n.p_flags = [k.p_flags EXCEPT ![FS] = s.p_flags[FS] \ {"RECEIVING"},
                                         ![MM] = {"RECEIVING"}]
        /\ n.p_priority = k.p_priority /\ n.p_sendto = k.p_sendto
        /\ n.p_pending = k.p_pending /\ n.p_pendcount = k.p_pendcount
    BY <1>4, <1>7, <2>5 DEF ExchangedIs, From, SameSignals
  <2>7. /\ n.p_flags[MM] = {"RECEIVING"} /\ n.p_flags[FS] = {}
        /\ \A x \in Procs \ {MM, FS} : n.p_flags[x] = k.p_flags[x]
    <3>1. s.p_flags[FS] \ {"RECEIVING"} = {}
      BY <2>2
    <3> QED
      BY <1>1, <1>9, <2>6, <3>1
  <2>8. /\ n.mess[MM] = m /\ n.mess[FS] = From(m, MM)
        /\ \A x \in Procs \ {MM, FS} : n.mess[x] = k.mess[x]
    BY <1>1, <1>7, <1>9, <2>6
  <2>9. n.p_getfrom[MM] = FS /\ \A x \in Procs \ {MM} : n.p_getfrom[x] = k.p_getfrom[x]
    BY <1>1, <1>9, <2>6
  <2>10. \A u : Open(n, u) = Open(k, u)
    BY <2>6 DEF Open
  <2>11. CallsTaken(k, n)
    BY <1>1, <2>6, <2>7, <2>8, <2>9 DEF CallsTaken
  <2>12. TidingsTaken(m, n)
    BY <2>2, <2>6, <2>7, <2>8, <2>9, <2>10, <2>11 DEF TidingsTaken
  <2> QED
    BY <1>8, <2>5, <2>12
<1>11. CASE ~WaitsForMessageOf(s, FS, MM)
  <2>1. e.r = OK /\ QueuedIs(s, MM, FS, n) /\ KInv(n)
    BY <1>1, <1>5, <1>6, <1>8, <1>11, CallQueues
  <2>2. /\ n.p_getfrom = [k.p_getfrom EXCEPT ![MM] = FS]
        /\ n.p_int_blocked = k.p_int_blocked /\ n.p_pid = k.p_pid
        /\ n.mess = s.mess
        /\ n.p_flags = [k.p_flags EXCEPT ![MM] = {"SENDING", "RECEIVING"}]
        /\ n.p_priority = k.p_priority /\ n.p_sendto = [k.p_sendto EXCEPT ![MM] = FS]
        /\ n.p_pending = k.p_pending /\ n.p_pendcount = k.p_pendcount
    BY <1>4, <2>1 DEF QueuedIs, SameSignals
  <2>3. /\ n.p_flags[MM] = {"SENDING", "RECEIVING"} /\ n.p_getfrom[MM] = FS /\ n.mess[MM] = m
        /\ \A x \in Procs \ {MM} :
             /\ n.p_flags[x] = k.p_flags[x] /\ n.p_getfrom[x] = k.p_getfrom[x]
             /\ n.mess[x] = k.mess[x] /\ n.p_sendto[x] = k.p_sendto[x]
    BY <1>1, <1>7, <1>9, <2>2
  <2>4. \A u : Open(n, u) = Open(k, u)
    BY <2>2 DEF Open
  <2>5. CallsTaken(k, n)
    BY <1>1, <2>2, <2>3 DEF CallsTaken
  <2>6. TidingsQueued(m, n)
    BY <2>2, <2>3, <2>4, <2>5 DEF TidingsQueued
  <2> QED
    BY <1>8, <2>1, <2>6
<1> QED
  BY <1>10, <1>11

\* What MM tells FS
Tells(t, m) ==
  /\ MMOnStep(t) /\ m = t[1].m /\ m \in Mess /\ m.type \in Tidings
  /\ OtherCallOK(k, t, 1) /\ paused' = paused /\ KInv(k') /\ CallsTaken(k, k')
  /\ (\A u \in UserSlots : Open(k', u) = Open(k, u))

\* What is the same whether FS takes it or not
LEMMA ToldSame ==
  ASSUME NEW t, NEW m, Tells(t, m),
         k'.p_getfrom[MM] = FS, k'.p_flags[MM] \in {{"RECEIVING"}, {"SENDING", "RECEIVING"}},
         k'.mess[MM] = m,
         k'.p_int_blocked = k.p_int_blocked,
         \A x \in Tasks : k'.p_flags[x] = k.p_flags[x] /\ k'.p_getfrom[x] = k.p_getfrom[x],
         WaitsFor(k, FS, DISK) => WaitsFor(k', FS, DISK),
         InTransit(k', pc').type = m.type, InTransit(k', pc').i1 = m.i1,
         ServerState(k', pc', plan', FS), FSPlan(k', pc', plan', closed), FSGot(k', pc')
  PROVE  Now'
<1>1. MM \in Servers /\ FS \in Servers /\ MM # FS /\ MM \notin Tasks
      /\ Tasks \cap Servers = {}
  BY SystemProcs
<1>2. /\ MMOnStep(t) /\ PlanStep(MM, t) /\ CInv(k, pc, plan, paused, closed)
      /\ (\A p \in Tasks : k.p_flags[p] # {} /\ pc'[p] = pc[p])
      /\ pc'[MM] # "work" /\ closed' = closed
  BY <1>1 DEF Tells, MMOnStep, PlanStep
<1>3. UserMess(k) /\ PidsDiffer(k) /\ PausedOK(k, paused) /\ TasksOK(k, pc)
      /\ paused \subseteq UserSlots
  BY <1>2 DEF CInv, MailOK, CtlTyped
<1>4. CallsTaken(k, k') /\ (\A u \in UserSlots : Open(k', u) = Open(k, u))
      /\ paused' = paused /\ KInv(k') /\ m = t[1].m /\ m.type \in Tidings
      /\ OtherCallOK(k, t, 1)
  BY DEF Tells
<1>5. UserMess(k') /\ PidsDiffer(k') /\ PausedOK(k', paused)
  BY <1>3, <1>4, TakenStays
<1>6. TasksOK(k', pc') /\ \A v : ~Busy(k', pc', v)
  <2>1. TasksWait(k, pc, k', pc')
    BY <1>2 DEF TasksWait
  <2> QED
    BY <1>3, <2>1, TasksStay
<1>7. PICK K2 : K2 = Known(k', pc', closed)
  OBVIOUS
<1>8. \A p \in UserSlots : IsCall(t[1], "TELL_EXIT") /\ t[1].m.i1 = p => p \in K2
  BY <1>4, <1>7 DEF Known, IsCall
<1>9. /\ Tail(t) \in Seq(Steps) /\ MMPlan(k', paused, K2, Tail(t))
      /\ (\A u \in UserSlots : ~isemptyp(k', u) => Open(k', u) = Cardinality(Ends(Tail(t), u)))
      /\ (t[1].m.type = "TELL_FORK" => NoXit(Tail(t)))
  <2> HIDE <1>7
  <2> QED
    BY <1>2, <1>4, <1>8, RestStays
<1>10. PICK r \in Seq(Steps) : r = Tail(t)
  BY <1>9
<1>11. plan'[MM] = r /\ pc'[MM] = IF r = << >> THEN "recv" ELSE "plan"
  BY <1>2, <1>10 DEF PlanStep
<1>12. ServerState(k', pc', plan', MM)
  BY <1>1, <1>4, <1>11 DEF ServerState
<1>13. r = Todo(k', pc', plan')
  BY <1>6, <1>11 DEF Todo
<1>14. TellsFork(k', pc') => NoXit(r)
  BY <1>4, <1>9, <1>10 DEF TellsFork
<1>15. Exiting(k', pc', plan', paused')
  BY <1>6 DEF Exiting
<1>16. /\ MMPlan(k', paused', Known(k', pc', closed), r) /\ PausedOK(k', paused')
       /\ paused' \subseteq UserSlots
       /\ (\A u \in UserSlots : ~isemptyp(k', u) => Open(k', u) = Cardinality(Ends(r, u)))
  BY <1>3, <1>4, <1>5, <1>7, <1>9, <1>10
<1> HIDE <1>7, <1>10, <1>4, <1>9
<1> QED
  BY <1>2, <1>4, <1>5, <1>6, <1>12, <1>13, <1>14, <1>15, <1>16, MMDone

\* FS takes what it is told.
LEMMA MMToldFS ==
  ASSUME NEW t, NEW m, Tells(t, m), TidingsTaken(m, k')
  PROVE  Now'
<1>1. MM \in Servers /\ FS \in Servers /\ MM # FS /\ MM \notin Tasks /\ MM \in Procs
      /\ MM \notin UserSlots /\ FS \notin UserSlots /\ Tasks \subseteq Procs /\ DISK \in Tasks
      /\ Tasks \cap Servers = {} /\ ANY \notin Procs /\ FS \notin Tasks
  BY SystemProcs
<1>2. /\ k.p_flags[FS] = {"RECEIVING"} /\ k.p_getfrom[FS] \in {ANY, MM}
      /\ k'.p_flags[MM] = {"RECEIVING"} /\ k'.p_getfrom[MM] = FS /\ k'.mess[MM] = m
      /\ k'.p_flags[FS] = {} /\ k'.mess[FS] = From(m, MM)
      /\ \A x \in Procs \ {MM, FS} :
           k'.p_flags[x] = k.p_flags[x] /\ k'.p_getfrom[x] = k.p_getfrom[x]
      /\ k'.p_int_blocked = k.p_int_blocked
  BY DEF TidingsTaken
<1>3. /\ PlanStep(MM, t) /\ CInv(k, pc, plan, paused, closed)
      /\ pc'[FS] = pc[FS] /\ plan'[FS] = plan[FS] /\ m \in Mess /\ m.type \in Tidings
  BY <1>1 DEF Tells, MMOnStep, PlanStep
<1>4. pc[FS] = "work" /\ plan[FS] = << >>
  <2>1. ServerState(k, pc, plan, FS)
    BY <1>3 DEF CInv, ServersOK
  <2>2. k.p_getfrom[FS] \notin Tasks \cup {FS} /\ k.p_flags[FS] # {}
    <3>1. FS \in Procs
      BY SystemProcs
    <3>2. ANY \notin Tasks \cup {FS} /\ MM \notin Tasks \cup {FS}
      BY <1>1, <3>1
    <3>3. k.p_flags[FS] # {}
      BY <1>2
    <3> QED
      BY <1>2, <3>2, <3>3
  <2>3. pc[FS] = "work"
    BY <2>1, <2>2 DEF ServerState
  <2> QED
    BY <2>1, <2>3 DEF ServerState
<1>5. /\ pc'[FS] = "work" /\ plan'[FS] = << >>
      /\ k'.mess[FS].src = MM /\ k'.mess[FS].type = m.type /\ k'.mess[FS].i1 = m.i1
  <2>1. From(m, MM).src = MM /\ From(m, MM).type = m.type /\ From(m, MM).i1 = m.i1
    BY <1>3 DEF From, Mess
  <2> QED
    BY <1>2, <1>3, <1>4, <2>1
<1>6. InTransit(k', pc') = k'.mess[FS]
  BY <1>2, <1>5 DEF InTransit
<1>7. ~WaitsFor(k, FS, DISK)
  BY <1>1, <1>2 DEF WaitsFor
<1>8. \A v : ~Busy(k', pc', v)
  <2>1. SYSTASK \in Tasks /\ SYSTASK \in Procs \ {MM, FS} /\ k.p_flags[SYSTASK] # {}
    BY <1>1, <1>3, SystemProcs DEF PlanStep
  <2> QED
    BY <1>2, <2>1 DEF Busy
<1>9. ServerState(k', pc', plan', FS)
  BY <1>2, <1>5 DEF ServerState
<1>10. FSGot(k', pc')
  BY <1>3, <1>5 DEF FSGot
<1>11. FSPlan(k', pc', plan', closed)
  <2>1. Len(plan'[FS]) = 0
    BY <1>5
  <2>2. \A c \in Procs : Serves(k', pc', plan', c) => c = MM
    BY <1>5 DEF Serves
  <2>3. Client(k', MM)
    BY <1>2 DEF Client, WaitsFor
  <2> QED
    BY <1>1, <1>5, <1>8, <2>1, <2>2, <2>3 DEF FSPlan
<1>12. \A x \in Tasks : k'.p_flags[x] = k.p_flags[x] /\ k'.p_getfrom[x] = k.p_getfrom[x]
  BY <1>1, <1>2
<1> QED
  BY <1>2, <1>5, <1>6, <1>7, <1>9, <1>10, <1>11, <1>12, ToldSame

\* FS is busy.
LEMMA MMWaitsToTell ==
  ASSUME NEW t, NEW m, Tells(t, m), TidingsQueued(m, k')
  PROVE  Now'
<1>1. MM \in Servers /\ FS \in Servers /\ MM # FS /\ MM \notin Tasks /\ MM \in Procs
      /\ FS \in Procs \ {MM} /\ Tasks \subseteq Procs \ {MM}
  BY SystemProcs
<1>2. /\ k'.p_flags[MM] = {"SENDING", "RECEIVING"} /\ k'.p_getfrom[MM] = FS
      /\ k'.mess[MM] = m
      /\ \A x \in Procs \ {MM} :
           /\ k'.p_flags[x] = k.p_flags[x] /\ k'.p_getfrom[x] = k.p_getfrom[x]
           /\ k'.mess[x] = k.mess[x]
      /\ k'.p_int_blocked = k.p_int_blocked
  BY DEF TidingsQueued
<1>3. MMOnStep(t) /\ PlanStep(MM, t) /\ CallsTaken(k, k')
  BY DEF Tells, MMOnStep
<1>4. FSKept(k')
  BY <1>1, <1>2 DEF FSKept
<1>5. ~Busy(k', pc', FS)
  <2>1. SYSTASK \in Tasks /\ k.p_flags[SYSTASK] # {}
    BY <1>3, SystemProcs DEF PlanStep
  <2> QED
    BY <1>1, <1>2, <2>1 DEF Busy
<1>6. /\ ServerState(k', pc', plan', FS) /\ FSPlan(k', pc', plan', closed)
      /\ FSGot(k', pc')
  <2>1. \A u \in UserSlots : Answerable(k, u, FS) => Answerable(k', u, FS)
    BY <1>3, TakenStays
  <2> QED
    BY <1>3, <1>4, <1>5, <2>1, FSLeft
<1>7. InTransit(k', pc') = m
  BY <1>2 DEF InTransit
<1>8. WaitsFor(k, FS, DISK) => WaitsFor(k', FS, DISK)
  BY <1>4 DEF FSKept, WaitsFor
<1>9. \A x \in Tasks : k'.p_flags[x] = k.p_flags[x] /\ k'.p_getfrom[x] = k.p_getfrom[x]
  BY <1>1, <1>2
<1> QED
  BY <1>2, <1>6, <1>7, <1>8, <1>9, ToldSame

\* MM tells FS of a fork or an end.
LEMMA MMTellsFS ==
  ASSUME ServerStep(MM), NEW t, MMOnStep(t), t[1].how = "sendrec", t[1].to = FS
  PROVE  Now'
<1>1. FS # CLOCK /\ FS # SYSTASK
  BY SystemProcs
<1>2. PICK m : m = t[1].m
  OBVIOUS
<1>3. PICK e : e = send_rec([k EXCEPT !.mess[MM] = m], MM, FS)
  OBVIOUS
<1>4. /\ m \in Mess /\ (e.r = OK => k' = e.k)
      /\ paused' = IF m.type = "SYS_XIT" THEN paused \ {m.i2} ELSE paused
      /\ SysCallOK(k, paused, closed, t, 1) \/ OtherCallOK(k, t, 1)
  BY <1>2, <1>3, MMCallIs
<1>5. OtherCallOK(k, t, 1)
  BY <1>1, <1>4 DEF SysCallOK
<1>6. m.type \in Tidings
  BY <1>1, <1>2, <1>5 DEF OtherCallOK
<1>7. paused' = paused
  BY <1>4, <1>6 DEF Tidings
<1>8. e.r = OK /\ KInv(e.k) /\ (TidingsTaken(m, e.k) \/ TidingsQueued(m, e.k))
  BY <1>3, <1>4, FSTold
<1>9. KInv(k') /\ (TidingsTaken(m, k') \/ TidingsQueued(m, k'))
  BY <1>4, <1>8
<1>10. CallsTaken(k, k') /\ (\A u \in UserSlots : Open(k', u) = Open(k, u))
  BY <1>9 DEF TidingsTaken, TidingsQueued
<1>11. Tells(t, m)
  BY <1>2, <1>4, <1>5, <1>6, <1>7, <1>9, <1>10 DEF Tells
<1> QED
  BY <1>9, <1>11, MMToldFS, MMWaitsToTell

\* MM goes on with its plan.
LEMMA MMStepsOn ==
  ASSUME Now, ServerStep(MM)
  PROVE  Now'
<1>1. PICK t : t = plan[MM]
  OBVIOUS
<1>2. MMOnStep(t)
  BY <1>1, MMSteps
<1>3. CASE t[1].how # "sendrec"
  BY <1>2, <1>3, MMAnswers
<1>4. CASE t[1].how = "sendrec"
  <2>1. SysCallOK(k, paused, closed, t, 1) \/ OtherCallOK(k, t, 1)
    BY <1>2, <1>4, MMCallIs
  <2>2. t[1].to \in {SYSTASK, CLOCK, FS}
    BY <2>1 DEF SysCallOK, OtherCallOK
  <2> QED
    BY <1>2, <1>4, <2>2, MMAsksSys, MMAsksClock, MMTellsFS
<1> QED
  BY <1>3, <1>4

-----------------------------------------------------------------------------
(* The invariant holds after booting, and with every step. *)

\* The fields of the kernel after booting
Booted(s) ==
  /\ s \in KernelState
  /\ s.p_flags \in [Procs -> {{}, {"RECEIVING"}}]
  /\ (\A p \in Procs : s.p_flags[p] = {"RECEIVING"} <=> p \in Tasks \cup Servers)
  /\ Classed(s.p_priority) /\ (\A p \in UserSlots : isemptyp(s, p) <=> p # INIT)
  /\ (\A p \in Procs : s.p_getfrom[p] = ANY /\ s.p_callerq[p] = << >>)
  /\ (\A t \in Tasks : ~s.p_int_blocked[t])
  /\ (\A p \in Slots : s.p_alarm[p] = 0 /\ s.p_pending[p] = {} /\ s.p_pendcount[p] = 0)
  /\ (\A p \in Slots : s.p_pid[p] = IF p = INIT THEN 1 ELSE 0)
  /\ (\A p \in Procs : s.mess[p] = NoMess)
  /\ s.rdy[TASK_Q] = << >> /\ s.rdy[SERVER_Q] = << >> /\ s.rdy[USER_Q] = <<INIT>>
  /\ s.proc_ptr = INIT /\ s.sig_procs = 0 /\ ~s.panic

\* INIT is the first user.
LEMMA InitIsUser ==
  /\ INIT \in UserSlots /\ INIT \in Schedulable /\ INIT \in Procs /\ INIT \in Slots
  /\ \A p \in UserSlots : INIT <= p
<1>1. NR_PROCS \in Nat /\ NR_PROCS > 2
  BY ProcAssumption
<1>2. INIT \in UserSlots /\ \A p \in UserSlots : INIT <= p
  BY <1>1 DEF INIT, UserSlots, LOW_USER
<1> QED
  BY <1>2, ProcFacts

\* The priorities after booting
LEMMA InitialPriorities ==
  ASSUME NEW R,
         R = [p \in Procs |->
                CASE p \in Tasks \cup {HARDWARE} -> PPRI_TASK
                  [] p \in Servers -> PPRI_SERVER
                  [] p = INIT -> PPRI_USER
                  [] p = IDLE -> PPRI_IDLE
                  [] OTHER -> PPRI_NONE]
  PROVE  /\ R \in [Procs -> PPRI_NONE..PPRI_IDLE] /\ Classed(R)
         /\ \A p \in UserSlots : R[p] = PPRI_NONE <=> p # INIT
<1>1. /\ Tasks \subseteq Procs /\ Servers \subseteq Procs /\ UserSlots \subseteq Procs
      /\ HARDWARE \in Procs /\ IDLE \in Procs /\ HARDWARE # IDLE
      /\ Tasks \cap Servers = {} /\ Tasks \cap UserSlots = {} /\ Servers \cap UserSlots = {}
      /\ HARDWARE \notin Tasks \cup Servers \cup UserSlots
      /\ IDLE \notin Tasks \cup Servers \cup UserSlots
      /\ Procs = Tasks \cup Servers \cup UserSlots \cup {HARDWARE, IDLE}
  BY SystemProcs, ProcFacts
<1>2. INIT \in UserSlots
  BY InitIsUser
<1> DEFINE V(p) == CASE p \in Tasks \cup {HARDWARE} -> PPRI_TASK
                     [] p \in Servers -> PPRI_SERVER
                     [] p = INIT -> PPRI_USER
                     [] p = IDLE -> PPRI_IDLE
                     [] OTHER -> PPRI_NONE
<1>a. ASSUME NEW p \in Procs PROVE R[p] = V(p)
  OBVIOUS
<1>3. \A p \in Tasks \cup {HARDWARE} : R[p] = PPRI_TASK
  <2>1. ASSUME NEW p \in Tasks \cup {HARDWARE} PROVE R[p] = PPRI_TASK
    <3>1. p \in Procs /\ p \notin Servers /\ p # INIT /\ p # IDLE
      BY <1>1, <1>2
    <3>2. V(p) = PPRI_TASK
      BY <2>1, <3>1
    <3> QED
      BY <1>a, <3>1, <3>2
  <2> QED
    BY <2>1
<1>4. \A p \in Servers : R[p] = PPRI_SERVER
  <2>1. ASSUME NEW p \in Servers PROVE R[p] = PPRI_SERVER
    <3>1. p \in Procs /\ p \notin Tasks \cup {HARDWARE} /\ p # INIT /\ p # IDLE
      BY <1>1, <1>2
    <3>2. V(p) = PPRI_SERVER
      BY <2>1, <3>1
    <3> QED
      BY <1>a, <3>1, <3>2
  <2> QED
    BY <2>1
<1>5. R[INIT] = PPRI_USER
  <2>1. INIT \in Procs /\ INIT \notin Tasks \cup {HARDWARE} /\ INIT \notin Servers
        /\ INIT # IDLE
    BY <1>1, <1>2
  <2>2. V(INIT) = PPRI_USER
    BY <2>1
  <2> QED
    BY <1>a, <2>1, <2>2
<1>6. R[IDLE] = PPRI_IDLE
  <2>1. /\ IDLE \in Procs /\ IDLE \notin Tasks \cup {HARDWARE} /\ IDLE \notin Servers
        /\ IDLE # INIT
    BY <1>1, <1>2
  <2>2. V(IDLE) = PPRI_IDLE
    BY <2>1
  <2> QED
    BY <1>a, <2>1, <2>2
<1>7. \A p \in UserSlots \ {INIT} : R[p] = PPRI_NONE
  <2>1. ASSUME NEW p \in UserSlots \ {INIT} PROVE R[p] = PPRI_NONE
    <3>1. /\ p \in Procs /\ p \notin Tasks \cup {HARDWARE} /\ p \notin Servers
          /\ p # INIT /\ p # IDLE
      BY <1>1
    <3>2. V(p) = PPRI_NONE
      BY <3>1
    <3> QED
      BY <1>a, <3>1, <3>2
  <2> QED
    BY <2>1
<1> HIDE DEF V
<1>8. Classed(R)
  BY <1>3, <1>4, <1>5, <1>6, <1>7 DEF Classed
<1>9. \A p \in Procs : R[p] \in PPRI_NONE..PPRI_IDLE
  <2>1. {PPRI_TASK, PPRI_SERVER, PPRI_USER, PPRI_IDLE, PPRI_NONE} \subseteq PPRI_NONE..PPRI_IDLE
    BY DEF PPRI_TASK, PPRI_SERVER, PPRI_USER, PPRI_IDLE, PPRI_NONE
  <2>2. \A p \in Procs :
          p \in Tasks \cup {HARDWARE} \/ p \in Servers \/ p = IDLE \/ p = INIT
            \/ p \in UserSlots \ {INIT}
    BY <1>1
  <2> QED
    BY <1>3, <1>4, <1>5, <1>6, <1>7, <2>1, <2>2
<1>10. R \in [Procs -> PPRI_NONE..PPRI_IDLE]
  BY <1>9
<1>11. \A p \in UserSlots : R[p] = PPRI_NONE <=> p # INIT
  BY <1>5, <1>7 DEF PPRI_NONE, PPRI_USER
<1> QED
  BY <1>8, <1>10, <1>11

\* What the kernel is after booting
LEMMA Boots == Booted(InitialKernel)
<1>1. /\ MM \in Procs /\ INIT \in Procs /\ INIT \in Schedulable /\ INIT \in UserSlots
      /\ INIT \in Slots /\ UserSlots \subseteq Procs
      /\ Tasks \cup Servers \subseteq Procs
  BY SystemProcs, InitIsUser
<1>2. PICK f : f = [p \in Procs |-> IF p \in Tasks \cup Servers THEN {"RECEIVING"} ELSE {}]
  OBVIOUS
<1>3. /\ f \in [Procs -> SUBSET Flags] /\ f \in [Procs -> {{}, {"RECEIVING"}}]
      /\ (\A p \in Procs : f[p] = {"RECEIVING"} <=> p \in Tasks \cup Servers)
  <2>1. "RECEIVING" \in Flags
    BY DEF Flags
  <2> QED
    BY <1>2, <2>1
<1>4. PICK R :
        R = [p \in Procs |->
                CASE p \in Tasks \cup {HARDWARE} -> PPRI_TASK
                  [] p \in Servers -> PPRI_SERVER
                  [] p = INIT -> PPRI_USER
                  [] p = IDLE -> PPRI_IDLE
                  [] OTHER -> PPRI_NONE]
  OBVIOUS
<1>5. /\ R \in [Procs -> PPRI_NONE..PPRI_IDLE] /\ Classed(R)
      /\ \A p \in UserSlots : R[p] = PPRI_NONE <=> p # INIT
  BY <1>4, InitialPriorities
<1>6. PICK g : g = [p \in Procs |-> ANY]
  OBVIOUS
<1>7. g \in [Procs -> Procs \cup {ANY}] /\ (\A p \in Procs : g[p] = ANY)
  BY <1>6
<1>8. PICK h : h = [p \in Procs |-> MM]
  OBVIOUS
<1>9. h \in [Procs -> Procs]
  BY <1>1, <1>8
<1>10. PICK c : c = [p \in Procs |-> << >>]
  OBVIOUS
<1>11. c \in [Procs -> Seq(Procs)] /\ (\A p \in Procs : c[p] = << >>)
  BY <1>10
<1>12. PICK b : b = [t \in Tasks |-> FALSE]
  OBVIOUS
<1>13. b \in [Tasks -> BOOLEAN] /\ (\A t \in Tasks : ~b[t])
  BY <1>12
<1>14. PICK d : d = [p \in Slots |-> IF p = INIT THEN 1 ELSE 0]
  OBVIOUS
<1>15. d \in [Slots -> Int] /\ (\A p \in Slots : d[p] = IF p = INIT THEN 1 ELSE 0)
  BY <1>14
<1>16. PICK z : z = [p \in Slots |-> 0]
  OBVIOUS
<1>17. z \in [Slots -> Int] /\ z \in [Slots -> Nat] /\ (\A p \in Slots : z[p] = 0)
  BY <1>16
<1>18. PICK e : e = [p \in Slots |-> {}]
  OBVIOUS
<1>19. e \in [Slots -> SUBSET Signals] /\ (\A p \in Slots : e[p] = {})
  BY <1>18
<1>20. PICK m : m = [p \in Procs |-> NoMess]
  OBVIOUS
<1>21. m \in [Procs -> Mess] /\ (\A p \in Procs : m[p] = NoMess)
  BY <1>20, MessageTyped
<1>22. PICK r : r = [q \in Queues |-> IF q = USER_Q THEN <<INIT>> ELSE << >>]
  OBVIOUS
<1>23. /\ r \in [Queues -> Seq(Schedulable)]
       /\ r[TASK_Q] = << >> /\ r[SERVER_Q] = << >> /\ r[USER_Q] = <<INIT>>
  <2>1. <<INIT>> \in Seq(Schedulable) /\ << >> \in Seq(Schedulable)
    BY <1>1
  <2>2. TASK_Q \in Queues /\ SERVER_Q \in Queues /\ USER_Q \in Queues
        /\ TASK_Q # USER_Q /\ SERVER_Q # USER_Q
    BY DEF Queues, TASK_Q, SERVER_Q, USER_Q
  <2> QED
    BY <1>22, <2>1, <2>2
<1>24. ForkHigh \in Int
  BY SystemAssumption
<1>25. PICK s :
         s = [p_flags |-> f, p_priority |-> R, p_getfrom |-> g, p_sendto |-> h,
              p_callerq |-> c, p_int_blocked |-> b, p_pid |-> d, p_alarm |-> z,
              p_pending |-> e, p_pendcount |-> z, user_priority |-> z,
              time_counter |-> z, mess |-> m, rdy |-> r, proc_ptr |-> INIT,
              bill_ptr |-> INIT, sig_procs |-> 0, last_user_priority |-> ForkHigh,
              panic |-> FALSE]
  OBVIOUS
<1>26. s = InitialKernel
  BY <1>2, <1>4, <1>6, <1>8, <1>10, <1>12, <1>14, <1>16, <1>18, <1>20, <1>22, <1>25
     DEF InitialKernel
<1> HIDE <1>2, <1>4, <1>6, <1>8, <1>10, <1>12, <1>14, <1>16, <1>18, <1>20, <1>22
<1>27. s \in KernelState
  BY <1>1, <1>3, <1>5, <1>7, <1>9, <1>11, <1>13, <1>15, <1>17, <1>19, <1>21, <1>23, <1>24, <1>25
     DEF KernelState
<1>28. /\ s.p_flags = f /\ s.p_priority = R /\ s.p_getfrom = g /\ s.p_callerq = c
       /\ s.p_int_blocked = b /\ s.p_pid = d /\ s.p_alarm = z /\ s.p_pending = e
       /\ s.p_pendcount = z /\ s.mess = m /\ s.rdy = r /\ s.proc_ptr = INIT
       /\ s.sig_procs = 0 /\ s.panic = FALSE
  BY <1>25
<1>29. \A p \in UserSlots : isemptyp(s, p) <=> p # INIT
  BY <1>5, <1>28 DEF isemptyp
<1> HIDE <1>25
<1>30. Booted(s)
  BY <1>3, <1>5, <1>7, <1>11, <1>13, <1>15, <1>17, <1>19, <1>21, <1>23, <1>27, <1>28, <1>29
     DEF Booted
<1> QED
  BY <1>26, <1>30

\* The kernel's data after booting
LEMMA BootedGood ==
  ASSUME NEW s, Booted(s)
  PROVE  KInv(s)
<1>1. /\ Tasks \subseteq Procs /\ Servers \subseteq Procs /\ UserSlots \subseteq Procs
      /\ HARDWARE \in Procs /\ IDLE \in Procs /\ MM \in Servers /\ FS \in Servers
      /\ Tasks \cap Servers = {} /\ Tasks \cap UserSlots = {} /\ Servers \cap UserSlots = {}
      /\ HARDWARE \notin Tasks \cup Servers \cup UserSlots
      /\ IDLE \notin Tasks \cup Servers \cup UserSlots
      /\ UserSlots \subseteq Slots /\ Servers \subseteq Slots
      /\ Slots = Servers \cup UserSlots
      /\ Schedulable = Tasks \cup Servers \cup UserSlots
  BY SystemProcs, ProcFacts
<1>2. INIT \in UserSlots /\ INIT \in Schedulable
  BY InitIsUser
<1>3. /\ s \in KernelState
      /\ (\A p \in Procs : s.p_flags[p] \in {{}, {"RECEIVING"}})
      /\ (\A p \in Procs : s.p_flags[p] = {"RECEIVING"} <=> p \in Tasks \cup Servers)
      /\ Classed(s.p_priority) /\ (\A p \in UserSlots : isemptyp(s, p) <=> p # INIT)
      /\ (\A p \in Procs : s.p_getfrom[p] = ANY /\ s.p_callerq[p] = << >>)
      /\ (\A p \in Slots : s.p_alarm[p] = 0 /\ s.p_pending[p] = {} /\ s.p_pendcount[p] = 0)
      /\ s.rdy[TASK_Q] = << >> /\ s.rdy[SERVER_Q] = << >> /\ s.rdy[USER_Q] = <<INIT>>
      /\ s.proc_ptr = INIT /\ s.sig_procs = 0 /\ ~s.panic
  BY DEF Booted
<1>4. /\ \A p \in Tasks \cup Servers : s.p_flags[p] = {"RECEIVING"}
      /\ \A p \in UserSlots \cup {HARDWARE, IDLE} : s.p_flags[p] = {}
      /\ \A p \in Procs : s.p_flags[p] \subseteq {"RECEIVING"}
  BY <1>1, <1>3
<1>5. Senders(s.p_flags, s.p_sendto, s.p_callerq)
  <2>1. \A d \in Procs : Distinct(s.p_callerq[d])
    BY <1>3 DEF Distinct
  <2>2. \A d, c \in Procs : ~OnList(s.p_callerq[d], c)
    BY <1>3 DEF OnList
  <2>3. \A c \in Procs : "SENDING" \notin s.p_flags[c]
    BY <1>4
  <2> QED
    BY <2>1, <2>2, <2>3 DEF Senders
<1>6. SystemFlags(s)
  BY <1>1, <1>3, <1>4 DEF SystemFlags
<1>7. IsFiniteSet({}) /\ Cardinality({}) = 0
  BY FS_EmptySet
<1>8. ASSUME NEW u \in UserSlots PROVE UserOK(s, u)
  <2>1. s.p_flags[u] = {} /\ s.p_alarm[u] = 0 /\ s.p_pending[u] = {} /\ s.p_pendcount[u] = 0
    BY <1>1, <1>3, <1>4
  <2> QED
    BY <1>7, <2>1 DEF UserOK
<1>9. SigsCounted(s)
  <2>1. {p \in Slots : "PENDING" \in s.p_flags[p]} = {}
    BY <1>1, <1>4
  <2> QED
    BY <1>3, <1>7, <2>1 DEF SigsCounted
<1>10. Base(s)
  BY <1>3, <1>5, <1>6, <1>8, <1>9 DEF Base
<1>11. MMHears(s)
  BY <1>3 DEF MMHears
<1>12. Ready(s) = {INIT}
  <2>1. \A p \in Schedulable : p \in Ready(s) <=> p = INIT
    BY <1>1, <1>2, <1>3, <1>4 DEF Ready
  <2>2. Ready(s) \subseteq Schedulable
    BY DEF Ready
  <2> QED
    BY <1>2, <2>1, <2>2
<1>13. PICK l : l = <<INIT>>
  OBVIOUS
<1>14. DOMAIN l = {1} /\ l[1] = INIT /\ l # << >> /\ Head(l) = INIT
  BY <1>13
<1>15. /\ TASK_Q # USER_Q /\ SERVER_Q # USER_Q /\ Queues = {TASK_Q, SERVER_Q, USER_Q}
  BY DEF Queues, TASK_Q, SERVER_Q, USER_Q
<1>16. Class(INIT) = USER_Q /\ \A p \in Schedulable : p = INIT => Class(p) = USER_Q
  BY <1>1, <1>2 DEF Class
<1>17. Lists(s.rdy, Ready(s))
  <2>1. Distinct(l) /\ \A p : OnList(l, p) <=> p = INIT
    BY <1>14 DEF Distinct, OnList
  <2>2. \A q \in {TASK_Q, SERVER_Q} : Distinct(s.rdy[q]) /\ \A p : ~OnList(s.rdy[q], p)
    BY <1>3 DEF Distinct, OnList
  <2>3. s.rdy[USER_Q] = l
    BY <1>3, <1>13
  <2> HIDE <1>13
  <2> QED
    BY <1>12, <1>15, <1>16, <2>1, <2>2, <2>3 DEF Lists
<1>18. s.proc_ptr = Top(s.rdy)
  BY <1>3, <1>13, <1>14 DEF Top
<1> QED
  BY <1>10, <1>11, <1>17, <1>18 DEF KInv, Scheduled

\* All is well after booting.
LEMMA InitGood ==
  ASSUME Init
  PROVE  Now
<1>1. /\ Tasks \subseteq Procs /\ Servers \subseteq Procs /\ UserSlots \subseteq Procs
      /\ MM \in Servers /\ FS \in Servers /\ SYSTASK \in Tasks /\ CLOCK \in Tasks
      /\ DISK \in Tasks /\ UserSlots \subseteq Slots
      /\ Tasks \cap UserSlots = {} /\ Servers \cap UserSlots = {}
  BY SystemProcs
<1>2. INIT \in UserSlots /\ \A p \in UserSlots : INIT <= p
  BY InitIsUser
<1>3. Booted(k) /\ KInv(k)
  BY Boots, BootedGood DEF Init
<1>4. /\ \A p \in Tasks \cup Servers : k.p_flags[p] = {"RECEIVING"} /\ k.p_getfrom[p] = ANY
      /\ \A p \in UserSlots : k.p_flags[p] = {}
  BY <1>1, <1>3 DEF Booted
<1>5. /\ (\A p \in UserSlots : isemptyp(k, p) <=> p # INIT)
      /\ (\A t \in Tasks : ~k.p_int_blocked[t])
      /\ (\A p \in UserSlots : k.p_pending[p] = {} /\ k.p_pendcount[p] = 0)
      /\ (\A p \in UserSlots : k.p_pid[p] = IF p = INIT THEN 1 ELSE 0)
  BY <1>1, <1>3 DEF Booted
<1>6. /\ \A p \in Tasks \cup Servers : pc[p] = "work"
      /\ pc \in PcType
      /\ \A v \in Servers : plan[v] = << >>
      /\ plan \in [Servers -> Seq(Steps)]
      /\ paused = {} /\ closed = {}
  BY DEF Init, PcType
<1>7. \A t \in Tasks \cup Servers : WaitsFor(k, t, ANY)
  BY <1>4 DEF WaitsFor
<1>8. ServersOK(k, pc, plan)
  <2>1. ASSUME NEW v \in Servers PROVE ServerState(k, pc, plan, v)
    BY <1>4, <1>6, <1>7 DEF ServerState
  <2> QED
    BY <1>1, <2>1 DEF ServersOK
<1>9. TasksOK(k, pc)
  <2>1. \A t \in Tasks : IdleTask(k, pc, t) /\ k.p_flags[t] # {} /\ ~k.p_int_blocked[t]
    BY <1>4, <1>5, <1>6, <1>7 DEF IdleTask
  <2> QED
    BY <1>1, <2>1 DEF TasksOK, SysState, ClockState, DiskState
<1>10. \A v : ~Busy(k, pc, v)
  BY <1>1, <1>4 DEF Busy
<1>11. Todo(k, pc, plan) = << >>
  BY <1>1, <1>6, <1>10 DEF Todo
<1>12. InTransit(k, pc) = NoMess
  BY <1>1, <1>4 DEF InTransit
<1>13. ~TellsFork(k, pc)
  BY <1>12 DEF TellsFork, NoMess
<1>14. \A v \in Servers : ~Got(k, pc, v)
  BY <1>4 DEF Got
<1>15. IsFiniteSet({}) /\ Cardinality({}) = 0
  BY FS_EmptySet
<1>16. MMPlan(k, paused, Known(k, pc, closed), << >>)
  BY DEF MMPlan, RepliesOnce
<1>17. OpenOK(k, pc, << >>)
  <2>1. ASSUME NEW u \in UserSlots
        PROVE  Open(k, u) = Cardinality(Ends(<< >>, u)) + HasTold(k, pc, u)
    <3>1. Ends(<< >>, u) = {}
      BY DEF Ends
    <3>2. HasTold(k, pc, u) = 0
      BY <1>1, <1>14 DEF HasTold
    <3>3. Open(k, u) = 0
      BY <1>5, <1>15 DEF Open
    <3>4. Cardinality(Ends(<< >>, u)) = 0
      BY <1>15, <3>1, Zenon
    <3>5. 0 = 0 + 0
      OBVIOUS
    <3> QED
      BY <3>2, <3>3, <3>4, <3>5, Zenon
  <2> QED
    BY <2>1 DEF OpenOK
<1>18. TodoOK(k, pc, paused, closed, Todo(k, pc, plan))
  BY <1>11, <1>13, <1>16, <1>17 DEF TodoOK
<1>19. FSPlan(k, pc, plan, closed)
  <2>1. plan[FS] = << >> /\ k.p_flags[FS] # {}
    BY <1>1, <1>4, <1>6
  <2>2. Len(plan[FS]) = 0
    BY <2>1
  <2>3. \A c : ~Serves(k, pc, plan, c)
    BY <2>1 DEF Serves
  <2> QED
    BY <1>10, <2>1, <2>2, <2>3 DEF FSPlan
<1>20. PidsDiffer(k)
  <2>1. ASSUME NEW p \in UserSlots, NEW q \in UserSlots, ~isemptyp(k, p), q < p
        PROVE  FALSE
    <3>1. p = INIT /\ p <= q
      BY <1>2, <1>5, <2>1
    <3>2. p \in Int /\ q \in Int
      BY DEF UserSlots, LOW_USER
    <3> QED
      BY <2>1, <3>1, <3>2
  <2> QED
    BY <2>1 DEF PidsDiffer
<1>21. MailOK(k, pc, paused)
  <2>1. UserMess(k)
    BY <1>4 DEF UserMess
  <2>2. MMGot(k, pc, paused) /\ FSGot(k, pc)
    BY <1>1, <1>14 DEF MMGot, FSGot
  <2>3. PausedOK(k, paused)
    BY <1>6 DEF PausedOK
  <2> QED
    BY <1>20, <2>1, <2>2, <2>3 DEF MailOK
<1>22. Exiting(k, pc, plan, paused)
  BY <1>10 DEF Exiting
<1>23. CtlTyped(pc, plan, paused)
  BY <1>6 DEF CtlTyped, PcType
<1> QED
  BY <1>3, <1>8, <1>9, <1>18, <1>19, <1>21, <1>22, <1>23 DEF Now, Good, CInv

\* Every step keeps the invariant.
LEMMA NextGood ==
  ASSUME load \in Workloads, Now, [Next]_vars
  PROVE  load' \in Workloads /\ Now'
<1>1. load' = load
  BY DEF Next, TaskStep, MMStep, FSStep, SysRecv, SysWork, ClockRecv, ClockTick,
         ClockSetAlarm, DiskRecv, DiskWork, DiskReply, ServerRecv, MMWork, FSWork,
         ServerStep, Decide, UserCall, ClockHandler, DiskInterrupt, vars
<1>2. CASE TaskStep
  <2>1. ASSUME SysRecv \/ ClockRecv \/ DiskRecv PROVE Now'
    BY <2>1, TasksReceive
  <2>2. ASSUME SysWork PROVE Now'
    BY <2>2, SysWorks
  <2>3. ASSUME ClockTick PROVE Now'
    BY <2>3, Ticks
  <2>4. ASSUME ClockSetAlarm PROVE Now'
    BY <2>4, AlarmSet
  <2>5. ASSUME DiskWork PROVE Now'
    BY <2>5, DiskWaits
  <2>6. ASSUME DiskReply PROVE Now'
    BY <2>6, DiskReplies
  <2>7. Now'
    BY <1>2, <2>1, <2>2, <2>3, <2>4, <2>5, <2>6 DEF TaskStep
  <2> QED
    BY <1>1, <2>7
<1>3. CASE MMStep
  <2>1. Now'
    BY <1>3, MMReceived, MMWorks, MMStepsOn DEF MMStep
  <2> QED
    BY <1>1, <2>1
<1>4. CASE FSStep
  <2>1. Now'
    BY <1>4, FSReceived, FSWorks, FSSteps DEF FSStep
  <2> QED
    BY <1>1, <2>1
<1>5. CASE \E u \in UserSlots : UserCall(u)
  <2>1. Now'
    BY <1>5, UserCalls
  <2> QED
    BY <1>1, <2>1
<1>6. CASE ClockHandler
  BY <1>1, <1>6, ClockInterrupts
<1>7. CASE DiskInterrupt
  BY <1>1, <1>7, DiskInterrupts
<1>8. CASE UNCHANGED vars
  <2>1. k' = k /\ pc' = pc /\ plan' = plan /\ paused' = paused /\ closed' = closed
    BY <1>8 DEF vars
  <2> QED
    BY <1>1, <2>1 DEF Now
<1> QED
  BY <1>2, <1>3, <1>4, <1>5, <1>6, <1>7, <1>8 DEF Next

\* The kernel's data, and what the main loops of tasks and servers are at, fit
\* together in every state that can be reached.
THEOREM KernelInvariant == Spec => []Now
<1>1. Init => load \in Workloads /\ Now
  BY InitGood DEF Init
<1>2. (load \in Workloads /\ Now) /\ [Next]_vars => (load \in Workloads /\ Now)'
  BY NextGood
<1> QED
  BY <1>1, <1>2, PTL DEF Spec

-----------------------------------------------------------------------------
(* The properties *)

\* Neither MM nor inform() panics, and the servers are held up by nobody but
\* MM by FS.
LEMMA NowArrive ==
  ASSUME Now
  PROVE  RepliesArrive
<1>1. SystemFlags(k) /\ ~k.panic
  BY DEF Now, Good, KInv, Base
<1>2. k.p_flags[FS] \in {{}, {"RECEIVING"}}
  BY <1>1 DEF SystemFlags
<1>3. "SENDING" \in k.p_flags[MM] => k.p_sendto[MM] = FS
  BY <1>1 DEF SystemFlags
<1> QED
  BY <1>1, <1>2, <1>3 DEF RepliesArrive, NoPanic, NobodyHoldsServers

\* A reply is sent only to who waits for it, whoever dies meanwhile and
\* whatever its slot is used for then.
THEOREM RepliesAlwaysArrive == Spec => []RepliesArrive
<1>1. Now => RepliesArrive
  BY NowArrive
<1> QED
  BY <1>1, KernelInvariant, PTL

\* The ready queues and the queues of callers
LEMMA NowQueues ==
  ASSUME Now
  PROVE  QueuesAgree
<1>1. /\ Base(k) /\ Lists(k.rdy, Ready(k)) /\ Classed(k.p_priority)
      /\ Senders(k.p_flags, k.p_sendto, k.p_callerq)
  BY DEF Now, Good, KInv, Base, Scheduled
<1>2. Schedulable \subseteq Procs /\ Slots \subseteq Procs
  BY ProcFacts
<1>3. ReadyQueues
  <2>1. ASSUME NEW q \in Queues
        PROVE  \A i, j \in DOMAIN k.rdy[q] : k.rdy[q][i] = k.rdy[q][j] => i = j
    BY <1>1 DEF Lists, Distinct
  <2>2. ASSUME NEW p \in Schedulable, NEW q \in Queues
        PROVE  OnList(k.rdy[q], p) <=>
                 k.p_flags[p] = {} /\ ~isemptyp(k, p) /\ q = QueueOf(k, p)
    <3>1. QueueOf(k, p) = Class(p)
      BY <1>1, Classes
    <3>2. OnList(k.rdy[q], p) <=> p \in Ready(k) /\ q = Class(p)
      BY <1>1 DEF Lists
    <3> QED
      BY <3>1, <3>2 DEF Ready
  <2> QED
    BY <2>1, <2>2 DEF ReadyQueues
<1>4. CallerQueues
  <2>1. ASSUME NEW d \in Procs
        PROVE  \A i, j \in DOMAIN k.p_callerq[d] :
                 k.p_callerq[d][i] = k.p_callerq[d][j] => i = j
    BY <1>1 DEF Senders, Distinct
  <2>2. ASSUME NEW d \in Procs, NEW c \in Schedulable
        PROVE  OnList(k.p_callerq[d], c) <=>
                 "SENDING" \in k.p_flags[c] /\ k.p_sendto[c] = d
    BY <1>1, <1>2 DEF Senders
  <2>3. ASSUME NEW d \in Procs, NEW c \in Slots, OnList(k.p_callerq[d], c)
        PROVE  ~isemptyp(k, c)
    <3>1. c \in Procs
      BY <1>2
    <3> QED
      BY <1>1, <2>3, <3>1, Callers
  <2> QED
    BY <2>1, <2>2, <2>3 DEF CallerQueues
<1> QED
  BY <1>3, <1>4 DEF QueuesAgree

\* The queues of proc.c agree with the flags, whatever fork, exit, signals and
\* interrupts do to the processes on them.
THEOREM QueuesAlwaysAgree == Spec => []QueuesAgree
<1>1. Now => QueuesAgree
  BY NowQueues
<1> QED
  BY <1>1, KernelInvariant, PTL

\* What the system task works on
LEMMA NowIntact ==
  ASSUME Now
  PROVE  RequestIntact
<1>1. SysState(k, pc)
  BY DEF Now, Good, CInv, TasksOK
<1>2. ASSUME pc[SYSTASK] = "work", k.p_flags[SYSTASK] = {}
      PROVE  \E v \in Servers :
               /\ k.mess[SYSTASK].src = v /\ WaitsFor(k, v, SYSTASK)
               /\ k.mess[SYSTASK] = [k.mess[v] EXCEPT !.src = v]
  <2>1. ~IdleTask(k, pc, SYSTASK) /\ ~DoneTask(k, pc, SYSTASK)
    BY <1>2 DEF IdleTask, DoneTask, WaitsFor
  <2> QED
    BY <1>1, <2>1 DEF SysState, Busy
<1> QED
  BY <1>2 DEF RequestIntact, WaitsFor

\* The request the system task gets to is still what a server waits for an
\* answer to, though inform() uses the same buffer.
THEOREM RequestsStayIntact == Spec => []RequestIntact
<1>1. Now => RequestIntact
  BY NowIntact
<1> QED
  BY <1>1, KernelInvariant, PTL

\* The search for a pid
LEMMA NowFinds ==
  ASSUME Now
  PROVE  PidFindsLiveProcess
<1>1. KInv(k) /\ PidsDiffer(k)
  BY DEF Now, Good, CInv, MailOK
<1>2. ASSUME NEW p \in LiveUsers PROVE FindPid(k, k.p_pid[p]) = p
  <2>1. p \in UserSlots /\ ~isemptyp(k, p)
    BY <1>1, LiveOnes DEF LiveUsers
  <2>2. PICK S : S = SlotsWithPid(k, k.p_pid[p])
    OBVIOUS
  <2>3. S \subseteq UserSlots /\ p \in S /\ \A q \in S : k.p_pid[q] = k.p_pid[p]
    BY <2>1, <2>2 DEF SlotsWithPid
  <2>4. UserSlots \subseteq Nat
    BY DEF UserSlots, LOW_USER
  <2>5. Least(S) \in S /\ \A y \in S : Least(S) <= y
    BY <2>3, <2>4, LeastExists
  <2>6. PICK l \in S : l = Least(S)
    BY <2>5
  <2>7. l <= p /\ ~(l < p)
    BY <1>1, <2>1, <2>3, <2>5, <2>6 DEF PidsDiffer
  <2>8. l \in Nat /\ p \in Nat
    BY <2>1, <2>3, <2>4
  <2>9. l = p
    BY <2>7, <2>8
  <2> QED
    BY <2>2, <2>6, <2>9 DEF FindPid
<1> QED
  BY <1>2 DEF PidFindsLiveProcess

\* The slot that do_getpri and do_setpri find for a live process is its own.
THEOREM PidAlwaysFinds == Spec => []PidFindsLiveProcess
<1>1. Now => PidFindsLiveProcess
  BY NowFinds
<1> QED
  BY <1>1, KernelInvariant, PTL

\* The report that the system task works on
Going(p) ==
  IF /\ pc[SYSTASK] = "work" /\ k.p_flags[SYSTASK] = {}
     /\ k.mess[SYSTASK].type = "SYS_ENDSIG"
     /\ k.mess[SYSTASK].i1 = p
  THEN 1 ELSE 0

\* It is the first thing that MM has still to do.
LEMMA EndsTodo ==
  ASSUME Now, NEW p
  PROVE  /\ Cardinality(Ends(Todo(k, pc, plan), p)) = Cardinality(Ends(plan[MM], p)) + Going(p)
         /\ Cardinality(Ends(plan[MM], p)) \in Nat
<1>1. /\ Good(k, pc, plan, paused, closed) /\ SysState(k, pc) /\ FSPlan(k, pc, plan, closed)
      /\ plan \in [Servers -> Seq(Steps)] /\ MM \in Servers /\ Servers = {MM, FS}
  BY SystemProcs DEF Now, Good, CInv, TasksOK, CtlTyped, Servers
<1>2. PICK l : l = plan[MM]
  OBVIOUS
<1>3. l \in Seq(Steps)
  BY <1>1, <1>2
<1>4. PICK a \in Nat : a = Cardinality(Ends(l, p))
  BY <1>3, EndsTail
<1>5. PICK t : t = Todo(k, pc, plan)
  OBVIOUS
<1>6. Cardinality(Ends(t, p)) = a + Going(p)
  <2>1. CASE Busy(k, pc, MM)
    <3>1. Requested(k, pc, plan, paused, Known(k, pc, closed), t)
      BY <1>1, <1>5, <2>1, RequestFacts
    <3>2. /\ t \in Seq(Steps) /\ t # << >> /\ Tail(t) = l
          /\ t[1].m = From(k.mess[SYSTASK], HARDWARE) /\ k.mess[SYSTASK] \in Mess
      BY <1>2, <3>1 DEF Requested
    <3>3. t[1].m.type = k.mess[SYSTASK].type /\ t[1].m.i1 = k.mess[SYSTASK].i1
      BY <3>2 DEF From, Mess
    <3>4. Cardinality(Ends(t, p)) = Cardinality(Ends(Tail(t), p)) + IF EndsOne(t[1], p) THEN 1 ELSE 0
      BY <3>2, EndsTail
    <3>5. Going(p) = IF EndsOne(t[1], p) THEN 1 ELSE 0
      BY <2>1, <3>3 DEF Going, EndsOne, Busy
    <3> HIDE <1>5, <1>2
    <3> QED
      BY <1>4, <3>2, <3>4, <3>5
  <2>2. CASE ~Busy(k, pc, MM)
    <3>1. t = l
      BY <1>2, <1>5, <2>2 DEF Todo
    <3>2. ASSUME pc[SYSTASK] = "work", k.p_flags[SYSTASK] = {},
                 k.mess[SYSTASK].type = "SYS_ENDSIG"
          PROVE  FALSE
      <4>1. ~IdleTask(k, pc, SYSTASK) /\ ~DoneTask(k, pc, SYSTASK)
        BY <3>2 DEF IdleTask, DoneTask, WaitsFor
      <4>2. Busy(k, pc, FS)
        BY <1>1, <2>2, <4>1 DEF SysState
      <4>3. k.mess[SYSTASK].type = "SYS_KILL"
        BY <1>1, <4>2 DEF FSPlan
      <4> QED
        BY <3>2, <4>3
    <3>3. Going(p) = 0
      BY <3>2 DEF Going
    <3> QED
      BY <1>4, <3>1, <3>3
  <2> QED
    BY <2>1, <2>2
<1> QED
  BY <1>2, <1>4, <1>5, <1>6

\* What MM has in its hands, part by part
LEMMA HandsAre ==
  ASSUME NEW p
  PROVE  InMMsHands(p) = Cardinality(Ends(plan[MM], p)) + HasTold(k, pc, p) + Going(p)
<1>1. PICK e : e = Ends(plan[MM], p)
  OBVIOUS
<1>2. e = {i \in DOMAIN plan[MM] :
             plan[MM][i].m.type = "SYS_ENDSIG" /\ plan[MM][i].m.i1 = p}
  BY <1>1 DEF Ends
<1>3. PICK c : c = Cardinality(e)
  OBVIOUS
<1>4. HasTold(k, pc, p) =
        IF /\ pc[MM] = "work" /\ k.p_flags[MM] = {}
           /\ k.mess[MM].type = "KSIG" /\ k.mess[MM].i1 = p
        THEN Cardinality(k.mess[MM].map) ELSE 0
  BY DEF HasTold, Got
<1>5. InMMsHands(p) = c + HasTold(k, pc, p) + Going(p)
  BY <1>2, <1>3, <1>4 DEF InMMsHands, Going
<1> QED
  BY <1>1, <1>3, <1>5

\* The signals of a live process are counted where they are.
LEMMA NowAccounted ==
  ASSUME Now
  PROVE  SignalsAccounted
<1>1. KInv(k) /\ Base(k) /\ SigsCounted(k) /\ MMHears(k) /\ k \in KernelState
      /\ (\A u \in UserSlots : UserOK(k, u))
      /\ OpenOK(k, pc, Todo(k, pc, plan)) /\ MMGot(k, pc, paused)
  BY DEF Now, Good, KInv, Base, CInv, TodoOK, MailOK
<1>2. ASSUME NEW p \in LiveUsers
      PROVE  /\ k.p_pendcount[p] = Cardinality(k.p_pending[p]) + InMMsHands(p)
             /\ "SIG_PENDING" \in k.p_flags[p] <=> k.p_pendcount[p] > 0
             /\ "PENDING" \in k.p_flags[p] <=> k.p_pending[p] # {}
  <2>1. p \in UserSlots /\ p \in Slots /\ ~isemptyp(k, p)
    BY <1>1, LiveOnes, ProcFacts DEF LiveUsers
  <2>2. UserOK(k, p)
    BY <1>1, <2>1
  <2>3. PICK a \in Nat : a = Cardinality(k.p_pending[p])
    <3>1. IsFiniteSet(k.p_pending[p])
      BY <2>2 DEF UserOK
    <3> QED
      BY <3>1, FS_CardinalityType
  <2>4. PICK n \in Nat : n = k.p_pendcount[p]
    BY <1>1, <2>1 DEF KernelState
  <2>5. PICK e \in Nat : e = Cardinality(Ends(plan[MM], p))
    BY EndsTodo
  <2>6. PICK h \in Nat : h = HasTold(k, pc, p)
    <3>1. CASE Got(k, pc, MM) /\ k.mess[MM].type = "KSIG"
      <4>1. IsFiniteSet(k.mess[MM].map)
        BY <1>1, <3>1 DEF MMGot, AsksMM, MMCalls
      <4> QED
        BY <4>1, FS_CardinalityType DEF HasTold
    <3>2. CASE ~(Got(k, pc, MM) /\ k.mess[MM].type = "KSIG")
      BY <3>2 DEF HasTold
    <3> QED
      BY <3>1, <3>2
  <2>7. PICK g \in Nat : g = Going(p)
    BY DEF Going
  <2>8. n - a = (e + g) + h
    <3>1. Open(k, p) = n - a
      BY <2>3, <2>4 DEF Open
    <3>2. Open(k, p) = Cardinality(Ends(Todo(k, pc, plan), p)) + HasTold(k, pc, p)
      BY <1>1, <2>1 DEF OpenOK
    <3>3. Cardinality(Ends(Todo(k, pc, plan), p)) = e + g
      BY <2>5, <2>7, EndsTodo
    <3> QED
      BY <2>6, <3>1, <3>2, <3>3
  <2>9. InMMsHands(p) = e + h + g
    BY <2>5, <2>6, <2>7, HandsAre
  <2>10. n = a + (e + h + g)
    BY <2>8
  <2>11. k.p_pendcount[p] = Cardinality(k.p_pending[p]) + InMMsHands(p)
    BY <2>3, <2>4, <2>9, <2>10
  <2> QED
    BY <2>2, <2>11 DEF UserOK
<1>3. PendingCount
  BY <1>2 DEF PendingCount
<1>4. SigProcsCount
  BY <1>1 DEF SigsCounted, SigProcsCount
<1>5. MMNotIdleWithSignals
  BY <1>1 DEF MMHears, MMNotIdleWithSignals
<1> QED
  BY <1>3, <1>4, <1>5 DEF SignalsAccounted

\* p_pendcount accounts for every signal from cause_sig() to do_endsig(),
\* sig_procs for the processes with pending ones, and MM hears of them.
THEOREM SignalsAlwaysAccounted == Spec => []SignalsAccounted
<1>1. Now => SignalsAccounted
  BY NowAccounted
<1> QED
  BY <1>1, KernelInvariant, PTL
=============================================================================
