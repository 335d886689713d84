---------------------------- MODULE CliProcessProofs ----------------------------
(***************************************************************************)
(* Proofs about the processes of the CLI: first ControlPlane, then         *)
(* RunSupervisor.                                                          *)
(*                                                                         *)
(* ControlPlane: but for Windows, SIGTERM reaches daemons only, and at     *)
(* most one daemon runs unless a lock in use was removed for want of a     *)
(* live owner.                                                             *)
(*                                                                         *)
(* The first rests on the stamps: the state file names a daemon, or a      *)
(* process that was one, and whoever gets its pid later was born later.    *)
(* For the second, let the holders be the processes that go on as owners   *)
(* of the lock, from the mkdir to the end of the daemon.  As long as no    *)
(* lock was robbed there is one holder at most, the directory is there,    *)
(* and the owner file names the holder, or is not written yet, or, while   *)
(* the daemon boots, still names whoever started it.  That last gap is the *)
(* one releaseLock could fall into: a starter that waits may find its own  *)
(* pid in the owner file only while the daemon it started boots, and then  *)
(* it does not release.                                                    *)
(*                                                                         *)
(* RunSupervisor: a stop that reports leaves no process of the group it    *)
(* signalled; a sample is counted once; an ended run stays ended.          *)
(*                                                                         *)
(* Records travel: the one on disk is read by commands, workers and        *)
(* listings, changed and written back over whatever came in between.  The  *)
(* pid in any copy was once given to a worker, and the groups of such pids *)
(* only ever go: an agent is started by a worker that is alive.  So what   *)
(* killProcessGroup saw gone is gone when stop reports, whoever settled    *)
(* the record.  For the samples: without an overlap one worker at most is  *)
(* alive or about to be spawned, and while a sample that was counted is    *)
(* still in the file that worker is at the step that removes the file.     *)
(***************************************************************************)
EXTENDS ControlPlane, RunSupervisor, FiniteSetTheorems, TLAPS

(***************************************************************************)
(* ControlPlane                                                            *)
(***************************************************************************)

StarterPlaces == {"ensure", "probe", "stop", "stopwait", "held", "select", "waiting"}
DaemonPlaces == {"boot", "state", "serve", "listen", "ready"}
LockPlaces == {"lock", "own", "look", "rm"}
Places == StarterPlaces \cup DaemonPlaces \cup LockPlaces \cup {"none", "runs"}

Process == [kind: {"none", "starter", "daemon", "stranger"}, pc: Places, stamp: Nat,
            target: 0 .. MaxPid, next: {"none", "exit", "ensure", "lock", "select"},
            tries: {0, 1}, version: Nat, by: {"none", "command", "unit", "starter"},
            sig: {"none", "term"}]

\* The program a process runs is told by where it is, who started it and who signalled it.
PlaceOK(r) ==
  /\ r.pc \in StarterPlaces => r.kind = "starter"
  /\ r.pc \in DaemonPlaces => r.kind = "daemon"
  /\ r.pc \in LockPlaces => r.kind \in {"starter", "daemon"}
  /\ r.by = "unit" => r.kind = "daemon"
  /\ r.sig = "term" => r.kind = "daemon" \/ platform = "win32"

\* The state file names a daemon, or a process that is gone.
StateOK ==
  /\ st.pid \in 0 .. MaxPid /\ st.stamp \in Nat /\ st.stamp <= births
  /\ st.pid \in Pids /\ proc[st.pid] # NoProc /\ proc[st.pid].stamp = st.stamp
       => proc[st.pid].kind = "daemon"

Types ==
  /\ proc \in [Pids -> Process]
  /\ births \in Nat /\ faults \in Nat /\ unit \in Nat /\ version \in Nat
  /\ lock \in [dir: {"absent", "there"}, owner: 0 .. MaxPid]

TableInv ==
  /\ Types
  /\ \A p \in Pids : PlaceOK(proc[p]) /\ proc[p].stamp <= births
  /\ StateOK

\* The lock of a holder.
HolderOK(p) ==
  /\ lock.dir = "there"
  /\ proc[p].pc = "own" => lock.owner = NoPid
  /\ proc[p].pc \notin {"own", "boot"} => lock.owner = p

\* A waiting starter that the owner file names has started the holder, which boots.
WaitOK(q) ==
  proc[q].pc = "waiting" /\ lock.owner = q =>
    \A p \in Pids : Holds(p) => proc[q].target = p /\ proc[p].pc = "boot"

LockInv ==
  /\ \A p, q \in Pids : Holds(p) /\ Holds(q) => p = q
  /\ \A p \in Pids : Holds(p) => HolderOK(p)
  /\ \A q \in Pids : WaitOK(q)

IInv == TableInv /\ (robbed = "no" => LockInv)

\* What a process record says of holding the lock.
Holder(r) ==
  \/ r.kind = "starter" /\ r.pc \in {"own", "held", "select"}
  \/ r.kind = "starter" /\ r.pc \in {"stop", "stopwait"} /\ r.next = "select"
  \/ r.kind = "daemon" /\ r.pc \in {"boot", "own", "state", "serve", "listen", "ready"}

\* The same process, further on.
Same(r, s) == r.kind = s.kind /\ r.stamp = s.stamp /\ r.by = s.by /\ r.sig = s.sig

\* The state file stays, goes, or is written by a daemon.
StateStep ==
  \/ st' \in {st, NoState}
  \/ st'.pid \in Pids /\ proc[st'.pid].kind = "daemon" /\ st'.stamp = proc[st'.pid].stamp

\* The variables about which the argument only needs their values.
OthersOK ==
  /\ faults' \in Nat /\ unit' \in Nat /\ version' \in Nat /\ platform' = platform
  /\ lock' \in [dir: {"absent", "there"}, owner: 0 .. MaxPid]

--------------------------------------------------------------------------------

\* Pids start at 1.
LEMMA PidFacts == Pids \subseteq 0 .. MaxPid /\ NoPid \notin Pids /\ NoPid \in 0 .. MaxPid
BY ConstantsAssumption DEF Pids, NoPid

\* No process.
LEMMA NoProcFacts ==
  /\ NoProc \in Process /\ PlaceOK(NoProc) /\ ~Holder(NoProc)
  /\ NoProc.stamp = 0 /\ NoProc.pc = "none" /\ NoProc.kind = "none"
<1>1. NoProc \in Process /\ NoProc.stamp = 0 /\ NoProc.pc = "none" /\ NoProc.kind = "none"
      /\ NoProc.by = "none" /\ NoProc.sig = "none"
  BY PidFacts DEF NoProc, Process, Places
<1> QED BY <1>1 DEF PlaceOK, Holder, StarterPlaces, DaemonPlaces, LockPlaces

\* What the invariant says of a process that is there.
LEMMA Found ==
  ASSUME TableInv, NEW p \in Pids
  PROVE  /\ proc \in [Pids -> Process] /\ proc[p] \in Process /\ PlaceOK(proc[p])
         /\ births \in Nat /\ proc[p].stamp <= births /\ proc[p].stamp \in Nat
         /\ lock \in [dir: {"absent", "there"}, owner: 0 .. MaxPid]
BY DEF TableInv, Types, Process

\* The initial state.
LEMMA InitInv == Init => IInv
<1> SUFFICES ASSUME Init PROVE IInv
  OBVIOUS
<1>1. Types
  BY NoProcFacts, PidFacts DEF Init, Types, NoLock
<1>2. \A p \in Pids : proc[p] = NoProc
  BY DEF Init
<1>3. StateOK
  BY <1>2, PidFacts DEF Init, NoState, StateOK
<1>4. \A p \in Pids : PlaceOK(proc[p]) /\ proc[p].stamp <= births
  BY <1>2, NoProcFacts DEF Init
<1>5. LockInv
  BY <1>2, NoProcFacts DEF LockInv, WaitOK, Holds
<1> QED BY <1>1, <1>3, <1>4, <1>5 DEF IInv, TableInv

\* A table in which every process is the one before, a new one, or none.
LEMMA TableKept ==
  ASSUME TableInv, proc' \in [Pids -> Process], births' \in Nat, births' >= births,
         OthersOK, StateStep,
         \A q \in Pids :
            /\ PlaceOK(proc'[q]) /\ proc'[q].stamp <= births'
            /\ \/ proc'[q] = NoProc
               \/ proc'[q].stamp > births
               \/ proc[q] # NoProc /\ proc'[q].kind = proc[q].kind /\ proc'[q].stamp = proc[q].stamp
  PROVE  TableInv'
<1>1. Types'
  BY DEF Types, OthersOK
<1>2. \A q \in Pids : (PlaceOK(proc[q]) /\ proc[q].stamp <= births)'
  BY DEF PlaceOK, OthersOK
<1>3. births \in Nat /\ proc \in [Pids -> Process] /\ StateOK
      /\ \A q \in Pids : proc[q].stamp \in Nat /\ proc[q].stamp <= births
  BY Found DEF TableInv, Types
<1>4. StateOK'
  <2>1. CASE st' = st
    BY <1>3, <2>1 DEF StateOK
  <2>2. CASE st' = NoState
    BY <1>3, <2>2, PidFacts DEF StateOK, NoState
  <2>3. CASE st'.pid \in Pids /\ proc[st'.pid].kind = "daemon" /\ st'.stamp = proc[st'.pid].stamp
    <3>1. PICK d \in Pids : d = st'.pid
      BY <2>3
    <3>2. proc[d].kind = "daemon" /\ st'.stamp = proc[d].stamp /\ d \in 0 .. MaxPid
      BY <2>3, <3>1, PidFacts
    <3>3. st'.stamp \in Nat /\ st'.stamp <= births'
      BY <1>3, <3>2
    <3>4. proc'[d] # NoProc /\ proc'[d].stamp = st'.stamp => proc'[d].kind = "daemon"
      BY <1>3, <3>2
    <3> QED BY <3>1, <3>2, <3>3, <3>4 DEF StateOK
  <2> QED BY <2>1, <2>2, <2>3 DEF StateStep
<1> QED BY <1>1, <1>2, <1>4 DEF TableInv

\* One process goes on.
LEMMA ProcessMoves ==
  ASSUME TableInv, NEW p \in Pids, NEW r \in Process, Same(r, proc[p]), PlaceOK(r),
         proc[p] # NoProc, proc' = [proc EXCEPT ![p] = r], births' = births, OthersOK, StateStep
  PROVE  TableInv'
<1>1. proc \in [Pids -> Process] /\ births \in Nat
      /\ \A q \in Pids : PlaceOK(proc[q]) /\ proc[q].stamp <= births
  BY DEF TableInv, Types
<1>2. proc' \in [Pids -> Process] /\ proc'[p] = r /\ \A q \in Pids : q # p => proc'[q] = proc[q]
  BY <1>1
<1>3. ASSUME NEW q \in Pids
      PROVE  /\ PlaceOK(proc'[q]) /\ proc'[q].stamp <= births'
             /\ \/ proc'[q] = NoProc
                \/ proc'[q].stamp > births
                \/ proc[q] # NoProc /\ proc'[q].kind = proc[q].kind /\ proc'[q].stamp = proc[q].stamp
  <2>1. CASE q = p
    BY <1>1, <1>2, <2>1 DEF Same
  <2>2. CASE q # p /\ proc[q] = NoProc
    BY <1>1, <1>2, <2>2
  <2>3. CASE q # p /\ proc[q] # NoProc
    BY <1>1, <1>2, <2>3
  <2> QED BY <2>1, <2>2, <2>3
<1> QED BY <1>1, <1>2, <1>3, TableKept

\* One process ends.
LEMMA ProcessExits ==
  ASSUME TableInv, NEW p \in Pids, proc' = [proc EXCEPT ![p] = NoProc], births' = births, OthersOK,
         StateStep
  PROVE  TableInv'
<1>1. proc \in [Pids -> Process] /\ births \in Nat
      /\ \A q \in Pids : PlaceOK(proc[q]) /\ proc[q].stamp <= births
  BY DEF TableInv, Types
<1>2. /\ proc' \in [Pids -> Process] /\ proc'[p] = NoProc
      /\ \A q \in Pids : q # p => proc'[q] = proc[q]
  BY <1>1, NoProcFacts
<1>3. ASSUME NEW q \in Pids
      PROVE  /\ PlaceOK(proc'[q]) /\ proc'[q].stamp <= births'
             /\ \/ proc'[q] = NoProc
                \/ proc'[q].stamp > births
                \/ proc[q] # NoProc /\ proc'[q].kind = proc[q].kind /\ proc'[q].stamp = proc[q].stamp
  BY <1>1, <1>2, NoProcFacts
<1> QED BY <1>1, <1>2, <1>3, TableKept

\* One process is born.
LEMMA ProcessBorn ==
  ASSUME TableInv, NEW p \in Pids, NEW r \in Process, PlaceOK(r), r.stamp = births + 1,
         proc' = [proc EXCEPT ![p] = r], births' = births + 1, OthersOK, StateStep
  PROVE  TableInv'
<1>1. proc \in [Pids -> Process] /\ births \in Nat
      /\ \A q \in Pids : PlaceOK(proc[q]) /\ proc[q].stamp <= births /\ proc[q].stamp \in Nat
  BY Found DEF TableInv, Types
<1>2. proc' \in [Pids -> Process] /\ proc'[p] = r /\ \A q \in Pids : q # p => proc'[q] = proc[q]
  BY <1>1
<1>3. ASSUME NEW q \in Pids
      PROVE  /\ PlaceOK(proc'[q]) /\ proc'[q].stamp <= births'
             /\ \/ proc'[q] = NoProc
                \/ proc'[q].stamp > births
                \/ proc[q] # NoProc /\ proc'[q].kind = proc[q].kind /\ proc'[q].stamp = proc[q].stamp
  BY <1>1, <1>2
<1> QED BY <1>1, <1>2, <1>3, TableKept

\* The lock, when nobody gets or loses it but by leaving it behind.
LEMMA LockKept ==
  ASSUME LockInv, lock' = lock,
         \A q \in Pids :
           /\ Holds(q)' => /\ Holds(q)
                           /\ proc'[q].pc = "own" <=> proc[q].pc = "own"
                           /\ proc'[q].pc = "boot" <=> proc[q].pc = "boot"
           /\ proc'[q].pc = "waiting" => proc[q].pc = "waiting" /\ proc'[q].target = proc[q].target
  PROVE  LockInv'
<1>1. \A p \in Pids : Holds(p)' => HolderOK(p)'
  BY DEF LockInv, HolderOK
<1>2. \A q \in Pids : WaitOK(q)'
  BY DEF LockInv, WaitOK
<1> QED BY <1>1, <1>2 DEF LockInv

\* The same for a step of one process.
LEMMA LockLeft ==
  ASSUME LockInv, NEW p \in Pids, NEW r, proc \in [Pids -> Process], proc' = [proc EXCEPT ![p] = r],
         lock' = lock,
         Holder(r) => /\ Holder(proc[p])
                      /\ r.pc = "own" <=> proc[p].pc = "own"
                      /\ r.pc = "boot" <=> proc[p].pc = "boot",
         r.pc = "waiting" => proc[p].pc = "waiting" /\ r.target = proc[p].target
  PROVE  LockInv'
<1>1. proc'[p] = r /\ \A q \in Pids : q # p => proc'[q] = proc[q]
  OBVIOUS
<1>2. \A q \in Pids : (Holds(q)' <=> Holder(proc'[q])) /\ (Holds(q) <=> Holder(proc[q]))
  BY DEF Holds, Holder
<1>3. ASSUME NEW q \in Pids
      PROVE  /\ Holds(q)' => /\ Holds(q)
                             /\ proc'[q].pc = "own" <=> proc[q].pc = "own"
                             /\ proc'[q].pc = "boot" <=> proc[q].pc = "boot"
             /\ proc'[q].pc = "waiting" => proc[q].pc = "waiting" /\ proc'[q].target = proc[q].target
  BY <1>1, <1>2
<1> QED BY <1>3, LockKept

\* Without holders there is nothing to say.
LEMMA NoHolders ==
  ASSUME \A q \in Pids : ~Holds(q)'
  PROVE  LockInv'
BY DEF LockInv, WaitOK

--------------------------------------------------------------------------------

\* Whoever is somewhere is there.
LEMMA Alive ==
  ASSUME NEW p \in Pids, proc[p].pc # "none" \/ proc[p].kind # "none"
  PROVE  proc[p] # NoProc
BY NoProcFacts

\* A step of one process that leaves the lock alone.
LEMMA GoesOn ==
  ASSUME IInv, NEW p \in Pids, NEW r \in Process, Same(r, proc[p]), PlaceOK(r), proc[p] # NoProc,
         proc' = [proc EXCEPT ![p] = r], births' = births, OthersOK, StateStep,
         lock' = lock, robbed' = robbed,
         Holder(r) => /\ Holder(proc[p])
                      /\ r.pc = "own" <=> proc[p].pc = "own"
                      /\ r.pc = "boot" <=> proc[p].pc = "boot",
         r.pc = "waiting" => proc[p].pc = "waiting" /\ r.target = proc[p].target
  PROVE  IInv'
<1>1. TableInv'
  BY ProcessMoves DEF IInv
<1>2. robbed' = "no" => LockInv'
  BY Found, LockLeft DEF IInv
<1> QED BY <1>1, <1>2 DEF IInv

\* An exit that leaves the lock as it is.
LEMMA Exits ==
  ASSUME IInv, NEW p \in Pids, proc' = Exit(p), births' = births, OthersOK, StateStep,
         lock' = lock, robbed' = robbed
  PROVE  IInv'
<1>1. proc' = [proc EXCEPT ![p] = NoProc]
  BY DEF Exit
<1>2. TableInv'
  BY <1>1, ProcessExits DEF IInv
<1>3. robbed' = "no" => LockInv'
  BY <1>1, Found, LockLeft, NoProcFacts DEF IInv
<1> QED BY <1>2, <1>3 DEF IInv

\* A new process that has nothing of the lock.
LEMMA Comes ==
  ASSUME IInv, NEW p \in Pids, NEW r \in Process, PlaceOK(r), r.stamp = births + 1,
         proc' = [proc EXCEPT ![p] = r], births' = births + 1, OthersOK, StateStep,
         lock' = lock, robbed' = robbed, ~Holder(r), r.pc # "waiting"
  PROVE  IInv'
<1>1. TableInv'
  BY ProcessBorn DEF IInv
<1>2. robbed' = "no" => LockInv'
  BY Found, LockLeft DEF IInv
<1> QED BY <1>1, <1>2 DEF IInv

\* A process that goes to another place.
LEMMA AtPlace ==
  ASSUME TableInv, NEW p \in Pids, NEW pc \in Places
  PROVE  \E r \in Process : /\ r.pc = pc /\ Same(r, proc[p]) /\ r.next = proc[p].next
                            /\ r.target = proc[p].target
                            /\ At(p, pc) = [proc EXCEPT ![p] = r]
<1>1. proc[p] \in Process /\ proc \in [Pids -> Process]
  BY Found
<1>2. PICK r \in Process : r = [proc[p] EXCEPT !.pc = pc]
  BY <1>1 DEF Process
<1>3. r.pc = pc /\ Same(r, proc[p]) /\ r.next = proc[p].next /\ r.target = proc[p].target
  BY <1>1, <1>2 DEF Process, Same
<1>4. At(p, pc) = [proc EXCEPT ![p] = r]
  BY <1>1, <1>2 DEF At
<1> QED BY <1>3, <1>4

\* What stays typed when the world stays.
LEMMA WorldKept ==
  ASSUME TableInv, UNCHANGED <<lock, unit, version, platform>>, faults' \in Nat
  PROVE  OthersOK
BY DEF TableInv, Types, OthersOK

\* Most steps of one process go to a place of its program that neither gets the lock nor waits.
LEMMA GoesTo ==
  ASSUME IInv, NEW p \in Pids, NEW pc \in Places \ {"own", "boot", "waiting", "none"},
         proc' = At(p, pc), births' = births, OthersOK, StateStep, lock' = lock, robbed' = robbed,
         proc[p].pc \notin {"none", "own", "boot"},
         pc \in StarterPlaces => proc[p].kind = "starter",
         pc \in DaemonPlaces => proc[p].kind = "daemon",
         pc \in LockPlaces => proc[p].kind \in {"starter", "daemon"},
         Holder([kind |-> proc[p].kind, pc |-> pc, next |-> proc[p].next]) => Holder(proc[p])
  PROVE  IInv'
<1>1. PICK r \in Process : /\ r.pc = pc /\ Same(r, proc[p]) /\ r.next = proc[p].next
                           /\ r.target = proc[p].target
                           /\ At(p, pc) = [proc EXCEPT ![p] = r]
  BY AtPlace DEF IInv
<1>2. PlaceOK(r)
  BY <1>1, Found DEF IInv, PlaceOK, Same
<1>3. Holder(r) => Holder(proc[p])
  BY <1>1 DEF Holder, Same
<1> QED BY <1>1, <1>2, <1>3, Alive, GoesOn

--------------------------------------------------------------------------------

\* A process as it is born.
LEMMA BornRecord ==
  ASSUME TableInv, NEW kind \in {"starter", "daemon", "stranger"}, NEW pc \in Places,
         NEW by \in {"none", "command", "unit", "starter"}
  PROVE  /\ Born(kind, pc, by) \in Process /\ Born(kind, pc, by).kind = kind
         /\ Born(kind, pc, by).pc = pc /\ Born(kind, pc, by).stamp = births + 1
         /\ Born(kind, pc, by).by = by /\ Born(kind, pc, by).sig = "none"
         /\ Born(kind, pc, by).next = "none"
<1>1. births + 1 \in Nat /\ NoProc \in Process
  BY NoProcFacts DEF TableInv, Types
<1>2. NoProc.sig = "none" /\ NoProc.next = "none"
  BY DEF NoProc
<1> QED BY <1>1, <1>2 DEF Born, Process

\* Commands, the unit and strangers come.
LEMMA StepBirth ==
  ASSUME IInv, NEW p \in Pids, Start(p) \/ Stop(p) \/ UnitStarts(p) \/ Stranger(p)
  PROVE  IInv'
<1>1. TableInv /\ births' = births + 1 /\ UNCHANGED <<st, lock, unit, version, faults, robbed, platform>>
  BY DEF IInv, Start, Stop, UnitStarts, Stranger, Birth, files, world
<1>2. OthersOK /\ StateStep
  BY <1>1, WorldKept DEF StateStep, TableInv, Types
<1>3. CASE Start(p)
  <2>1. PICK r \in Process : /\ r = Born("starter", "ensure", "command") /\ r.kind = "starter"
                             /\ r.pc = "ensure" /\ r.stamp = births + 1 /\ r.by = "command"
                             /\ r.sig = "none"
    BY <1>1, BornRecord DEF Places, StarterPlaces
  <2>2. PlaceOK(r) /\ ~Holder(r) /\ r.pc # "waiting"
    BY <2>1 DEF PlaceOK, Holder, StarterPlaces, DaemonPlaces, LockPlaces
  <2> QED BY <1>1, <1>2, <1>3, <2>1, <2>2, Comes DEF Start
<1>4. CASE Stop(p)
  <2>1. PICK next \in {"exit", "ensure"} :
          proc' = [proc EXCEPT ![p] = [Born("starter", "stop", "command") EXCEPT !.next = next]]
    BY <1>4 DEF Stop
  <2>2. PICK b \in Process : /\ b = Born("starter", "stop", "command") /\ b.kind = "starter"
                             /\ b.pc = "stop" /\ b.stamp = births + 1 /\ b.by = "command"
                             /\ b.sig = "none"
    BY <1>1, BornRecord DEF Places, StarterPlaces
  <2>3. PICK r \in Process : r = [b EXCEPT !.next = next]
    BY DEF Process
  <2>4. /\ r.kind = "starter" /\ r.pc = "stop" /\ r.stamp = births + 1 /\ r.by = "command"
        /\ r.sig = "none" /\ r.next = next
    BY <2>2, <2>3 DEF Process
  <2>5. PlaceOK(r) /\ ~Holder(r) /\ r.pc # "waiting"
    BY <2>4 DEF PlaceOK, Holder, StarterPlaces, DaemonPlaces, LockPlaces
  <2> QED BY <1>1, <1>2, <2>1, <2>2, <2>3, <2>4, <2>5, Comes
<1>5. CASE UnitStarts(p)
  <2>1. PICK b \in Process : /\ b = Born("daemon", "lock", "unit") /\ b.kind = "daemon"
                             /\ b.pc = "lock" /\ b.stamp = births + 1 /\ b.by = "unit"
                             /\ b.sig = "none"
    BY <1>1, BornRecord DEF Places, LockPlaces
  <2>2. PICK r \in Process : r = [b EXCEPT !.version = unit]
    <3>1. unit \in Nat
      BY <1>1 DEF TableInv, Types
    <3> QED BY <3>1 DEF Process
  <2>3. r.kind = "daemon" /\ r.pc = "lock" /\ r.stamp = births + 1
    BY <2>1, <2>2 DEF Process
  <2>4. PlaceOK(r) /\ ~Holder(r) /\ r.pc # "waiting"
    BY <2>3 DEF PlaceOK, Holder, StarterPlaces, DaemonPlaces, LockPlaces
  <2> QED BY <1>1, <1>2, <1>5, <2>1, <2>2, <2>3, <2>4, Comes DEF UnitStarts
<1>6. CASE Stranger(p)
  <2>1. PICK r \in Process : /\ r = Born("stranger", "runs", "none") /\ r.kind = "stranger"
                             /\ r.pc = "runs" /\ r.stamp = births + 1 /\ r.by = "none"
                             /\ r.sig = "none"
    BY <1>1, BornRecord DEF Places
  <2>2. PlaceOK(r) /\ ~Holder(r) /\ r.pc # "waiting"
    BY <2>1 DEF PlaceOK, Holder, StarterPlaces, DaemonPlaces, LockPlaces
  <2> QED BY <1>1, <1>2, <1>6, <2>1, <2>2, Comes DEF Stranger
<1> QED BY <1>3, <1>4, <1>5, <1>6

\* The unit and the installed version; the unit's daemon gets SIGTERM.
LEMMA StepWorld ==
  ASSUME IInv, AutostartEnable \/ AutostartDisable \/ Upgrade
  PROVE  IInv'
<1>1. /\ TableInv /\ UNCHANGED <<st, lock, births, robbed>>
      /\ AutostartDisable \/ proc' = proc
  BY DEF IInv, AutostartEnable, AutostartDisable, Upgrade, files, table, Step
<1>2. OthersOK /\ StateStep
  BY <1>1 DEF AutostartEnable, AutostartDisable, Upgrade, Fault, files, OthersOK, StateStep,
              TableInv, Types
<1>3. proc \in [Pids -> Process] /\ births \in Nat
  BY <1>1 DEF TableInv, Types
<1>4. ASSUME NEW q \in Pids
      PROVE  /\ proc'[q] \in Process /\ PlaceOK(proc'[q]) /\ proc'[q].kind = proc[q].kind
             /\ proc'[q].stamp = proc[q].stamp /\ proc'[q].pc = proc[q].pc
             /\ proc'[q].next = proc[q].next /\ proc'[q].target = proc[q].target
             /\ proc'[q] = proc[q] \/ proc[q].by = "unit"
  <2>1. proc[q] \in Process /\ PlaceOK(proc[q])
    BY <1>1, Found
  <2>2. CASE proc'[q] = proc[q]
    BY <2>1, <2>2
  <2>3. CASE proc'[q] # proc[q]
    <3>1. proc'[q] = [proc[q] EXCEPT !.sig = "term"] /\ proc[q].by = "unit"
      BY <1>1, <2>3 DEF AutostartDisable, Step
    <3>2. PICK r \in Process : r = [proc[q] EXCEPT !.sig = "term"]
      BY <2>1 DEF Process
    <3>3. /\ r.kind = proc[q].kind /\ r.stamp = proc[q].stamp /\ r.pc = proc[q].pc
          /\ r.next = proc[q].next /\ r.target = proc[q].target /\ r.by = "unit"
      BY <2>1, <3>1, <3>2 DEF Process
    <3>4. PlaceOK(r)
      BY <2>1, <3>1, <3>3 DEF PlaceOK
    <3> QED BY <3>1, <3>2, <3>3, <3>4
  <2> QED BY <2>2, <2>3
<1>5. proc' \in [Pids -> Process]
  <2>1. CASE proc' = proc
    BY <1>3, <2>1
  <2>2. CASE AutostartDisable
    <3>1. proc' = [q \in Pids |-> IF proc[q].by = "unit" THEN [proc[q] EXCEPT !.sig = "term"]
                                  ELSE proc[q]]
      BY <2>2 DEF AutostartDisable, Step
    <3> QED BY <1>4, <3>1
  <2> QED BY <1>1, <2>1, <2>2
<1>6. TableInv'
  <2>1. \A q \in Pids : proc[q].stamp <= births
    BY <1>1 DEF TableInv
  <2>2. \A q \in Pids : proc'[q] = NoProc \/ proc[q] # NoProc
    BY <1>4, NoProcFacts DEF NoProc
  <2> QED BY <1>1, <1>2, <1>3, <1>4, <1>5, <2>1, <2>2, TableKept
<1>7. robbed' = "no" => LockInv'
  <2>1. \A q \in Pids : Holds(q)' <=> Holds(q)
    BY <1>4 DEF Holds
  <2> QED BY <1>1, <1>4, <2>1, LockKept DEF IInv
<1> QED BY <1>6, <1>7 DEF IInv

\* The first part of ensureDaemon.
LEMMA StepEnsure ==
  ASSUME IInv, NEW p \in Pids, EnsureExisting(p) \/ EnsureProbe(p)
  PROVE  IInv'
<1>1. /\ TableInv /\ births' = births /\ UNCHANGED <<lock, unit, version, faults, robbed, platform>>
      /\ st' \in {st, NoState} /\ proc[p].pc \in {"ensure", "probe"}
  BY DEF IInv, EnsureExisting, EnsureProbe, Step, files, world
<1>2. OthersOK /\ StateStep
  BY <1>1, WorldKept DEF StateStep, TableInv, Types
<1>3. proc[p] \in Process /\ proc[p].kind = "starter" /\ proc[p] # NoProc
  BY <1>1, Found, Alive DEF PlaceOK, StarterPlaces
<1>4. CASE proc' = Exit(p)
  BY <1>1, <1>2, <1>4, Exits
<1>5. CASE proc' = At(p, "lock")
  <2>1. ~Holder([kind |-> proc[p].kind, pc |-> "lock", next |-> proc[p].next])
    BY DEF Holder
  <2> QED BY <1>1, <1>2, <1>3, <1>5, <2>1, GoesTo
          DEF Places, StarterPlaces, DaemonPlaces, LockPlaces
<1>6. ASSUME NEW pc \in {"stop", "probe", "lock"}, NEW next \in {"none", "lock", proc[p].next},
             NEW target \in 0 .. MaxPid, pc = "stop" => next = "lock",
             NEW r, r = [proc[p] EXCEPT !.pc = pc, !.next = next, !.target = target],
             proc' = [proc EXCEPT ![p] = r]
      PROVE  IInv'
  <2>1. r \in Process
    BY <1>3, <1>6 DEF Process, Places, StarterPlaces, LockPlaces
  <2>2. r.pc = pc /\ Same(r, proc[p]) /\ r.next = next
    BY <1>3, <1>6 DEF Process, Same
  <2>3. PlaceOK(r) /\ ~Holder(r) /\ r.pc # "waiting"
    BY <1>3, <1>6, <2>2, Found DEF IInv, PlaceOK, Holder, Same, StarterPlaces, DaemonPlaces, LockPlaces
  <2> QED BY <1>1, <1>2, <1>3, <1>6, <2>1, <2>2, <2>3, GoesOn
<1>7. proc[p].next \in {"none", "exit", "ensure", "lock", "select"} /\ proc[p].target \in 0 .. MaxPid
  BY <1>3 DEF Process
<1>8. CASE EnsureExisting(p)
  <2>1. CASE proc' = [proc EXCEPT ![p].pc = "stop", ![p].next = "lock"]
    <3>1. [proc[p] EXCEPT !.pc = "stop", !.next = "lock"]
            = [proc[p] EXCEPT !.pc = "stop", !.next = "lock", !.target = proc[p].target]
      BY <1>3 DEF Process
    <3>2. proc' = [proc EXCEPT ![p] = [proc[p] EXCEPT !.pc = "stop", !.next = "lock"]]
      BY <1>1, <2>1, Found
    <3> QED BY <1>6, <1>7, <3>1, <3>2
  <2>2. CASE identityMatches(st) /\ proc' = [proc EXCEPT ![p].pc = "probe", ![p].target = st.pid]
    <3>1. st.pid \in 0 .. MaxPid
      BY <1>1 DEF TableInv, StateOK
    <3>2. [proc[p] EXCEPT !.pc = "probe", !.target = st.pid]
            = [proc[p] EXCEPT !.pc = "probe", !.next = proc[p].next, !.target = st.pid]
      BY <1>3 DEF Process
    <3>3. proc' = [proc EXCEPT ![p] = [proc[p] EXCEPT !.pc = "probe", !.target = st.pid]]
      BY <1>1, <2>2, Found
    <3> QED BY <1>6, <3>1, <3>2, <3>3
  <2> QED BY <1>5, <1>8, <2>1, <2>2 DEF EnsureExisting, Step
<1>9. CASE EnsureProbe(p)
  <2>1. CASE proc' = [proc EXCEPT ![p].pc = "lock", ![p].target = NoPid]
    <3>1. [proc[p] EXCEPT !.pc = "lock", !.target = NoPid]
            = [proc[p] EXCEPT !.pc = "lock", !.next = proc[p].next, !.target = NoPid]
      BY <1>3 DEF Process
    <3>2. proc' = [proc EXCEPT ![p] = [proc[p] EXCEPT !.pc = "lock", !.target = NoPid]]
      BY <1>1, <2>1, Found
    <3> QED BY <1>6, <3>1, <3>2, PidFacts
  <2> QED BY <1>4, <1>9, <2>1 DEF EnsureProbe, Step
<1> QED BY <1>8, <1>9

--------------------------------------------------------------------------------

\* The holder, and the lock it is given, when no other process holds it.
LEMMA OneHolder ==
  ASSUME NEW p \in Pids, \A q \in Pids : Holds(q)' => q = p, HolderOK(p)',
         \A q \in Pids : (proc[q].pc = "waiting" /\ lock.owner = q)'
                           => proc'[q].target = p /\ proc'[p].pc = "boot"
  PROVE  LockInv'
<1>1. \A q \in Pids : WaitOK(q)'
  BY DEF WaitOK
<1> QED BY <1>1 DEF LockInv

\* mkdir succeeds only where nobody holds the lock.
LEMMA StepLockMkdir ==
  ASSUME IInv, NEW p \in Pids, LockMkdir(p)
  PROVE  IInv'
<1>1. /\ TableInv /\ births' = births /\ UNCHANGED <<st, unit, version, faults, robbed, platform>>
      /\ proc[p].pc = "lock"
  BY DEF IInv, LockMkdir, Step, world
<1>2. proc[p].kind \in {"starter", "daemon"} /\ proc \in [Pids -> Process] /\ proc[p] # NoProc
      /\ lock \in [dir: {"absent", "there"}, owner: 0 .. MaxPid]
  BY <1>1, Found, Alive DEF PlaceOK, LockPlaces
<1>3. CASE lock.dir = "absent"
  <2>1. lock' = [dir |-> "there", owner |-> NoPid] /\ proc' = At(p, "own")
    BY <1>3 DEF LockMkdir, Step
  <2>2. PICK r \in Process : /\ r.pc = "own" /\ Same(r, proc[p])
                             /\ At(p, "own") = [proc EXCEPT ![p] = r]
    BY <1>1, AtPlace DEF Places, LockPlaces
  <2>3. PlaceOK(r)
    BY <1>1, <1>2, <2>2, Found DEF PlaceOK, Same, StarterPlaces, DaemonPlaces, LockPlaces
  <2>4. OthersOK /\ StateStep
    BY <1>1, <2>1, PidFacts DEF OthersOK, StateStep, TableInv, Types
  <2>5. TableInv'
    BY <1>1, <1>2, <2>1, <2>2, <2>3, <2>4, ProcessMoves
  <2>6. ASSUME robbed' = "no" PROVE LockInv'
    <3>1. \A q \in Pids : ~Holds(q)
      BY <1>1, <1>3, <2>6 DEF IInv, LockInv, HolderOK
    <3>2. proc'[p] = r /\ \A q \in Pids : q # p => proc'[q] = proc[q]
      BY <1>2, <2>1, <2>2
    <3>3. \A q \in Pids : Holds(q)' => q = p
      BY <3>1, <3>2 DEF Holds
    <3>4. HolderOK(p)' /\ lock'.owner \notin Pids
      BY <2>1, <2>2, <3>2, PidFacts DEF HolderOK
    <3> QED BY <3>3, <3>4, OneHolder
  <2> QED BY <2>5, <2>6 DEF IInv
<1>4. CASE lock.dir # "absent"
  <2>1. lock' = lock /\ proc' = At(p, "look")
    BY <1>4 DEF LockMkdir, Step
  <2>2. OthersOK /\ StateStep
    BY <1>1, <2>1, WorldKept DEF StateStep, TableInv, Types
  <2>3. ~Holder([kind |-> proc[p].kind, pc |-> "look", next |-> proc[p].next])
    BY DEF Holder
  <2> QED BY <1>1, <1>2, <2>1, <2>2, <2>3, GoesTo DEF Places, StarterPlaces, DaemonPlaces, LockPlaces
<1> QED BY <1>3, <1>4

\* The owner file is written by the one who made the directory.
LEMMA StepLockOwn ==
  ASSUME IInv, NEW p \in Pids, LockOwn(p)
  PROVE  IInv'
<1>1. /\ TableInv /\ births' = births /\ UNCHANGED <<st, unit, version, faults, robbed, platform>>
      /\ proc[p].pc = "own"
  BY DEF IInv, LockOwn, Step, world
<1>2. proc[p].kind \in {"starter", "daemon"} /\ proc \in [Pids -> Process] /\ proc[p] # NoProc
      /\ lock \in [dir: {"absent", "there"}, owner: 0 .. MaxPid] /\ proc[p] \in Process
  BY <1>1, Found, Alive DEF PlaceOK, LockPlaces
<1>3. Holds(p)
  BY <1>1, <1>2 DEF Holds
<1>4. CASE lock.dir = "there"
  <2>1. PICK pc \in {"held", "state"} : pc = IF proc[p].kind = "starter" THEN "held" ELSE "state"
    OBVIOUS
  <2>2. lock' = [lock EXCEPT !.owner = p] /\ proc' = [proc EXCEPT ![p].pc = pc, ![p].tries = 0]
    BY <1>4, <2>1 DEF LockOwn, Step
  <2>3. PICK r \in Process : r = [proc[p] EXCEPT !.pc = pc, !.tries = 0]
    BY <1>2 DEF Process, Places, StarterPlaces, DaemonPlaces
  <2>4. r.pc = pc /\ Same(r, proc[p])
    BY <1>2, <2>3 DEF Process, Same
  <2>5. proc' = [proc EXCEPT ![p] = r]
    BY <1>2, <2>2, <2>3
  <2>6. PlaceOK(r)
    BY <1>1, <1>2, <2>1, <2>4, Found DEF PlaceOK, Same, StarterPlaces, DaemonPlaces, LockPlaces
  <2>7. lock' \in [dir: {"absent", "there"}, owner: 0 .. MaxPid] /\ lock'.dir = "there" /\ lock'.owner = p
    BY <1>2, <1>4, <2>2, PidFacts
  <2>8. OthersOK /\ StateStep
    BY <1>1, <2>7 DEF OthersOK, StateStep, TableInv, Types
  <2>9. TableInv'
    BY <1>1, <1>2, <2>4, <2>5, <2>6, <2>8, ProcessMoves
  <2>10. ASSUME robbed' = "no" PROVE LockInv'
    <3>1. \A q \in Pids : Holds(q) => q = p
      BY <1>1, <1>3, <2>10 DEF IInv, LockInv
    <3>2. proc'[p] = r /\ \A q \in Pids : q # p => proc'[q] = proc[q]
      BY <1>2, <2>5
    <3>3. \A q \in Pids : Holds(q)' => q = p
      BY <3>1, <3>2 DEF Holds
    <3>4. HolderOK(p)' /\ proc'[p].pc # "waiting"
      BY <2>1, <2>4, <2>7, <3>2 DEF HolderOK
    <3> QED BY <2>7, <3>3, <3>4, OneHolder
  <2> QED BY <2>9, <2>10 DEF IInv
<1>5. CASE lock.dir # "there"
  <2>1. lock' = lock /\ proc' = At(p, "look")
    BY <1>5 DEF LockOwn, Step
  <2>2. PICK r \in Process : /\ r.pc = "look" /\ Same(r, proc[p])
                             /\ At(p, "look") = [proc EXCEPT ![p] = r]
    BY <1>1, AtPlace DEF Places, LockPlaces
  <2>3. PlaceOK(r) /\ ~Holder(r) /\ r.pc # "waiting"
    BY <1>1, <1>2, <2>2, Found DEF PlaceOK, Same, Holder, StarterPlaces, DaemonPlaces, LockPlaces
  <2>4. OthersOK /\ StateStep
    BY <1>1, <2>1, WorldKept DEF StateStep, TableInv, Types
  <2> QED BY <1>1, <1>2, <2>1, <2>2, <2>3, <2>4, GoesOn
<1> QED BY <1>4, <1>5

\* The owner is looked at.
LEMMA StepLockLook ==
  ASSUME IInv, NEW p \in Pids, LockLook(p)
  PROVE  IInv'
<1>1. /\ TableInv /\ births' = births /\ UNCHANGED <<lock, unit, version, faults, robbed, platform>>
      /\ proc[p].pc = "look" /\ st' \in {st, NoState} /\ proc' \in {Exit(p), At(p, "rm")}
  BY DEF IInv, LockLook, LockRefused, Step, world
<1>2. proc[p].kind \in {"starter", "daemon"}
  BY <1>1, Found DEF PlaceOK, LockPlaces
<1>3. OthersOK /\ StateStep
  BY <1>1, WorldKept DEF StateStep, TableInv, Types
<1>4. ~Holder([kind |-> proc[p].kind, pc |-> "rm", next |-> proc[p].next])
  BY DEF Holder
<1>5. CASE proc' = At(p, "rm")
  BY <1>1, <1>2, <1>3, <1>4, <1>5, GoesTo DEF Places, StarterPlaces, DaemonPlaces, LockPlaces
<1> QED BY <1>1, <1>3, <1>5, Exits

\* A directory that is removed was nobody's, or this is a robbery.
LEMMA StepLockRemoveStale ==
  ASSUME IInv, NEW p \in Pids, LockRemoveStale(p)
  PROVE  IInv'
<1>1. /\ TableInv /\ births' = births /\ UNCHANGED <<unit, version, faults, platform>>
      /\ proc[p].pc = "rm" /\ st' \in {st, NoState} /\ lock' = NoLock
      /\ robbed' = IF Robs(p) THEN "yes" ELSE robbed
      /\ \/ proc' = Exit(p)
         \/ proc' = [proc EXCEPT ![p].pc = "lock", ![p].tries = 1]
  BY DEF IInv, LockRemoveStale, LockRefused, Step
<1>2. proc[p].kind \in {"starter", "daemon"} /\ proc \in [Pids -> Process] /\ proc[p] # NoProc
      /\ proc[p] \in Process
  BY <1>1, Found, Alive DEF PlaceOK, LockPlaces
<1>3. OthersOK /\ StateStep
  BY <1>1, PidFacts DEF OthersOK, StateStep, TableInv, Types, NoLock
<1>4. PICK r \in Process : /\ proc' = [proc EXCEPT ![p] = r] /\ ~Holder(r)
                           /\ r = NoProc \/ (Same(r, proc[p]) /\ r.pc = "lock")
  <2>1. CASE proc' = Exit(p)
    BY <2>1, NoProcFacts DEF Exit
  <2>2. CASE proc' = [proc EXCEPT ![p].pc = "lock", ![p].tries = 1]
    <3>1. PICK r \in Process : r = [proc[p] EXCEPT !.pc = "lock", !.tries = 1]
      BY <1>2 DEF Process, Places, LockPlaces
    <3>2. r.pc = "lock" /\ Same(r, proc[p])
      BY <1>2, <3>1 DEF Process, Same
    <3>3. proc' = [proc EXCEPT ![p] = r]
      BY <1>2, <2>2, <3>1
    <3>4. ~Holder(r)
      BY <3>2 DEF Holder
    <3> QED BY <3>2, <3>3, <3>4
  <2> QED BY <1>1, <2>1, <2>2
<1>5. TableInv'
  <2>1. CASE r = NoProc
    BY <1>1, <1>3, <1>4, <2>1, ProcessExits
  <2>2. CASE Same(r, proc[p]) /\ r.pc = "lock"
    <3>1. PlaceOK(r)
      BY <1>1, <1>2, <2>2, Found DEF PlaceOK, Same, StarterPlaces, DaemonPlaces, LockPlaces
    <3> QED BY <1>1, <1>2, <1>3, <1>4, <2>2, <3>1, ProcessMoves
  <2> QED BY <1>4, <2>1, <2>2
<1>6. ASSUME robbed' = "no" PROVE LockInv'
  <2>1. LockInv /\ ~Robs(p)
    BY <1>1, <1>6 DEF IInv
  <2>2. proc'[p] = r /\ \A q \in Pids : q # p => proc'[q] = proc[q]
    BY <1>2, <1>4
  <2>3. \A q \in Pids : q # p => ~Holds(q)
    BY <2>1 DEF Robs, LockInv, HolderOK, NoLock
  <2>4. \A q \in Pids : ~Holds(q)'
    BY <1>4, <2>2, <2>3 DEF Holds, Holder
  <2> QED BY <2>4, NoHolders
<1> QED BY <1>5, <1>6 DEF IInv

--------------------------------------------------------------------------------

\* What releaseLock leaves.
LEMMA Released ==
  ASSUME TableInv, NEW p \in Pids, releaseLock(p)
  PROVE  lock' \in [dir: {"absent", "there"}, owner: 0 .. MaxPid] /\ lock' \in {lock, NoLock}
BY PidFacts DEF releaseLock, NoLock, TableInv, Types

\* A holder that is done, of its lock too.
LEMMA HolderExits ==
  ASSUME IInv, NEW p \in Pids, Holds(p), proc' = Exit(p), births' = births, releaseLock(p),
         StateStep, faults' \in Nat, UNCHANGED <<unit, version, robbed, platform>>
  PROVE  IInv'
<1>1. TableInv /\ proc \in [Pids -> Process] /\ proc' = [proc EXCEPT ![p] = NoProc]
  BY Found DEF IInv, Exit
<1>2. OthersOK
  BY <1>1, Released DEF OthersOK, TableInv, Types
<1>3. TableInv'
  BY <1>1, <1>2, ProcessExits
<1>4. ASSUME robbed' = "no" PROVE LockInv'
  <2>1. \A q \in Pids : Holds(q) => q = p
    BY <1>4 DEF IInv, LockInv
  <2>2. proc'[p] = NoProc /\ \A q \in Pids : q # p => proc'[q] = proc[q]
    BY <1>1
  <2>3. \A q \in Pids : ~Holds(q)'
    BY <2>1, <2>2, NoProcFacts DEF Holds
  <2> QED BY <2>3, NoHolders
<1> QED BY <1>3, <1>4 DEF IInv

\* The state is read again with the lock held.
LEMMA StepEnsureAgain ==
  ASSUME IInv, NEW p \in Pids, EnsureAgain(p)
  PROVE  IInv'
<1>1. /\ TableInv /\ births' = births /\ UNCHANGED <<st, unit, version, faults, robbed, platform>>
      /\ proc[p].pc = "held"
  BY DEF IInv, EnsureAgain, Step, world
<1>2. proc[p].kind = "starter" /\ proc \in [Pids -> Process] /\ proc[p] # NoProc /\ proc[p] \in Process
  BY <1>1, Found, Alive DEF PlaceOK, StarterPlaces
<1>3. Holds(p) /\ Holder(proc[p])
  BY <1>1, <1>2 DEF Holds, Holder
<1>4. StateStep /\ faults' \in Nat
  BY <1>1 DEF StateStep, TableInv, Types
<1>5. CASE proc' = Exit(p) /\ releaseLock(p)
  BY <1>1, <1>3, <1>4, <1>5, HolderExits
<1>6. CASE lock' = lock /\ proc' = [proc EXCEPT ![p].pc = "stop", ![p].next = "select"]
  <2>1. PICK r \in Process : r = [proc[p] EXCEPT !.pc = "stop", !.next = "select"]
    BY <1>2 DEF Process, Places, StarterPlaces
  <2>2. r.pc = "stop" /\ Same(r, proc[p])
    BY <1>2, <2>1 DEF Process, Same
  <2>3. PlaceOK(r)
    BY <1>1, <1>2, <2>2, Found DEF PlaceOK, Same, StarterPlaces, DaemonPlaces, LockPlaces
  <2>4. proc' = [proc EXCEPT ![p] = r]
    BY <1>2, <1>6, <2>1
  <2> QED BY <1>1, <1>2, <1>3, <1>4, <1>6, <2>2, <2>3, <2>4, WorldKept, GoesOn
<1>7. CASE lock' = lock /\ proc' = At(p, "select")
  <2>1. "select" \in Places \ {"own", "boot", "waiting", "none"} /\ "select" \notin DaemonPlaces
        /\ "select" \notin LockPlaces
    BY DEF Places, StarterPlaces, DaemonPlaces, LockPlaces
  <2> QED BY <1>1, <1>2, <1>3, <1>4, <1>7, <2>1, WorldKept, GoesTo
<1> QED BY <1>5, <1>6, <1>7 DEF EnsureAgain, Step

\* The lock goes from the starter to the daemon it spawns.
LEMMA StepSpawnDaemon ==
  ASSUME IInv, NEW p \in Pids, SpawnDaemon(p)
  PROVE  IInv'
<1>1. /\ TableInv /\ UNCHANGED <<st, lock, unit, version, faults, robbed, platform>>
      /\ proc[p].pc = "select"
  BY DEF IInv, SpawnDaemon, files, world
<1>2. proc[p].kind = "starter" /\ proc \in [Pids -> Process] /\ proc[p] # NoProc /\ proc[p] \in Process
      /\ births \in Nat /\ version \in Nat
  BY <1>1, Found, Alive DEF PlaceOK, StarterPlaces, TableInv, Types
<1>3. Holds(p)
  BY <1>1, <1>2 DEF Holds
<1>4. PICK d \in Pids :
        /\ Birth(d)
        /\ proc' = [proc EXCEPT ![p].pc = "waiting", ![p].target = d, ![p].next = "none",
                                ![d] = [Born("daemon", "boot", "starter") EXCEPT !.version = version]]
  BY DEF SpawnDaemon
<1>5. births' = births + 1 /\ d # p
  BY <1>2, <1>4 DEF Birth, Free
<1>6. PICK r \in Process : r = [proc[p] EXCEPT !.pc = "waiting", !.target = d, !.next = "none"]
  BY <1>2, PidFacts DEF Process, Places, StarterPlaces
<1>7. r.pc = "waiting" /\ Same(r, proc[p]) /\ r.target = d
  BY <1>2, <1>6 DEF Process, Same
<1>8. PICK b \in Process : /\ b = Born("daemon", "boot", "starter") /\ b.kind = "daemon"
                           /\ b.pc = "boot" /\ b.stamp = births + 1 /\ b.by = "starter"
                           /\ b.sig = "none"
  BY <1>1, BornRecord DEF Places, DaemonPlaces
<1>9. PICK n \in Process : n = [b EXCEPT !.version = version]
  BY <1>2 DEF Process
<1>10. n.kind = "daemon" /\ n.pc = "boot" /\ n.stamp = births + 1
  BY <1>8, <1>9 DEF Process
<1>11. /\ proc' \in [Pids -> Process] /\ proc'[p] = r /\ proc'[d] = n
       /\ \A q \in Pids : q # p /\ q # d => proc'[q] = proc[q]
  <2>1. proc' = [q \in Pids |-> IF q = d THEN n ELSE IF q = p THEN r ELSE proc[q]]
    BY <1>2, <1>4, <1>5, <1>6, <1>8, <1>9
  <2> QED BY <1>2, <1>5, <2>1
<1>12. PlaceOK(r) /\ PlaceOK(n)
  BY <1>1, <1>2, <1>7, <1>10, Found DEF PlaceOK, Same, StarterPlaces, DaemonPlaces, LockPlaces
<1>13. OthersOK /\ StateStep
  BY <1>1, WorldKept DEF StateStep, TableInv, Types
<1>14. TableInv'
  <2>1. ASSUME NEW q \in Pids
        PROVE  /\ PlaceOK(proc'[q]) /\ proc'[q].stamp <= births'
               /\ \/ proc'[q] = NoProc
                  \/ proc'[q].stamp > births
                  \/ proc[q] # NoProc /\ proc'[q].kind = proc[q].kind /\ proc'[q].stamp = proc[q].stamp
    <3>1. PlaceOK(proc[q]) /\ proc[q].stamp <= births /\ proc[q].stamp \in Nat
      BY <1>1, Found
    <3>2. CASE q = p
      BY <1>2, <1>5, <1>7, <1>11, <1>12, <3>1, <3>2 DEF Same
    <3>3. CASE q = d
      BY <1>2, <1>5, <1>10, <1>11, <1>12, <3>3
    <3>4. CASE q # p /\ q # d
      BY <1>2, <1>5, <1>11, <3>1, <3>4
    <3> QED BY <3>2, <3>3, <3>4
  <2> QED BY <1>1, <1>2, <1>5, <1>11, <1>13, <2>1, TableKept
<1>15. ASSUME robbed' = "no" PROVE LockInv'
  <2>1. LockInv
    BY <1>1, <1>15 DEF IInv
  <2>2. (\A q \in Pids : Holds(q) => q = p) /\ lock.dir = "there" /\ lock.owner = p
    BY <1>1, <1>3, <2>1 DEF LockInv, HolderOK
  <2>3. \A q \in Pids : Holds(q)' => q = d
    BY <1>7, <1>11, <2>2 DEF Holds
  <2>4. HolderOK(d)'
    BY <1>1, <1>10, <1>11, <2>2 DEF HolderOK
  <2> QED BY <1>1, <1>7, <1>10, <1>11, <2>2, <2>3, <2>4, OneHolder
<1> QED BY <1>14, <1>15 DEF IInv

\* The starter is done: it removes no lock in use, or this is a robbery.
LEMMA StepWaitForHealth ==
  ASSUME IInv, NEW p \in Pids, WaitForHealth(p)
  PROVE  IInv'
<1>1. /\ TableInv /\ births' = births /\ UNCHANGED <<st, unit, version, faults, platform>>
      /\ proc[p].pc = "waiting" /\ releaseLock(p) /\ proc' = [proc EXCEPT ![p] = NoProc]
      /\ robbed' = IF lock.owner # p /\ ~ isProcessAlive(lock.owner) /\ lock' # lock /\ Robs(p)
                   THEN "yes" ELSE robbed
      /\ ~ (proc[proc[p].target].kind = "daemon" /\ proc[proc[p].target].pc = "boot")
  BY DEF IInv, WaitForHealth, Step, Exit
<1>2. proc[p].kind = "starter" /\ proc \in [Pids -> Process]
  BY <1>1, Found DEF PlaceOK, StarterPlaces
<1>3. OthersOK /\ StateStep
  BY <1>1, Released DEF OthersOK, StateStep, TableInv, Types
<1>4. TableInv'
  BY <1>1, <1>3, ProcessExits
<1>5. ASSUME robbed' = "no" PROVE LockInv'
  <2>1. LockInv
    BY <1>1, <1>5 DEF IInv
  <2>2. CASE lock' = lock
    BY <1>1, <1>2, <2>1, <2>2, NoProcFacts, LockLeft
  <2>3. CASE lock' # lock
    <3>1. ~Holds(p)
      BY <1>1, <1>2 DEF Holds
    <3>2. ASSUME NEW q \in Pids, Holds(q) PROVE FALSE
      <4>1. q # p
        BY <3>1, <3>2
      <4>2. lock # NoLock
        BY <2>1, <3>2 DEF LockInv, HolderOK, NoLock
      <4>3. Robs(p)
        BY <3>2, <4>1, <4>2 DEF Robs
      <4>4. CASE lock.owner = p
        <5>1. proc[p].target = q /\ proc[q].pc = "boot"
          BY <1>1, <2>1, <3>2, <4>4 DEF LockInv, WaitOK
        <5>2. proc[q].kind = "daemon"
          BY <1>1, <5>1, Found DEF PlaceOK, DaemonPlaces
        <5> QED BY <1>1, <5>1, <5>2
      <4>5. CASE lock.owner # p
        <5>1. ~isProcessAlive(lock.owner)
          BY <1>1, <2>3, <4>5 DEF releaseLock
        <5> QED BY <1>1, <1>5, <2>3, <4>3, <4>5, <5>1
      <4> QED BY <4>4, <4>5
    <3>3. proc'[p] = NoProc /\ \A q \in Pids : q # p => proc'[q] = proc[q]
      BY <1>1, <1>2
    <3>4. \A q \in Pids : ~Holds(q)'
      BY <3>2, <3>3, NoProcFacts DEF Holds
    <3> QED BY <3>4, NoHolders
  <2> QED BY <2>2, <2>3
<1> QED BY <1>4, <1>5 DEF IInv

--------------------------------------------------------------------------------

\* Back from stopDaemon: whoever held the lock goes on to select a port.
LEMMA Resumes ==
  ASSUME IInv, NEW p \in Pids, NEW left \in {st, NoState}, Resume(p, left),
         proc[p].pc \in {"stop", "stopwait"}, faults' \in Nat,
         UNCHANGED <<lock, unit, version, robbed, platform>>
  PROVE  IInv'
<1>1. TableInv /\ births' = births /\ st' \in {st, NoState}
  BY DEF IInv, Resume, Step
<1>2. proc[p].kind = "starter" /\ proc \in [Pids -> Process] /\ proc[p] # NoProc /\ proc[p] \in Process
  BY <1>1, Found, Alive DEF PlaceOK, StarterPlaces
<1>3. OthersOK /\ StateStep
  BY <1>1, WorldKept DEF StateStep
<1>4. CASE proc[p].next = "exit"
  BY <1>1, <1>3, <1>4, Exits DEF Resume, Step
<1>5. CASE proc[p].next # "exit"
  <2>1. PICK pc \in {"none", "ensure", "lock", "select"} : pc = proc[p].next
    BY <1>2, <1>5 DEF Process
  <2>2. PICK r \in Process : r = [proc[p] EXCEPT !.pc = pc, !.next = "none", !.target = NoPid]
    BY <1>2, PidFacts DEF Process, Places, StarterPlaces, LockPlaces
  <2>3. r.pc = pc /\ Same(r, proc[p])
    BY <1>2, <2>2 DEF Process, Same
  <2>4. proc' = [proc EXCEPT ![p] = r]
    BY <1>2, <1>5, <2>1, <2>2 DEF Resume, Step
  <2>5. PlaceOK(r)
    BY <1>1, <1>2, <2>3, Found DEF PlaceOK, Same, StarterPlaces, DaemonPlaces, LockPlaces
  <2>6. Holder(r) => pc = "select" /\ Holder(proc[p])
    BY <1>2, <2>1, <2>3 DEF Holder, Same
  <2> QED BY <1>1, <1>2, <1>3, <2>3, <2>4, <2>5, <2>6, GoesOn
<1> QED BY <1>4, <1>5

\* A signal changes a process in nothing else.
LEMMA Signalled ==
  ASSUME NEW r \in Process
  PROVE  \E n \in Process :
           /\ n = [r EXCEPT !.sig = "term"]
           /\ n.kind = r.kind /\ n.pc = r.pc /\ n.stamp = r.stamp /\ n.by = r.by
           /\ n.next = r.next /\ n.target = r.target
<1>1. PICK n \in Process : n = [r EXCEPT !.sig = "term"]
  BY DEF Process
<1> QED BY <1>1 DEF Process

\* SIGTERM goes to the process the state file names, which is a daemon but on Windows.
LEMMA Terminates ==
  ASSUME IInv, NEW p \in Pids, Terminate(p), proc[p].pc = "stop", identityMatches(st),
         UNCHANGED <<lock, unit, version, faults, robbed, platform>>
  PROVE  IInv'
<1>1. TableInv /\ births' = births /\ st' = st
  BY DEF IInv, Terminate, Step
<1>2. proc[p].kind = "starter" /\ proc \in [Pids -> Process] /\ proc[p] # NoProc /\ proc[p] \in Process
      /\ births \in Nat
  BY <1>1, Found, Alive DEF PlaceOK, StarterPlaces
<1>3. PICK d \in Pids : d = st.pid
  BY <1>1, PidFacts DEF TableInv, StateOK, identityMatches, isProcessAlive, Pids, NoPid
<1>4. /\ proc[d] \in Process /\ PlaceOK(proc[d]) /\ proc[d] # NoProc
      /\ proc[d].kind = "daemon" \/ platform = "win32"
  BY <1>1, <1>2, <1>3, Found DEF TableInv, StateOK, identityMatches, isProcessAlive
<1>5. PICK r \in Process : r = [proc[p] EXCEPT !.pc = "stopwait", !.target = d]
  BY <1>2, PidFacts DEF Process, Places, StarterPlaces
<1>6. r.pc = "stopwait" /\ Same(r, proc[p]) /\ r.next = proc[p].next
  BY <1>2, <1>5 DEF Process, Same
<1>7. PICK n \in Process : /\ n = [proc[d] EXCEPT !.sig = "term"]
                          /\ n.kind = proc[d].kind /\ n.pc = proc[d].pc /\ n.stamp = proc[d].stamp
                          /\ n.by = proc[d].by /\ n.next = proc[d].next /\ n.target = proc[d].target
  BY <1>4, Signalled
<1>8. PICK m \in Process : /\ m = [r EXCEPT !.sig = "term"]
                          /\ m.kind = r.kind /\ m.pc = r.pc /\ m.stamp = r.stamp
                          /\ m.by = r.by /\ m.next = r.next /\ m.target = r.target
  BY Signalled
<1>9. /\ proc' \in [Pids -> Process] /\ proc'[p] = (IF d = p THEN m ELSE r)
      /\ d # p => proc'[d] = n
      /\ \A q \in Pids : q # p /\ q # d => proc'[q] = proc[q]
  <2>1. CASE d # p
    <3>1. proc' = [q \in Pids |-> IF q = d THEN n ELSE IF q = p THEN r ELSE proc[q]]
      BY <1>2, <1>3, <1>4, <1>5, <1>7, <2>1 DEF Terminate, Step
    <3> QED BY <1>2, <1>4, <2>1, <3>1
  <2>2. CASE d = p
    <3>1. m = [[proc[p] EXCEPT !.sig = "term"] EXCEPT !.pc = "stopwait", !.target = d]
      BY <1>2, <1>5, <1>8 DEF Process
    <3>2. proc' = [proc EXCEPT ![p] = m]
      BY <1>2, <1>3, <2>2, <3>1 DEF Terminate, Step
    <3> QED BY <1>2, <2>2, <3>2
  <2> QED BY <2>1, <2>2
<1>10. PlaceOK(r) /\ PlaceOK(n) /\ (d = p => PlaceOK(m))
  <2>1. PlaceOK(r)
    BY <1>1, <1>2, <1>6, Found DEF PlaceOK, Same, StarterPlaces, DaemonPlaces, LockPlaces
  <2>2. PlaceOK(n)
    BY <1>4, <1>7 DEF PlaceOK
  <2>3. d = p => PlaceOK(m)
    BY <1>2, <1>4, <1>6, <1>8 DEF PlaceOK, Same, StarterPlaces, DaemonPlaces, LockPlaces
  <2> QED BY <2>1, <2>2, <2>3
<1>11. OthersOK /\ StateStep
  BY <1>1, WorldKept DEF StateStep, TableInv, Types
<1>12. TableInv'
  <2>1. ASSUME NEW q \in Pids
        PROVE  /\ PlaceOK(proc'[q]) /\ proc'[q].stamp <= births'
               /\ \/ proc'[q] = NoProc
                  \/ proc'[q].stamp > births
                  \/ proc[q] # NoProc /\ proc'[q].kind = proc[q].kind /\ proc'[q].stamp = proc[q].stamp
    <3>1. PlaceOK(proc[q]) /\ proc[q].stamp <= births
      BY <1>1, Found
    <3>2. CASE q # p /\ q # d
      BY <1>1, <1>9, <3>1, <3>2
    <3>3. CASE q = d /\ d # p
      BY <1>1, <1>4, <1>7, <1>9, <1>10, <3>1, <3>3
    <3>4. CASE q = p
      BY <1>1, <1>2, <1>6, <1>8, <1>9, <1>10, <3>1, <3>4 DEF Same
    <3> QED BY <3>2, <3>3, <3>4
  <2> QED BY <1>1, <1>2, <1>9, <1>11, <2>1, TableKept
<1>13. robbed' = "no" => LockInv'
  <2>1. ASSUME NEW q \in Pids
        PROVE  /\ Holds(q)' => /\ Holds(q)
                               /\ proc'[q].pc = "own" <=> proc[q].pc = "own"
                               /\ proc'[q].pc = "boot" <=> proc[q].pc = "boot"
               /\ proc'[q].pc = "waiting" => proc[q].pc = "waiting" /\ proc'[q].target = proc[q].target
    <3>1. CASE q # p /\ q # d
      BY <1>9, <3>1 DEF Holds
    <3>2. CASE q = d /\ d # p
      BY <1>7, <1>9, <3>2 DEF Holds
    <3>3. CASE q = p
      BY <1>2, <1>6, <1>8, <1>9, <3>3 DEF Holds, Same
    <3> QED BY <3>1, <3>2, <3>3
  <2> QED BY <2>1, LockKept DEF IInv
<1> QED BY <1>12, <1>13 DEF IInv

\* The steps of stopDaemon.
LEMMA StepStop ==
  ASSUME IInv, NEW p \in Pids, StopSignal(p) \/ StopDone(p) \/ StopFailed(p)
  PROVE  IInv'
<1>1. /\ UNCHANGED <<lock, unit, version, robbed, platform>> /\ proc[p].pc \in {"stop", "stopwait"}
      /\ faults' \in Nat
  BY DEF StopSignal, StopDone, StopFailed, world, Fault, IInv, TableInv, Types
<1>2. CASE StopSignal(p)
  BY <1>1, <1>2, Terminates, Resumes DEF StopSignal, world
<1>3. CASE StopDone(p)
  BY <1>1, <1>3, Resumes DEF StopDone
<1>4. CASE StopFailed(p)
  <2>1. CASE proc' = Exit(p) /\ births' = births /\ st' = st
    BY <1>1, <2>1, WorldKept, Exits DEF IInv, StateStep
  <2> QED BY <1>1, <1>4, <2>1, Resumes DEF StopFailed, Step
<1> QED BY <1>2, <1>3, <1>4

\* The daemon makes the lock its own.
LEMMA StepDaemonTakesLock ==
  ASSUME IInv, NEW p \in Pids, DaemonTakesLock(p)
  PROVE  IInv'
<1>1. /\ TableInv /\ births' = births /\ UNCHANGED <<st, unit, version, faults, robbed, platform>>
      /\ proc[p].pc = "boot" /\ lock' = [dir |-> "there", owner |-> p] /\ proc' = At(p, "state")
      /\ proc[p].kind = "daemon"
  BY DEF IInv, DaemonTakesLock, Step, world
<1>2. proc \in [Pids -> Process] /\ proc[p] # NoProc
  BY <1>1, Found, Alive
<1>3. PICK r \in Process : /\ r.pc = "state" /\ Same(r, proc[p])
                           /\ At(p, "state") = [proc EXCEPT ![p] = r]
  BY <1>1, AtPlace DEF Places, DaemonPlaces
<1>4. PlaceOK(r)
  BY <1>1, <1>3, Found DEF PlaceOK, Same, StarterPlaces, DaemonPlaces, LockPlaces
<1>5. OthersOK /\ StateStep
  BY <1>1, PidFacts DEF OthersOK, StateStep, TableInv, Types
<1>6. TableInv'
  BY <1>1, <1>2, <1>3, <1>4, <1>5, ProcessMoves
<1>7. ASSUME robbed' = "no" PROVE LockInv'
  <2>1. \A q \in Pids : Holds(q) => q = p
    BY <1>1, <1>7 DEF IInv, LockInv, Holds
  <2>2. proc'[p] = r /\ \A q \in Pids : q # p => proc'[q] = proc[q]
    BY <1>1, <1>2, <1>3
  <2>3. \A q \in Pids : Holds(q)' => q = p
    BY <2>1, <2>2 DEF Holds
  <2>4. HolderOK(p)'
    BY <1>1, <1>3, <2>2 DEF HolderOK
  <2> QED BY <1>1, <1>3, <2>2, <2>3, <2>4, OneHolder
<1> QED BY <1>6, <1>7 DEF IInv

\* The daemon goes from place to place, and writes the state.
LEMMA StepDaemonGoes ==
  ASSUME IInv, NEW p \in Pids, DaemonStarts(p) \/ DaemonListens(p) \/ DaemonReady(p)
  PROVE  IInv'
<1>1. /\ TableInv /\ births' = births /\ UNCHANGED <<lock, unit, version, faults, robbed, platform>>
      /\ proc[p].pc \in {"state", "serve", "listen"}
      /\ \E pc \in {"serve", "listen", "ready"} : proc' = At(p, pc)
  BY DEF IInv, DaemonStarts, DaemonListens, DaemonReady, Step, world, files
<1>2. proc[p].kind = "daemon"
  BY <1>1, Found DEF PlaceOK, DaemonPlaces
<1>3. StateStep
  BY <1>2 DEF DaemonStarts, DaemonListens, DaemonReady, WriteState, StateStep, files
<1>4. PICK pc \in {"serve", "listen", "ready"} : proc' = At(p, pc)
  BY <1>1
<1>5. Holder(proc[p])
  BY <1>1, <1>2 DEF Holder
<1>6. pc \in Places \ {"own", "boot", "waiting", "none"} /\ pc \notin StarterPlaces
      /\ pc \notin LockPlaces
  BY DEF Places, StarterPlaces, DaemonPlaces, LockPlaces
<1>7. OthersOK
  BY <1>1, WorldKept DEF TableInv, Types
<1> QED BY <1>1, <1>2, <1>3, <1>4, <1>5, <1>6, <1>7, GoesTo

\* A daemon ends in order, or a process is killed.
LEMMA StepEnds ==
  ASSUME IInv, NEW p \in Pids, DaemonFails(p) \/ Termed(p) \/ Killed(p)
  PROVE  IInv'
<1>1. /\ TableInv /\ births' = births /\ UNCHANGED <<unit, version, robbed, platform>> /\ faults' \in Nat
      /\ proc' = Exit(p)
  BY DEF IInv, DaemonFails, Termed, DaemonEnds, Killed, Step, world, Fault, TableInv, Types
<1>2. CASE DaemonEnds(p) /\ proc[p].pc \in {"serve", "listen", "ready"}
  <2>1. proc[p].kind = "daemon"
    BY <1>1, <1>2, Found DEF PlaceOK, DaemonPlaces
  <2>2. Holds(p)
    BY <1>2, <2>1 DEF Holds
  <2>3. StateStep /\ releaseLock(p)
    BY <1>2, <2>1 DEF StateStep, DaemonEnds, WriteState
  <2> QED BY <1>1, <2>2, <2>3, HolderExits
<1>3. CASE UNCHANGED files
  <2>1. StateStep /\ lock' = lock
    BY <1>3 DEF StateStep, files
  <2>2. OthersOK
    BY <1>1, <2>1, WorldKept
  <2> QED BY <1>1, <2>1, <2>2, Exits
<1> QED BY <1>2, <1>3 DEF DaemonFails, Termed, Killed, Daemons

\* Every step keeps the invariant.
LEMMA InvStep == IInv /\ [Next]_vars => IInv'
<1> SUFFICES ASSUME IInv, [Next]_vars PROVE IInv'
  OBVIOUS
<1>1. CASE UNCHANGED vars
  BY <1>1 DEF vars, table, files, world, IInv, TableInv, Types, PlaceOK, StateOK, LockInv, HolderOK,
              WaitOK, Holds
<1>2. ASSUME NEW p \in Pids, ProcessStep(p) PROVE IInv'
  BY <1>2, StepEnsure, StepLockMkdir, StepLockOwn, StepLockLook, StepLockRemoveStale, StepEnsureAgain,
     StepSpawnDaemon, StepWaitForHealth, StepStop, StepDaemonTakesLock, StepDaemonGoes, StepEnds
     DEF ProcessStep
<1> QED BY <1>1, <1>2, StepBirth, StepStop, StepEnds, StepWorld DEF Next

\* The invariant holds of every behaviour.
THEOREM Invariance == Spec => []IInv
BY InitInv, InvStep, PTL DEF Spec

\* But on Windows stopDaemon and the unit signal daemons only, for any number of processes
\* and reuses of a pid.
THEOREM SignalsReachDaemons == Spec => []SignalsOnlyDaemons
<1>1. IInv => SignalsOnlyDaemons
  BY DEF IInv, TableInv, PlaceOK, SignalsOnlyDaemons
<1> QED BY <1>1, Invariance, PTL

\* At most one daemon runs, for any number of processes and faults, unless a lock in use was
\* removed for want of a live owner.
THEOREM OneDaemon == Spec => []SoleDaemon
<1>1. IInv => SoleDaemon
  <2> SUFFICES ASSUME IInv, robbed = "no" PROVE Cardinality(Daemons) <= 1
    BY DEF SoleDaemon
  <2>1. \A p, q \in Daemons : p = q
    BY DEF IInv, LockInv, Daemons, Holds
  <2>2. CASE Daemons = {}
    BY <2>2, FS_EmptySet
  <2>3. CASE Daemons # {}
    <3>1. PICK p \in Daemons : TRUE
      BY <2>3
    <3>2. Daemons = {p}
      BY <2>1, <3>1
    <3> QED BY <3>2, FS_Singleton
  <2> QED BY <2>2, <2>3
<1> QED BY <1>1, Invariance, PTL


(***************************************************************************)
(* RunSupervisor                                                           *)
(***************************************************************************)

\* The pids given to workers so far, and those of them whose group is gone.
Spawned == {NoWorkerPid} \cup {w \in Workers : worker[w].pc # "none"}
GoneGroups == {w \in Workers : worker[w].pc # "none" /\ ~ processGroupAlive(w)}

\* A run record, on disk or in a process: its pid was given to a worker.
RecordOK(r, pids) ==
  /\ r = [sandbox |-> r.sandbox, state |-> r.state, pid |-> r.pid, cid |-> r.cid, reason |-> r.reason]
  /\ r.pid \in pids

\* A command: past the escalation of a stop, the group that it signalled is gone.
CommandOK(x, pids, gone) ==
  /\ x = [pc |-> x.pc, r |-> x.r, last |-> x.last, pid |-> x.pid, id |-> x.id, next |-> x.next]
  /\ RecordOK(x.r, pids) /\ RecordOK(x.last, pids) /\ x.pid \in pids
  /\ x.pc \in {"lookup", "dockerstop"} => x.r.sandbox = "container"
  /\ x.pc = "killwait" => x.pid # NoWorkerPid
  /\ x.pc \in {"settle", "settlewrite", "stopped"} /\ x.r.sandbox # "container" /\ x.pid # NoWorkerPid
       => x.pid \in gone

\* A worker: it has no child before it executes, and what it read for its final
\* record is an ended one.
WorkerOK(x, a, pids) ==
  /\ x = [pc |-> x.pc, record |-> x.record, copy |-> x.copy, sig |-> x.sig]
  /\ RecordOK(x.record, pids) /\ RecordOK(x.copy, pids)
  /\ x.pc \in {"none", "boot", "input", "prepare"} => a = "none"
  /\ x.pc \in {"failing", "finalizing"} => x.copy.state \in {"exited", "failed"}

WorkersInv ==
  /\ worker = [w \in Workers |-> worker[w]]
  /\ agent = [w \in Workers |-> agent[w]]
  /\ \A w \in Workers : WorkerOK(worker[w], agent[w], Spawned)
CommandsInv ==
  /\ cli = [c \in Clis |-> cli[c]]
  /\ \A c \in Clis : CommandOK(cli[c], Spawned, GoneGroups)
RecordsInv == RecordOK(rec, Spawned) /\ RecordOK(lister, Spawned)

\* The samples: one that was not reported is nowhere.
SamplesInv ==
  /\ ufile \subseteq Workers
  /\ counted \in [Workers -> Nat]
  /\ \A w \in Workers : agent[w] \in {"none", "silent"} => w \notin ufile /\ counted[w] = 0

Living == {w \in Workers : WorkerAlive(w)}
Spawning == {c \in Clis : cli[c].pc = "spawn"}

\* One worker at a time, alive or about to be spawned; while a sample that was
\* counted is still in the file, whoever is alive is about to remove the file.
Alone ==
  /\ \A v, w \in Living : v = w
  /\ \A c, d \in Spawning : c = d
  /\ Living = {} \/ Spawning = {}
CountedOK ==
  /\ \A v \in Workers : counted[v] <= 1
  /\ \A v \in ufile : counted[v] = 1 =>
       /\ \A w \in Living : worker[w].pc = "tidy"
       /\ Spawning = {}
OnceInv == overlap = "no" => Alone /\ CountedOK

RunInv == WorkersInv /\ CommandsInv /\ RecordsInv /\ SamplesInv /\ OnceInv

--------------------------------------------------------------------------------

\* Pids are not reused, and a group that is gone stays gone.
Grows == Spawned \subseteq Spawned' /\ GoneGroups \subseteq GoneGroups'

\* What steps that neither count nor start anything do to the samples.
Calm ==
  /\ \A w \in Workers : agent'[w] \in {"none", "silent"} => agent[w] \in {"none", "silent"}
  /\ ufile' \subseteq ufile
  /\ counted' = counted
  /\ overlap' = overlap
  /\ Living' \subseteq Living
  /\ \A w \in Living' : worker[w].pc = "tidy" => worker'[w].pc = "tidy"
  /\ Spawning' \subseteq Spawning

\* The ways a record is written: its state, with the reason, with the sandbox too,
\* the container's id, the pid.
InState(r, s) == [r EXCEPT !.state = s]
Ended(r, s, t) == [r EXCEPT !.state = s, !.reason = t]
EndedIn(r, u, s, t) == [r EXCEPT !.sandbox = u, !.state = s, !.reason = t]
WithCid(r, i) == [r EXCEPT !.cid = i]

\* A record keeps its shape and its pid when other fields are written.
LEMMA RecordEdits ==
  ASSUME NEW r, NEW P, RecordOK(r, P), NEW s, NEW t, NEW u
  PROVE  /\ RecordOK(InState(r, s), P) /\ InState(r, s).state = s
         /\ InState(r, s).sandbox = r.sandbox
         /\ RecordOK(Ended(r, s, t), P) /\ Ended(r, s, t).state = s
         /\ RecordOK(EndedIn(r, u, s, t), P) /\ EndedIn(r, u, s, t).state = s
         /\ RecordOK(WithCid(r, u), P) /\ WithCid(r, u).state = r.state
<1>1. PICK a, b, p, d, e : r = [sandbox |-> a, state |-> b, pid |-> p, cid |-> d, reason |-> e]
  BY DEF RecordOK
<1>2. p \in P
  BY <1>1 DEF RecordOK
<1>3. RecordOK(InState(r, s), P) /\ InState(r, s).state = s /\ InState(r, s).sandbox = r.sandbox
  BY <1>1, <1>2 DEF RecordOK, InState
<1>4. RecordOK(WithCid(r, u), P) /\ WithCid(r, u).state = r.state
  BY <1>1, <1>2 DEF RecordOK, WithCid
<1>5. RecordOK(Ended(r, s, t), P) /\ Ended(r, s, t).state = s
  <2>1. PICK x : x = Ended(r, s, t)
    OBVIOUS
  <2>2. x.state = s /\ x.pid = p
    BY <1>1, <2>1 DEF Ended
  <2>3. x = [sandbox |-> x.sandbox, state |-> x.state, pid |-> x.pid, cid |-> x.cid, reason |-> x.reason]
    BY <1>1, <2>1 DEF Ended
  <2> QED
    BY <1>2, <2>1, <2>2, <2>3 DEF RecordOK
<1>6. RecordOK(EndedIn(r, u, s, t), P) /\ EndedIn(r, u, s, t).state = s
  <2>1. PICK x : x = EndedIn(r, u, s, t)
    OBVIOUS
  <2>2. x.state = s /\ x.pid = p
    BY <1>1, <2>1 DEF EndedIn
  <2>3. x = [sandbox |-> x.sandbox, state |-> x.state, pid |-> x.pid, cid |-> x.cid, reason |-> x.reason]
    BY <1>1, <2>1 DEF EndedIn
  <2> QED
    BY <1>2, <2>1, <2>2, <2>3 DEF RecordOK
<1> QED
  BY <1>3, <1>4, <1>5, <1>6

\* The records the code builds from nothing.
LEMMA FreshRecords ==
  /\ RecordOK(NoRun, Spawned) /\ RecordOK(StartRecord, Spawned) /\ RecordOK(ForegroundRecord, Spawned)
  /\ NoRun.state = "absent"
  /\ \A p \in Spawned : RecordOK([StartRecord EXCEPT !.pid = p], Spawned)
<1>1. NoWorkerPid \in Spawned
  BY DEF Spawned
<1> QED
  BY <1>1 DEF RecordOK, NoRun, StartRecord, ForegroundRecord

\* More pids and more groups gone only help records and commands.
LEMMA Weaker ==
  ASSUME NEW P, NEW Q, P \subseteq Q, NEW G, NEW H, G \subseteq H
  PROVE  /\ \A r : RecordOK(r, P) => RecordOK(r, Q)
         /\ \A x : CommandOK(x, P, G) => CommandOK(x, Q, H)
         /\ \A x, a : WorkerOK(x, a, P) => WorkerOK(x, a, Q)
BY DEF RecordOK, CommandOK, WorkerOK

\* What a reconciled record is: it keeps its shape, and its state or an ended one.
LEMMA Reconcile ==
  ASSUME NEW r, RecordOK(r, Spawned), NEW found
  PROVE  /\ RecordOK(reconcileRun(r, found), Spawned)
         /\ reconcileRun(r, found).state \in {r.state, "exited", "orphaned"}
<1> DEFINE e == Ended(r, "exited", "other")
           o == Ended(r, "orphaned", "other")
           i == WithCid(r, found)
<1>1. /\ RecordOK(e, Spawned) /\ e.state = "exited"
      /\ RecordOK(o, Spawned) /\ o.state = "orphaned"
      /\ RecordOK(i, Spawned) /\ i.state = r.state
  BY RecordEdits
<1>2. reconcileRun(r, found) \in {e, o, i, r}
  BY DEF reconcileRun, Ended, WithCid
<1> HIDE DEF e, o, i
<1> QED
  BY <1>1, <1>2

--------------------------------------------------------------------------------

\* Nothing happens to the processes.
LEMMA ProcessesKept ==
  ASSUME WorkersInv, UNCHANGED <<worker, agent>>
  PROVE  Grows /\ WorkersInv' /\ Spawned' = Spawned /\ GoneGroups' = GoneGroups /\ Living' = Living
BY DEF WorkersInv, Grows, Spawned, GoneGroups, Living, processGroupAlive, WorkerAlive, AgentAlive

\* One worker, or its child, moves: a group that was gone stays gone.
LEMMA ProcessMoved ==
  ASSUME WorkersInv, NEW w \in Workers, NEW x, NEW a,
         worker' = [worker EXCEPT ![w] = x],
         agent' = [agent EXCEPT ![w] = a],
         WorkerOK(x, a, Spawned),
         x.pc # "none",
         w \in GoneGroups => x.pc = "dead" /\ a \notin {"silent", "reported", "client"}
  PROVE  Grows /\ WorkersInv' /\ worker'[w] = x /\ agent'[w] = a
         /\ \A v \in Workers : v # w => worker'[v] = worker[v] /\ agent'[v] = agent[v]
<1>1. worker'[w] = x /\ agent'[w] = a
  BY DEF WorkersInv
<1>2. \A v \in Workers : v # w => worker'[v] = worker[v] /\ agent'[v] = agent[v]
  BY DEF WorkersInv
<1>3. worker' = [v \in Workers |-> worker'[v]] /\ agent' = [v \in Workers |-> agent'[v]]
  BY DEF WorkersInv
<1>4. Spawned \subseteq Spawned'
  BY <1>1, <1>2 DEF Spawned
<1>5. GoneGroups \subseteq GoneGroups'
  BY <1>1, <1>2 DEF GoneGroups, processGroupAlive, WorkerAlive, AgentAlive
<1>6. \A v \in Workers : WorkerOK(worker'[v], agent'[v], Spawned)
  BY <1>1, <1>2 DEF WorkersInv
<1>7. \A v \in Workers : WorkerOK(worker'[v], agent'[v], Spawned')
  BY <1>4, <1>6, Weaker
<1> QED
  BY <1>1, <1>2, <1>3, <1>4, <1>5, <1>7 DEF Grows, WorkersInv

\* No command moves.
LEMMA CommandsKept ==
  ASSUME CommandsInv, Grows, cli' = cli
  PROVE  CommandsInv' /\ Spawning' = Spawning
BY Weaker DEF CommandsInv, Grows, Spawning

\* One command moves.
LEMMA CommandMoved ==
  ASSUME CommandsInv, Grows, NEW c \in Clis, NEW x,
         cli' = [cli EXCEPT ![c] = x],
         CommandOK(x, Spawned', GoneGroups')
  PROVE  CommandsInv' /\ cli'[c] = x /\ (x.pc # "spawn" => Spawning' \subseteq Spawning)
         /\ \A d \in Clis : d # c => cli'[d] = cli[d]
<1>1. cli'[c] = x /\ \A d \in Clis : d # c => cli'[d] = cli[d]
  BY DEF CommandsInv
<1>2. cli' = [d \in Clis |-> cli'[d]]
  BY DEF CommandsInv
<1>3. \A d \in Clis : CommandOK(cli'[d], Spawned', GoneGroups')
  BY <1>1, Weaker DEF CommandsInv, Grows
<1>4. x.pc # "spawn" => Spawning' \subseteq Spawning
  BY <1>1 DEF Spawning
<1> QED
  BY <1>1, <1>2, <1>3, <1>4 DEF CommandsInv

\* Records on disk and in a listing survive the steps that do not write them.
LEMMA RecordsKept ==
  ASSUME Grows
  PROVE  /\ RecordOK(rec, Spawned) /\ rec' = rec => RecordOK(rec', Spawned')
         /\ RecordOK(lister, Spawned) /\ lister' = lister => RecordOK(lister', Spawned')
         /\ \A r : RecordOK(r, Spawned) => RecordOK(r, Spawned')
BY Weaker DEF Grows

\* Calm steps keep the samples.
LEMMA CalmKeeps ==
  ASSUME SamplesInv, OnceInv, Calm
  PROVE  SamplesInv' /\ OnceInv'
<1>1. SamplesInv'
  BY DEF SamplesInv, Calm
<1>2. ASSUME overlap' = "no" PROVE Alone' /\ CountedOK'
  <2>1. Alone /\ CountedOK
    BY <1>2 DEF Calm, OnceInv
  <2>2. Alone'
    BY <2>1 DEF Alone, Calm
  <2>3. CountedOK'
    BY <2>1 DEF CountedOK, Calm
  <2> QED
    BY <2>2, <2>3
<1> QED
  BY <1>1, <1>2 DEF OnceInv

--------------------------------------------------------------------------------

\* A command at another place, with the rest of what it knows.
Goes(x, s) == [x EXCEPT !.pc = s]
GoesWithId(x, s, i) == [x EXCEPT !.pc = s, !.id = i]
GoesWithLast(x, s, r) == [x EXCEPT !.pc = s, !.last = r]
GoesWithRecord(x, s, r) == [x EXCEPT !.pc = s, !.r = r]
GoesWithPid(x, s, w) == [x EXCEPT !.pc = s, !.pid = w]

\* What a command keeps when it goes on.
LEMMA CommandEdits ==
  ASSUME NEW x, NEW P, NEW G, CommandOK(x, P, G), NEW s, NEW u
  PROVE  LET fits == /\ s \in {"lookup", "dockerstop"} => x.r.sandbox = "container"
                     /\ s = "killwait" => x.pid # NoWorkerPid
                     /\ s \in {"settle", "settlewrite", "stopped"} /\ x.r.sandbox # "container" /\ x.pid # NoWorkerPid
                          => x.pid \in G
         IN  /\ Goes(x, s).pc = s
             /\ fits => CommandOK(Goes(x, s), P, G)
             /\ fits => CommandOK(GoesWithId(x, s, u), P, G) /\ GoesWithId(x, s, u).pc = s
             /\ fits /\ RecordOK(u, P) => CommandOK(GoesWithLast(x, s, u), P, G) /\ GoesWithLast(x, s, u).pc = s
<1>1. PICK a, b, c, d, e, f : x = [pc |-> a, r |-> b, last |-> c, pid |-> d, id |-> e, next |-> f]
  BY DEF CommandOK
<1>2. RecordOK(b, P) /\ RecordOK(c, P) /\ d \in P
  BY <1>1 DEF CommandOK
<1>3. PICK y : y = Goes(x, s)
  OBVIOUS
<1>4. y = [pc |-> s, r |-> b, last |-> c, pid |-> d, id |-> e, next |-> f]
  BY <1>1, <1>3 DEF Goes
<1>5. PICK z : z = GoesWithId(x, s, u)
  OBVIOUS
<1>6. z.pc = s /\ z.r = b /\ z.last = c /\ z.pid = d
  BY <1>1, <1>5 DEF GoesWithId
<1>7. z = [pc |-> z.pc, r |-> z.r, last |-> z.last, pid |-> z.pid, id |-> z.id, next |-> z.next]
  BY <1>1, <1>5 DEF GoesWithId
<1>8. PICK l : l = GoesWithLast(x, s, u)
  OBVIOUS
<1>9. l.pc = s /\ l.r = b /\ l.last = u /\ l.pid = d
  BY <1>1, <1>8 DEF GoesWithLast
<1>10. l = [pc |-> l.pc, r |-> l.r, last |-> l.last, pid |-> l.pid, id |-> l.id, next |-> l.next]
  BY <1>1, <1>8 DEF GoesWithLast
<1>11. x.r = b /\ x.pid = d
  BY <1>1
<1> HIDE <1>1
<1>12. y.pc = s /\ y.r = b /\ y.last = c /\ y.pid = d /\ y.id = e /\ y.next = f
  BY <1>4
<1>13. y = [pc |-> y.pc, r |-> y.r, last |-> y.last, pid |-> y.pid, id |-> y.id, next |-> y.next]
  BY <1>4, <1>12
<1> HIDE <1>4
<1> QED
  BY <1>2, <1>3, <1>12, <1>13, <1>5, <1>6, <1>7, <1>8, <1>9, <1>10, <1>11 DEF CommandOK

\* Commands that know nothing of the run, or only its record or its pid.
LEMMA FreshCommands ==
  /\ CommandOK(Idle, Spawned, GoneGroups) /\ Idle.pc = "idle"
  /\ CommandOK(Goes(Idle, "clean"), Spawned, GoneGroups) /\ Goes(Idle, "clean").pc = "clean"
  /\ CommandOK(Goes(Idle, "spawn"), Spawned, GoneGroups) /\ Goes(Idle, "spawn").pc = "spawn"
  /\ CommandOK(Goes(Idle, "wait"), Spawned, GoneGroups) /\ Goes(Idle, "wait").pc = "wait"
<1>1. CommandOK(Idle, Spawned, GoneGroups) /\ Idle.pc = "idle"
  <2>1. NoWorkerPid \in Spawned
    BY DEF Spawned
  <2> QED
    BY <2>1, FreshRecords DEF Idle, CommandOK
<1> QED
  BY <1>1, CommandEdits

\* A step of one command that leaves the processes and the samples alone.
LEMMA CommandSteps ==
  ASSUME RunInv, NEW c \in Clis, NEW x,
         UNCHANGED <<worker, agent>>, UNCHANGED usage,
         cli' = [cli EXCEPT ![c] = x],
         CommandOK(x, Spawned, GoneGroups), x.pc # "spawn",
         RecordOK(rec', Spawned), RecordOK(lister', Spawned)
  PROVE  RunInv'
<1>1. Grows /\ WorkersInv' /\ Spawned' = Spawned /\ GoneGroups' = GoneGroups /\ Living' = Living
  BY ProcessesKept DEF RunInv
<1>2. CommandsInv' /\ Spawning' \subseteq Spawning
  BY <1>1, CommandMoved DEF RunInv
<1>3. RecordsInv'
  BY <1>1 DEF RecordsInv
<1>4. Calm
  BY <1>1, <1>2 DEF Calm, usage
<1> QED
  BY <1>1, <1>2, <1>3, <1>4, CalmKeeps DEF RunInv

\* A step that only writes the record or the listing.
LEMMA RecordSteps ==
  ASSUME RunInv, UNCHANGED <<worker, agent, cli>>, counted' = counted, overlap' = overlap,
         ufile' \subseteq ufile, RecordOK(rec', Spawned), RecordOK(lister', Spawned)
  PROVE  RunInv'
<1>1. Grows /\ WorkersInv' /\ Spawned' = Spawned /\ GoneGroups' = GoneGroups /\ Living' = Living
  BY ProcessesKept DEF RunInv
<1>2. CommandsInv' /\ Spawning' = Spawning
  BY <1>1, CommandsKept DEF RunInv
<1>3. RecordsInv'
  BY <1>1 DEF RecordsInv
<1>4. Calm
  BY <1>1, <1>2 DEF Calm
<1> QED
  BY <1>1, <1>2, <1>3, <1>4, CalmKeeps DEF RunInv

\* A step of one worker or of its child that neither counts nor reports.
LEMMA WorkerSteps ==
  ASSUME RunInv, NEW w \in Workers, NEW x, NEW a,
         worker' = [worker EXCEPT ![w] = x],
         agent' = [agent EXCEPT ![w] = a],
         WorkerOK(x, a, Spawned),
         x.pc # "none",
         x.pc # "dead" => WorkerAlive(w),
         a \in {"silent", "reported", "client"} => AgentAlive(w) \/ WorkerAlive(w),
         a \in {"none", "silent"} => agent[w] \in {"none", "silent"},
         worker[w].pc = "tidy" => x.pc \in {"tidy", "dead"},
         UNCHANGED <<cli, lister, counted, overlap>>, ufile' \subseteq ufile,
         RecordOK(rec', Spawned)
  PROVE  RunInv'
<1>0. w \in GoneGroups => x.pc = "dead" /\ a \notin {"silent", "reported", "client"}
  BY DEF GoneGroups, processGroupAlive
<1>1. /\ Grows /\ WorkersInv' /\ worker'[w] = x /\ agent'[w] = a
      /\ \A v \in Workers : v # w => worker'[v] = worker[v] /\ agent'[v] = agent[v]
  BY <1>0, ProcessMoved DEF RunInv
<1>2. CommandsInv' /\ Spawning' = Spawning
  BY <1>1, CommandsKept DEF RunInv
<1>3. RecordsInv'
  BY <1>1, RecordsKept DEF RunInv, RecordsInv
<1>4. Living' \subseteq Living
  BY <1>1 DEF Living, WorkerAlive
<1>5. \A v \in Living' : worker[v].pc = "tidy" => worker'[v].pc = "tidy"
  BY <1>1 DEF Living, WorkerAlive
<1>6. Calm
  BY <1>1, <1>2, <1>4, <1>5 DEF Calm
<1> QED
  BY <1>1, <1>2, <1>3, <1>6, CalmKeeps DEF RunInv

--------------------------------------------------------------------------------

\* What RunInv says of one command and of the records.
LEMMA InvFacts ==
  ASSUME RunInv
  PROVE  /\ RecordOK(rec, Spawned) /\ RecordOK(lister, Spawned)
         /\ \A c \in Clis : /\ CommandOK(cli[c], Spawned, GoneGroups)
                            /\ RecordOK(cli[c].r, Spawned) /\ RecordOK(cli[c].last, Spawned)
                            /\ cli[c].pid \in Spawned
         /\ \A w \in Workers : /\ WorkerOK(worker[w], agent[w], Spawned)
                               /\ RecordOK(worker[w].record, Spawned)
                               /\ RecordOK(worker[w].copy, Spawned)
BY DEF RunInv, RecordsInv, CommandsInv, CommandOK, WorkersInv, WorkerOK

\* Listings.
LEMMA StepLists == ASSUME RunInv, Ps \/ PsRead \/ PsProbe PROVE RunInv'
<1>1. CASE Ps
  BY <1>1, InvFacts, Reconcile, RecordSteps DEF Ps, Reconciled, processes, usage
<1>2. CASE PsRead
  BY <1>2, InvFacts, RecordSteps DEF PsRead, processes, usage
<1>3. CASE PsProbe
  BY <1>3, InvFacts, FreshRecords, Reconcile, RecordSteps DEF PsProbe, Reconciled, processes, usage
<1> QED
  BY <1>1, <1>2, <1>3

\* Commands that end without having touched the processes.
LEMMA StepIdles ==
  ASSUME RunInv, NEW c \in Clis,
         WaitForRunStart(c) \/ ForegroundEnd(c) \/ SettleTimeout(c) \/ StopReported(c) \/ Interrupt(c) \/ InspectProbe(c)
  PROVE  RunInv'
<1> USE FreshCommands, InvFacts
<1>1. CASE WaitForRunStart(c)
  BY <1>1, CommandSteps DEF WaitForRunStart, processes
<1>2. CASE ForegroundEnd(c)
  <2>0. PICK s \in EffectiveSandboxes, e \in {"exited", "failed"} :
          rec' = [OrElse(rec, ForegroundRecord) EXCEPT !.sandbox = s, !.state = e, !.reason = "other"]
    BY <1>2, Zenon DEF ForegroundEnd
  <2>1. rec' = EndedIn(OrElse(rec, ForegroundRecord), s, e, "other")
    BY <2>0, Zenon DEF EndedIn
  <2>2. RecordOK(OrElse(rec, ForegroundRecord), Spawned)
    BY FreshRecords DEF OrElse
  <2>3. RecordOK(rec', Spawned)
    BY <2>1, <2>2, RecordEdits
  <2> QED
    BY <1>2, <2>3, CommandSteps DEF ForegroundEnd, processes
<1>3. CASE SettleTimeout(c)
  BY <1>3, CommandSteps DEF SettleTimeout, processes
<1>4. CASE StopReported(c)
  BY <1>4, CommandSteps DEF StopReported, processes
<1>5. CASE Interrupt(c)
  BY <1>5, CommandSteps DEF Interrupt, processes
<1>6. CASE InspectProbe(c)
  <2>1. PICK found : rec' \in {rec, cli[c].r, reconcileRun(cli[c].r, found)}
    BY <1>6 DEF InspectProbe
  <2>2. RecordOK(rec', Spawned)
    BY <2>1, Reconcile
  <2> QED
    BY <1>6, <2>2, CommandSteps DEF InspectProbe, processes
<1> QED
  BY <1>1, <1>2, <1>3, <1>4, <1>5, <1>6

\* Commands that begin.
LEMMA StepBegins ==
  ASSUME RunInv, NEW c \in Clis,
         RunForeground(c) \/ StopRun(c) \/ RestartActive(c) \/ RestartEnded(c) \/ Inspect(c) \/ Remove(c)
  PROVE  RunInv'
<1> USE InvFacts
<1>1. CASE RunForeground(c)
  <2>1. cli[c].pc = "idle" /\ cli' = [cli EXCEPT ![c] = Goes(cli[c], "foreground")]
    BY <1>1 DEF RunForeground, IssueCommand, Goes
  <2>2. CommandOK(Goes(cli[c], "foreground"), Spawned, GoneGroups) /\ Goes(cli[c], "foreground").pc = "foreground"
    BY CommandEdits
  <2> QED
    BY <1>1, <2>1, <2>2, FreshRecords, CommandSteps DEF RunForeground, processes
<1>2. CASE StopRun(c) \/ RestartActive(c)
  <2>1. PICK next : BeginStop(c, next)
    BY <1>2 DEF StopRun, RestartActive
  <2>2. PICK s : s = InState(rec, "stopping")
    OBVIOUS
  <2>3. rec' = s /\ RecordOK(s, Spawned) /\ s.sandbox = rec.sandbox
    BY <2>1, <2>2, RecordEdits DEF BeginStop, InState
  <2>4. PICK x : x = [pc |-> IF rec.sandbox = "container" THEN "lookup" ELSE "term",
                      r |-> s, last |-> NoRun, pid |-> rec.pid, id |-> rec.cid, next |-> next]
    OBVIOUS
  <2>5. cli' = [cli EXCEPT ![c] = x]
    BY <2>1, <2>3, <2>4 DEF BeginStop
  <2>6. rec.pid \in Spawned
    BY DEF RecordOK
  <2>7. CommandOK(x, Spawned, GoneGroups) /\ x.pc # "spawn"
    BY <2>3, <2>4, <2>6, FreshRecords DEF CommandOK
  <2>8. UNCHANGED <<worker, agent>> /\ UNCHANGED usage /\ lister' = lister
    BY <1>2 DEF StopRun, RestartActive, processes
  <2> QED
    BY <2>3, <2>5, <2>7, <2>8, CommandSteps
<1>3. CASE RestartEnded(c)
  BY <1>3, FreshCommands, CommandSteps DEF RestartEnded, processes, Goes
<1>4. CASE Inspect(c)
  <2>1. cli[c].pc = "idle" /\ cli' = [cli EXCEPT ![c] = GoesWithRecord(cli[c], "inspect", rec)]
    BY <1>4 DEF Inspect, IssueCommand, GoesWithRecord, RunInv, CommandsInv
  <2>2. PICK x : x = GoesWithRecord(cli[c], "inspect", rec)
    OBVIOUS
  <2>3. PICK a, b, l, d, e, f : cli[c] = [pc |-> a, r |-> b, last |-> l, pid |-> d, id |-> e, next |-> f]
    BY DEF CommandOK
  <2>4. x.pc = "inspect" /\ x.r = rec /\ x.last = l /\ x.pid = d
    BY <2>2, <2>3 DEF GoesWithRecord
  <2>5. x = [pc |-> x.pc, r |-> x.r, last |-> x.last, pid |-> x.pid, id |-> x.id, next |-> x.next]
    BY <2>2, <2>3 DEF GoesWithRecord
  <2>6. RecordOK(l, Spawned) /\ d \in Spawned
    BY <2>3
  <2>7. CommandOK(x, Spawned, GoneGroups)
    BY <2>4, <2>5, <2>6 DEF CommandOK
  <2> QED
    BY <1>4, <2>1, <2>2, <2>4, <2>7, CommandSteps DEF Inspect, processes
<1>5. CASE Remove(c)
  BY <1>5, FreshRecords, RecordSteps DEF Remove, processes
<1> QED
  BY <1>1, <1>2, <1>3, <1>4, <1>5

\* A stop looks for the container and stops it, without a word to the processes.
LEMMA StepContainerStop ==
  ASSUME RunInv, NEW c \in Clis, StopLookup(c) \/ DockerStop(c)
  PROVE  RunInv'
<1> USE InvFacts
<1>1. cli[c].pc \in {"lookup", "dockerstop"} /\ cli[c].r.sandbox = "container"
  BY DEF StopLookup, DockerStop, CommandOK
<1>2. CASE StopLookup(c) /\ cli' = [cli EXCEPT ![c] = Idle] /\ rec' = [cli[c].r EXCEPT !.state = "running"]
  <2>1. RecordOK(rec', Spawned)
    BY <1>2, RecordEdits DEF InState
  <2> QED
    BY <1>2, <2>1, FreshCommands, CommandSteps DEF StopLookup, processes
<1>3. CASE StopLookup(c) /\ rec' = rec /\ \E i : cli' = [cli EXCEPT ![c].pc = "dockerstop", ![c].id = i]
  <2>1. PICK i : cli' = [cli EXCEPT ![c].pc = "dockerstop", ![c].id = i]
    BY <1>3
  <2>2. PICK x : x = GoesWithId(cli[c], "dockerstop", i)
    OBVIOUS
  <2>3. cli' = [cli EXCEPT ![c] = x]
    BY <2>1, <2>2 DEF GoesWithId, RunInv, CommandsInv
  <2>4. CommandOK(x, Spawned, GoneGroups) /\ x.pc = "dockerstop"
    BY <1>1, <2>2, CommandEdits
  <2> QED
    BY <1>3, <2>3, <2>4, CommandSteps DEF StopLookup, processes
<1>4. CASE DockerStop(c)
  <2>1. cli' = [cli EXCEPT ![c] = Goes(cli[c], "settle")]
    BY <1>4 DEF DockerStop, Goes
  <2>2. CommandOK(Goes(cli[c], "settle"), Spawned, GoneGroups) /\ Goes(cli[c], "settle").pc = "settle"
    BY <1>1, CommandEdits
  <2> QED
    BY <1>4, <2>1, <2>2, CommandSteps DEF DockerStop
<1>5. StopLookup(c) => \/ cli' = [cli EXCEPT ![c] = Idle] /\ rec' = [cli[c].r EXCEPT !.state = "running"]
                       \/ rec' = rec /\ \E i : cli' = [cli EXCEPT ![c].pc = "dockerstop", ![c].id = i]
  BY Zenon DEF StopLookup
<1> QED
  BY <1>2, <1>3, <1>4, <1>5

\* A pid that a record has is a worker's.
LEMMA PidOfWorker ==
  /\ NoWorkerPid \notin Workers
  /\ \A p \in Spawned : p # NoWorkerPid => p \in Workers /\ worker[p].pc # "none"
BY RunAssumption DEF Spawned, Workers, NoWorkerPid

\* The group is gone when killProcessGroup sees it gone, and settleRun's outcomes.
LEMMA StepSettles ==
  ASSUME RunInv, NEW c \in Clis, GroupGone(c) \/ SettleSeen(c) \/ SettleDead(c) \/ SettleWrite(c)
  PROVE  RunInv'
<1> USE InvFacts
<1>1. CASE GroupGone(c)
  <2>1. cli' = [cli EXCEPT ![c] = Goes(cli[c], "settle")]
    BY <1>1 DEF GroupGone, Goes
  <2>2. cli[c].pid # NoWorkerPid => cli[c].pid \in GoneGroups
    BY <1>1, PidOfWorker DEF GroupGone, GoneGroups
  <2>3. CommandOK(Goes(cli[c], "settle"), Spawned, GoneGroups) /\ Goes(cli[c], "settle").pc = "settle"
    BY <2>2, CommandEdits
  <2> QED
    BY <1>1, <2>1, <2>3, CommandSteps DEF GroupGone, processes
<1>2. CASE SettleDead(c)
  <2>1. PICK x : x = GoesWithLast(cli[c], "settlewrite", rec)
    OBVIOUS
  <2>2. cli' = [cli EXCEPT ![c] = x]
    BY <1>2, <2>1 DEF SettleDead, GoesWithLast, RunInv, CommandsInv
  <2>3. cli[c].r.sandbox # "container" /\ cli[c].pid # NoWorkerPid => cli[c].pid \in GoneGroups
    BY <1>2 DEF SettleDead, CommandOK
  <2>4. CommandOK(x, Spawned, GoneGroups) /\ x.pc = "settlewrite"
    BY <2>1, <2>3, CommandEdits
  <2> QED
    BY <1>2, <2>2, <2>4, CommandSteps DEF SettleDead, processes
<1>3. CASE SettleSeen(c) \/ SettleWrite(c)
  <2>1. PICK l : l = GoesWithLast(cli[c], "stopped", NoRun)
    OBVIOUS
  <2>2. PICK x \in {l, Goes(Idle, "clean"), Idle} : cli' = [cli EXCEPT ![c] = x]
    BY <1>3, <2>1, Zenon DEF SettleSeen, SettleWrite, Settled, GoesWithLast, Goes
  <2>3. cli[c].pc \in {"settle", "settlewrite"}
    BY <1>3 DEF SettleSeen, SettleWrite
  <2>4. cli[c].r.sandbox # "container" /\ cli[c].pid # NoWorkerPid => cli[c].pid \in GoneGroups
    BY <2>3 DEF CommandOK
  <2>5. CommandOK(l, Spawned, GoneGroups) /\ l.pc = "stopped"
    BY <2>1, <2>4, FreshRecords, CommandEdits
  <2>6. CommandOK(x, Spawned, GoneGroups) /\ x.pc # "spawn"
    BY <2>2, <2>5, FreshCommands
  <2>7. rec' = rec \/ rec' = Ended(cli[c].last, "exited", "manual-stop")
    BY <1>3, Zenon DEF SettleSeen, SettleWrite, Ended
  <2>8. RecordOK(rec', Spawned)
    BY <2>7, RecordEdits
  <2>9. UNCHANGED <<worker, agent>> /\ UNCHANGED usage /\ lister' = lister
    BY <1>3 DEF SettleSeen, SettleWrite, processes
  <2> QED
    BY <2>2, <2>6, <2>8, <2>9, CommandSteps
<1> QED
  BY <1>1, <1>2, <1>3

\* The pid goes into the record.
LEMMA StepRecordPid ==
  ASSUME RunInv, NEW c \in Clis, RecordPid(c)
  PROVE  RunInv'
<1> USE InvFacts
<1>1. cli' = [cli EXCEPT ![c] = Goes(Idle, "wait")]
  BY DEF RecordPid, Goes
<1>2. CommandOK(Goes(Idle, "wait"), Spawned, GoneGroups) /\ Goes(Idle, "wait").pc = "wait"
  BY FreshCommands
<1>3. RecordOK(rec', Spawned)
  BY FreshRecords DEF RecordPid
<1> QED
  BY <1>1, <1>2, <1>3, CommandSteps DEF RecordPid, processes

\* A worker at another place, with another signal pending, with a record read.
WorkerGoes(x, s) == [x EXCEPT !.pc = s]
WorkerSignal(x, g) == [x EXCEPT !.sig = g]
WorkerReads(x, s, r) == [x EXCEPT !.pc = s, !.copy = r]
WorkerFinal(x, r) == [x EXCEPT !.pc = "finalizing", !.sig = "none", !.copy = r]

\* What a worker keeps when it goes on.
LEMMA GoesOK ==
  ASSUME NEW x, NEW P, NEW a, WorkerOK(x, a, P), NEW s, NEW b,
         s \in {"none", "boot", "input", "prepare"} => b = "none", s \notin {"failing", "finalizing"}
  PROVE  WorkerGoes(x, s).pc = s /\ WorkerOK(WorkerGoes(x, s), b, P)
<1>1. PICK p, r, k, q : /\ x = [pc |-> p, record |-> r, copy |-> k, sig |-> q]
                        /\ RecordOK(r, P) /\ RecordOK(k, P)
  BY DEF WorkerOK
<1>2. /\ x.pc = p
      /\ p \in {"none", "boot", "input", "prepare"} => a = "none"
      /\ p \in {"failing", "finalizing"} => k.state \in {"exited", "failed"}
  BY <1>1 DEF WorkerOK
<1>3. PICK y : y = WorkerGoes(x, s)
  OBVIOUS
<1>4. y.pc = s /\ y.record = r /\ y.copy = k
  BY <1>1, <1>3 DEF WorkerGoes
<1>5. y = [pc |-> y.pc, record |-> y.record, copy |-> y.copy, sig |-> y.sig]
  BY <1>1, <1>3 DEF WorkerGoes
<1>6. WorkerOK(y, b, P)
  BY <1>1, <1>2, <1>4, <1>5 DEF WorkerOK
<1> QED
  BY <1>2, <1>3, <1>4, <1>6

\* What a worker keeps when it is signalled.
LEMMA SignalOK ==
  ASSUME NEW x, NEW P, NEW a, WorkerOK(x, a, P), NEW g
  PROVE  WorkerSignal(x, g).pc = x.pc /\ WorkerOK(WorkerSignal(x, g), a, P)
<1>1. PICK p, r, k, q : /\ x = [pc |-> p, record |-> r, copy |-> k, sig |-> q]
                        /\ RecordOK(r, P) /\ RecordOK(k, P)
  BY DEF WorkerOK
<1>2. /\ x.pc = p
      /\ p \in {"none", "boot", "input", "prepare"} => a = "none"
      /\ p \in {"failing", "finalizing"} => k.state \in {"exited", "failed"}
  BY <1>1 DEF WorkerOK
<1>3. PICK y : y = WorkerSignal(x, g)
  OBVIOUS
<1>4. y.pc = p /\ y.record = r /\ y.copy = k
  BY <1>1, <1>3 DEF WorkerSignal
<1>5. y = [pc |-> y.pc, record |-> y.record, copy |-> y.copy, sig |-> y.sig]
  BY <1>1, <1>3 DEF WorkerSignal
<1>6. WorkerOK(y, a, P)
  BY <1>1, <1>2, <1>4, <1>5 DEF WorkerOK
<1> QED
  BY <1>2, <1>3, <1>4, <1>6

\* A worker that has read the record.
LEMMA ReadsOK ==
  ASSUME NEW x, NEW P, NEW a, WorkerOK(x, a, P), NEW s, NEW z, RecordOK(z, P),
         s \notin {"none", "boot", "input", "prepare"},
         s \in {"failing", "finalizing"} => z.state \in {"exited", "failed"}
  PROVE  WorkerReads(x, s, z).pc = s /\ WorkerOK(WorkerReads(x, s, z), a, P)
<1>1. PICK p, r, k, q : /\ x = [pc |-> p, record |-> r, copy |-> k, sig |-> q]
                        /\ RecordOK(r, P) /\ RecordOK(k, P)
  BY DEF WorkerOK
<1>2. /\ x.pc = p
      /\ p \in {"none", "boot", "input", "prepare"} => a = "none"
      /\ p \in {"failing", "finalizing"} => k.state \in {"exited", "failed"}
  BY <1>1 DEF WorkerOK
<1>3. PICK y : y = WorkerReads(x, s, z)
  OBVIOUS
<1>4. y.pc = s /\ y.record = r /\ y.copy = z
  BY <1>1, <1>3 DEF WorkerReads
<1>5. y = [pc |-> y.pc, record |-> y.record, copy |-> y.copy, sig |-> y.sig]
  BY <1>1, <1>3 DEF WorkerReads
<1>6. WorkerOK(y, a, P)
  BY <1>1, <1>2, <1>4, <1>5 DEF WorkerOK
<1> QED
  BY <1>2, <1>3, <1>4, <1>6

\* A worker that finalizes.
LEMMA FinalOK ==
  ASSUME NEW x, NEW P, NEW a, WorkerOK(x, a, P), NEW b,
         NEW z, RecordOK(z, P), z.state \in {"exited", "failed"}
  PROVE  WorkerFinal(x, z).pc = "finalizing" /\ WorkerOK(WorkerFinal(x, z), b, P)
<1>1. PICK p, r, k, q : /\ x = [pc |-> p, record |-> r, copy |-> k, sig |-> q]
                        /\ RecordOK(r, P) /\ RecordOK(k, P)
  BY DEF WorkerOK
<1>2. /\ x.pc = p
      /\ p \in {"none", "boot", "input", "prepare"} => a = "none"
      /\ p \in {"failing", "finalizing"} => k.state \in {"exited", "failed"}
  BY <1>1 DEF WorkerOK
<1>3. PICK y : y = WorkerFinal(x, z)
  OBVIOUS
<1>4. y.pc = "finalizing" /\ y.record = r /\ y.copy = z
  BY <1>1, <1>3 DEF WorkerFinal
<1>5. y = [pc |-> y.pc, record |-> y.record, copy |-> y.copy, sig |-> y.sig]
  BY <1>1, <1>3 DEF WorkerFinal
<1>6. WorkerOK(y, b, P)
  BY <1>1, <1>2, <1>4, <1>5 DEF WorkerOK
<1> QED
  BY <1>2, <1>3, <1>4, <1>6

\* A worker that has written its final record, and one that is dead.
LEMMA FreshWorkers ==
  /\ \A a : WorkerOK(Dead, a, Spawned) /\ Dead.pc = "dead"
  /\ \A a : WorkerOK(WorkerGoes(NoWorker, "usage"), a, Spawned) /\ WorkerGoes(NoWorker, "usage").pc = "usage"
<1>1. /\ Dead = [pc |-> "dead", record |-> NoRun, copy |-> NoRun, sig |-> "none"]
      /\ WorkerGoes(NoWorker, "usage") = [pc |-> "usage", record |-> NoRun, copy |-> NoRun, sig |-> "none"]
  BY DEF Dead, NoWorker, WorkerGoes
<1>2. \A a, s : s \in {"dead", "usage"}
        => WorkerOK([pc |-> s, record |-> NoRun, copy |-> NoRun, sig |-> "none"], a, Spawned)
  BY FreshRecords DEF WorkerOK
<1> QED
  BY <1>1, <1>2

\* SIGTERM to the group.
LEMMA StepTermGroup ==
  ASSUME RunInv, NEW c \in Clis, TermGroup(c)
  PROVE  RunInv'
<1> USE InvFacts
<1> DEFINE w == cli[c].pid
<1>1. CASE w = NoWorkerPid
  <2>1. cli' = [cli EXCEPT ![c] = Goes(cli[c], "settle")] /\ worker' = worker
    BY <1>1 DEF TermGroup, Goes
  <2>2. CommandOK(Goes(cli[c], "settle"), Spawned, GoneGroups) /\ Goes(cli[c], "settle").pc = "settle"
    BY <1>1, CommandEdits
  <2> QED
    BY <2>1, <2>2, CommandSteps DEF TermGroup
<1>2. CASE w # NoWorkerPid
  <2>0. PICK p \in Workers : p = w /\ worker[p].pc # "none"
    BY <1>2, PidOfWorker
  <2>1. /\ cli' = [cli EXCEPT ![c] = Goes(cli[c], "killwait")]
        /\ worker' = IF WorkerAlive(p) THEN [worker EXCEPT ![p].sig = "term"] ELSE worker
        /\ agent' = agent
    BY <1>2, <2>0 DEF TermGroup, Goes
  <2>2. CommandOK(Goes(cli[c], "killwait"), Spawned, GoneGroups) /\ Goes(cli[c], "killwait").pc = "killwait"
    BY <1>2, CommandEdits
  <2>3. CASE ~ WorkerAlive(p)
    BY <2>1, <2>2, <2>3, CommandSteps DEF TermGroup
  <2>4. CASE WorkerAlive(p)
    <3>1. PICK x : x = WorkerSignal(worker[p], "term")
      OBVIOUS
    <3>2. x.pc = worker[p].pc /\ WorkerOK(x, agent[p], Spawned)
      BY <3>1, SignalOK
    <3>3. worker' = [worker EXCEPT ![p] = x] /\ agent' = [agent EXCEPT ![p] = agent[p]]
      BY <2>1, <2>4, <3>1 DEF RunInv, WorkersInv, WorkerSignal
    <3>4. p \notin GoneGroups
      BY <2>4 DEF GoneGroups, processGroupAlive
    <3>5. /\ Grows /\ WorkersInv' /\ worker'[p] = x
          /\ \A v \in Workers : v # p => worker'[v] = worker[v]
      BY <2>0, <3>2, <3>3, <3>4, ProcessMoved DEF RunInv
    <3>6. CommandOK(Goes(cli[c], "killwait"), Spawned', GoneGroups')
      BY <2>2, <3>5, Weaker DEF Grows
    <3>7. CommandsInv' /\ Spawning' \subseteq Spawning
      BY <2>1, <2>2, <3>5, <3>6, CommandMoved DEF RunInv
    <3>8. RecordsInv'
      BY <3>5, RecordsKept DEF RecordsInv, RunInv, TermGroup
    <3>9. Living' \subseteq Living /\ \A v \in Living' : worker[v].pc = "tidy" => worker'[v].pc = "tidy"
      BY <3>2, <3>5 DEF Living, WorkerAlive
    <3>10. Calm
      BY <2>1, <3>7, <3>9 DEF Calm, TermGroup, usage
    <3> QED
      BY <3>5, <3>7, <3>8, <3>10, CalmKeeps DEF RunInv
  <2> QED
    BY <2>3, <2>4
<1> QED
  BY <1>1, <1>2

\* SIGKILL to the group: it is gone.
LEMMA StepKillGroup ==
  ASSUME RunInv, NEW c \in Clis, KillGroup(c)
  PROVE  RunInv'
<1> USE InvFacts
<1>0. cli[c].pid # NoWorkerPid
  BY DEF KillGroup, CommandOK
<1>1. PICK p \in Workers : p = cli[c].pid /\ worker[p].pc # "none"
  BY <1>0, PidOfWorker
<1>2. PICK x : x = IF WorkerAlive(p) THEN Dead ELSE worker[p]
  OBVIOUS
<1>3. PICK a : a = IF AgentAlive(p) THEN "dead" ELSE agent[p]
  OBVIOUS
<1>4. worker' = [worker EXCEPT ![p] = x] /\ agent' = [agent EXCEPT ![p] = a]
  BY <1>1, <1>2, <1>3 DEF KillGroup, RunInv, WorkersInv
<1>5. x.pc = "dead" /\ a \notin {"silent", "reported", "client"} /\ WorkerOK(x, a, Spawned)
  <2>1. Dead.pc = "dead" /\ WorkerOK(Dead, a, Spawned)
    BY FreshWorkers
  <2>2. ~ WorkerAlive(p) => worker[p].pc = "dead" /\ WorkerOK(worker[p], a, Spawned)
    BY <1>1 DEF WorkerOK, WorkerAlive
  <2> QED
    BY <1>2, <1>3, <2>1, <2>2 DEF AgentAlive
<1>6. /\ Grows /\ WorkersInv' /\ worker'[p] = x /\ agent'[p] = a
      /\ \A v \in Workers : v # p => worker'[v] = worker[v] /\ agent'[v] = agent[v]
  BY <1>4, <1>5, ProcessMoved DEF RunInv
<1>7. p \in GoneGroups'
  BY <1>5, <1>6 DEF GoneGroups, processGroupAlive, WorkerAlive, AgentAlive
<1>8. cli' = [cli EXCEPT ![c] = Goes(cli[c], "settle")]
  BY DEF KillGroup, Goes
<1>9. CommandOK(cli[c], Spawned', GoneGroups')
  BY <1>6, Weaker DEF Grows
<1>10. CommandOK(Goes(cli[c], "settle"), Spawned', GoneGroups') /\ Goes(cli[c], "settle").pc = "settle"
  BY <1>1, <1>7, <1>9, CommandEdits
<1>11. CommandsInv' /\ Spawning' \subseteq Spawning
  BY <1>6, <1>8, <1>10, CommandMoved DEF RunInv
<1>12. RecordsInv'
  BY <1>6, RecordsKept DEF RecordsInv, RunInv, KillGroup
<1>13. Living' \subseteq Living /\ \A v \in Living' : worker[v].pc = "tidy" => worker'[v].pc = "tidy"
  BY <1>5, <1>6 DEF Living, WorkerAlive
<1>14. \A v \in Workers : agent'[v] \in {"none", "silent"} => agent[v] \in {"none", "silent"}
  BY <1>3, <1>6
<1>15. Calm
  BY <1>11, <1>13, <1>14 DEF Calm, KillGroup, usage
<1> QED
  BY <1>6, <1>11, <1>12, <1>15, CalmKeeps DEF RunInv

\* The worker before it executes, and when it dies.
LEMMA StepWorkerPrepares ==
  ASSUME RunInv, NEW w \in Workers,
         WorkerBoot(w) \/ WorkerRunning(w) \/ WorkerPrepareFails(w) \/ WorkerExecutes(w)
  PROVE  RunInv'
<1> USE InvFacts
<1>0. agent[w] = "none" /\ WorkerAlive(w) /\ worker[w].pc \notin {"none", "tidy"}
  BY DEF WorkerBoot, WorkerRunning, WorkerPrepareFails, WorkerExecutes, WorkerOK, WorkerAlive
<1>1. CASE WorkerBoot(w)
  <2>1. PICK x : x = IF rec = NoRun THEN Dead
                     ELSE [worker[w] EXCEPT !.pc = "input", !.record = rec]
    OBVIOUS
  <2>2. worker' = [worker EXCEPT ![w] = x] /\ agent' = [agent EXCEPT ![w] = agent[w]]
    BY <1>1, <2>1 DEF WorkerBoot, RunInv, WorkersInv
  <2>3. rec = NoRun => WorkerOK(x, agent[w], Spawned) /\ x.pc = "dead"
    BY <2>1, FreshWorkers
  <2>4. ASSUME rec # NoRun PROVE WorkerOK(x, agent[w], Spawned) /\ x.pc = "input"
    <3>1. x.pc = "input" /\ x.record = rec /\ x.copy = worker[w].copy
      BY <2>1, <2>4 DEF WorkerOK
    <3>2. x = [pc |-> x.pc, record |-> x.record, copy |-> x.copy, sig |-> x.sig]
      BY <2>1, <2>4 DEF WorkerOK
    <3> QED
      BY <1>0, <3>1, <3>2 DEF WorkerOK
  <2>5. WorkerOK(x, agent[w], Spawned) /\ x.pc \in {"dead", "input"}
    BY <2>3, <2>4
  <2>6. UNCHANGED <<cli, lister, counted, overlap, ufile, rec>>
    BY <1>1 DEF WorkerBoot, usage
  <2> QED
    BY <1>0, <2>2, <2>5, <2>6, WorkerSteps
<1>2. CASE WorkerRunning(w)
  <2>0. PICK r : r = InState(worker[w].record, "running")
    OBVIOUS
  <2>1. rec' = r /\ RecordOK(r, Spawned)
    BY <1>2, <2>0, RecordEdits DEF WorkerRunning, InState
  <2>2. PICK x : x = [worker[w] EXCEPT !.pc = "prepare", !.record = r]
    OBVIOUS
  <2>3. worker' = [worker EXCEPT ![w] = x] /\ agent' = [agent EXCEPT ![w] = agent[w]]
    BY <1>2, <2>1, <2>2 DEF WorkerRunning, RunInv, WorkersInv
  <2>4. x.pc = "prepare" /\ x.record = r /\ x.copy = worker[w].copy
    BY <2>2 DEF WorkerOK
  <2>5. x = [pc |-> x.pc, record |-> x.record, copy |-> x.copy, sig |-> x.sig]
    BY <2>2 DEF WorkerOK
  <2>6. WorkerOK(x, agent[w], Spawned)
    BY <1>0, <2>1, <2>4, <2>5 DEF WorkerOK
  <2>7. UNCHANGED <<cli, lister, counted, overlap, ufile>>
    BY <1>2 DEF WorkerRunning, usage
  <2> QED
    BY <1>0, <2>1, <2>3, <2>4, <2>6, <2>7, WorkerSteps
<1>3. CASE WorkerPrepareFails(w)
  <2>1. PICK r, t : /\ r = OrElse(rec, worker[w].record)
                    /\ worker' = [worker EXCEPT ![w].pc = "failing", ![w].copy = Ended(r, "failed", t)]
    BY <1>3, Zenon DEF WorkerPrepareFails, Ended
  <2>2. PICK k : k = Ended(r, "failed", t)
    OBVIOUS
  <2>3. RecordOK(k, Spawned) /\ k.state = "failed"
    BY <2>1, <2>2, RecordEdits DEF OrElse
  <2>4. PICK x : x = WorkerReads(worker[w], "failing", k)
    OBVIOUS
  <2>5. worker' = [worker EXCEPT ![w] = x] /\ agent' = [agent EXCEPT ![w] = agent[w]]
    BY <1>3, <2>1, <2>2, <2>4 DEF WorkerPrepareFails, RunInv, WorkersInv, WorkerReads
  <2>6. x.pc = "failing" /\ WorkerOK(x, agent[w], Spawned)
    BY <2>3, <2>4, ReadsOK
  <2>7. UNCHANGED <<cli, lister, counted, overlap, ufile, rec>>
    BY <1>3 DEF WorkerPrepareFails, usage
  <2> QED
    BY <1>0, <2>5, <2>6, <2>7, WorkerSteps
<1>4. CASE WorkerExecutes(w)
  <2>1. PICK x : x = WorkerGoes(worker[w], "exec")
    OBVIOUS
  <2>2. PICK a \in {"silent", "client"} : agent' = [agent EXCEPT ![w] = a]
    BY <1>4 DEF WorkerExecutes
  <2>3. worker' = [worker EXCEPT ![w] = x]
    BY <1>4, <2>1 DEF WorkerExecutes, WorkerGoes
  <2>4. x.pc = "exec" /\ WorkerOK(x, a, Spawned)
    BY <2>1, GoesOK
  <2>5. UNCHANGED <<cli, lister, counted, overlap, ufile, rec>>
    BY <1>4 DEF WorkerExecutes, usage
  <2> QED
    BY <1>0, <2>2, <2>3, <2>4, <2>5, WorkerSteps
<1> QED
  BY <1>1, <1>2, <1>3, <1>4

\* A worker reads the record, or writes what it read: only itself and the record move.
LEMMA WorkerMoves ==
  ASSUME RunInv, NEW w \in Workers, NEW x, WorkerAlive(w),
         worker' = [worker EXCEPT ![w] = x], agent' = agent,
         WorkerOK(x, agent[w], Spawned), x.pc # "none", worker[w].pc # "tidy" \/ x.pc = "dead",
         UNCHANGED <<cli, lister, counted, overlap>>, ufile' \subseteq ufile,
         rec' = rec \/ rec' = worker[w].copy
  PROVE  RunInv'
<1>1. agent' = [agent EXCEPT ![w] = agent[w]]
  BY DEF RunInv, WorkersInv
<1>2. RecordOK(rec', Spawned)
  BY InvFacts
<1> QED
  BY <1>1, <1>2, WorkerSteps DEF AgentAlive

\* The poller, and the record that is read when the child has ended.
LEMMA StepWorkerReads ==
  ASSUME RunInv, NEW w \in Workers,
         WorkerPolls(w) \/ WorkerPolled(w) \/ WorkerEnds(w) \/ WorkerNamesModel(w)
  PROVE  RunInv'
<1> USE InvFacts, FreshRecords
<1>0. WorkerAlive(w) /\ worker[w].pc \notin {"none", "tidy"}
  BY DEF WorkerPolls, WorkerPolled, WorkerEnds, WorkerNamesModel, WorkerAlive
<1>1. ASSUME NEW s \in {"polling", "exec", "ending"}, NEW k, RecordOK(k, Spawned),
             worker' = [worker EXCEPT ![w].pc = s, ![w].copy = k], agent' = agent,
             UNCHANGED <<cli, lister, counted, overlap, ufile>>, rec' = rec \/ rec' = worker[w].copy
      PROVE  RunInv'
  <2>1. PICK x : x = WorkerReads(worker[w], s, k)
    OBVIOUS
  <2>2. worker' = [worker EXCEPT ![w] = x]
    BY <1>1, <2>1 DEF WorkerReads, RunInv, WorkersInv
  <2>3. x.pc = s /\ WorkerOK(x, agent[w], Spawned)
    BY <1>1, <2>1, ReadsOK
  <2> QED
    BY <1>0, <1>1, <2>2, <2>3, WorkerMoves
<1>2. CASE WorkerPolls(w)
  <2>1. PICK found : worker' = [worker EXCEPT ![w].pc = "polling", ![w].copy = WithCid(rec, found)]
    BY <1>2, Zenon DEF WorkerPolls, WithCid
  <2>2. RecordOK(WithCid(rec, found), Spawned)
    BY RecordEdits
  <2>3. agent' = agent /\ UNCHANGED <<cli, lister, counted, overlap, ufile, rec>>
    BY <1>2 DEF WorkerPolls, usage
  <2> QED
    BY <1>1, <2>1, <2>2, <2>3
<1>3. CASE WorkerPolled(w)
  BY <1>1, <1>3 DEF WorkerPolled, usage
<1>4. CASE WorkerEnds(w)
  <2>1. RecordOK(OrElse(rec, worker[w].record), Spawned)
    BY DEF OrElse
  <2>2. /\ worker' = [worker EXCEPT ![w].pc = "ending", ![w].copy = OrElse(rec, worker[w].record)]
        /\ agent' = agent /\ UNCHANGED <<cli, lister, counted, overlap, ufile, rec>>
    BY <1>4 DEF WorkerEnds, usage
  <2> QED
    BY <1>1, <2>1, <2>2
<1>5. CASE WorkerNamesModel(w)
  <2>1. PICK x : x = WorkerGoes(worker[w], "ended")
    OBVIOUS
  <2>2. worker' = [worker EXCEPT ![w] = x]
    BY <1>5, <2>1 DEF WorkerNamesModel, WorkerGoes
  <2>3. x.pc = "ended" /\ WorkerOK(x, agent[w], Spawned)
    BY <2>1, GoesOK
  <2>4. agent' = agent /\ rec' = worker[w].copy /\ UNCHANGED <<cli, lister, counted, overlap, ufile>>
    BY <1>5 DEF WorkerNamesModel, usage
  <2> QED
    BY <1>0, <2>2, <2>3, <2>4, WorkerMoves
<1> QED
  BY <1>2, <1>3, <1>4, <1>5

\* The worker's end.
LEMMA StepWorkerRuns ==
  ASSUME RunInv, NEW w \in Workers,
         WorkerFails(w) \/ WorkerEnded(w) \/ WorkerFinalizes(w) \/ WorkerSignalled(w) \/ WorkerCrashes(w)
           \/ WorkerExits(w) \/ WorkerKilled(w)
  PROVE  RunInv'
<1> USE InvFacts
<1>0. WorkerAlive(w)
  BY DEF WorkerFails, WorkerEnded, WorkerFinalizes, WorkerSignalled, WorkerCrashes, WorkerExits, WorkerKilled,
     WorkerAlive
<1>1. RecordOK(OrElse(rec, worker[w].record), Spawned)
  BY DEF OrElse
<1>2. ASSUME NEW e \in {"exited", "failed"}, NEW t, Finalize(w, e, t), worker[w].pc \in {"exec", "ended"},
             NEW a \in {agent[w], "dead"}, agent' = [agent EXCEPT ![w] = a],
             UNCHANGED <<cli, lister, counted, overlap, ufile, rec>>
      PROVE  RunInv'
  <2>1. PICK k : k = Ended(OrElse(rec, worker[w].record), e, t)
    OBVIOUS
  <2>2. RecordOK(k, Spawned) /\ k.state = e
    BY <1>1, <2>1, RecordEdits
  <2>3. PICK x : x = WorkerFinal(worker[w], k)
    OBVIOUS
  <2>4. worker' = [worker EXCEPT ![w] = x]
    BY <1>2, <2>1, <2>3 DEF Finalize, WorkerFinal, Ended, RunInv, WorkersInv
  <2>5. x.pc = "finalizing" /\ WorkerOK(x, a, Spawned)
    BY <1>2, <2>2, <2>3, FinalOK
  <2>6. a \in {"silent", "reported", "client"} => AgentAlive(w)
    BY DEF AgentAlive
  <2> QED
    BY <1>0, <1>2, <2>4, <2>5, <2>6, WorkerSteps
<1>3. ASSUME worker' = [worker EXCEPT ![w] = Dead], agent' = agent, rec' = rec \/ rec' = worker[w].copy,
             ufile' \subseteq ufile, UNCHANGED <<cli, lister, counted, overlap>>
      PROVE  RunInv'
  BY <1>0, <1>3, FreshWorkers, WorkerMoves
<1>4. agent' = agent => agent' = [agent EXCEPT ![w] = agent[w]]
  BY DEF RunInv, WorkersInv
<1>5. CASE WorkerEnded(w)
  <2>1. PICK e \in {"exited", "failed"}, t \in {"manual-stop", "other"} : Finalize(w, e, t)
    BY <1>5, Zenon DEF WorkerEnded
  <2>2. worker[w].pc = "ended" /\ agent' = agent /\ UNCHANGED <<cli, lister, counted, overlap, ufile, rec>>
    BY <1>5 DEF WorkerEnded, usage
  <2> QED
    BY <1>2, <1>4, <2>1, <2>2
<1>6. CASE WorkerSignalled(w)
  <2>1. agent' = agent /\ UNCHANGED <<cli, lister, counted, overlap, ufile, rec>>
    BY <1>6 DEF WorkerSignalled, usage
  <2>2. CASE worker[w].pc = "exec" /\ worker[w].record.sandbox # "container"
    <3>1. Finalize(w, "exited", "manual-stop")
      BY <1>6, <2>2, Zenon DEF WorkerSignalled
    <3> QED
      BY <1>2, <1>4, <2>1, <2>2, <3>1
  <2>3. CASE ~ (worker[w].pc = "exec" /\ worker[w].record.sandbox # "container")
    <3>1. worker' = [worker EXCEPT ![w] = Dead]
      BY <1>6, <2>3, Zenon DEF WorkerSignalled
    <3> QED
      BY <1>3, <2>1, <3>1
  <2> QED
    BY <2>2, <2>3
<1>7. CASE WorkerCrashes(w)
  <2>1. Finalize(w, "failed", "other") /\ agent' = [agent EXCEPT ![w] = "dead"]
    BY <1>7 DEF WorkerCrashes
  <2>2. worker[w].pc = "exec" /\ UNCHANGED <<cli, lister, counted, overlap, ufile, rec>>
    BY <1>7 DEF WorkerCrashes, usage
  <2> QED
    BY <1>2, <2>1, <2>2
<1>8. CASE WorkerFinalizes(w)
  <2>1. /\ worker[w].pc = "finalizing" /\ worker' = [worker EXCEPT ![w] = WorkerGoes(NoWorker, "usage")]
        /\ rec' = worker[w].copy /\ agent' = agent /\ UNCHANGED <<cli, lister, counted, overlap, ufile>>
    BY <1>8 DEF WorkerFinalizes, WorkerGoes, usage
  <2> QED
    BY <1>0, <2>1, FreshWorkers, WorkerMoves
<1>9. CASE WorkerFails(w)
  BY <1>3, <1>9 DEF WorkerFails, usage
<1>10. CASE WorkerExits(w)
  BY <1>3, <1>10 DEF WorkerExits
<1>11. CASE WorkerKilled(w)
  BY <1>3, <1>11 DEF WorkerKilled, usage
<1> QED
  BY <1>5, <1>6, <1>7, <1>8, <1>9, <1>10, <1>11

\* The child ends, by itself or by the time limit; the container.
LEMMA StepChild ==
  ASSUME RunInv, NEW w \in Workers,
         WorkerTimesOut(w) \/ AgentExits(w) \/ ContainerMoves(w)
  PROVE  RunInv'
<1> USE InvFacts
<1>2. CASE WorkerTimesOut(w) \/ AgentExits(w)
  <2>1. AgentAlive(w) /\ agent' = [agent EXCEPT ![w] = "dead"] /\ worker' = worker
        /\ UNCHANGED <<cli, lister, counted, overlap, ufile, rec>>
    BY <1>2 DEF WorkerTimesOut, AgentExits, usage
  <2>2. worker[w].pc \notin {"none", "boot", "input", "prepare"}
    BY <2>1 DEF WorkerOK, AgentAlive
  <2>3. WorkerOK(worker[w], "dead", Spawned) /\ worker' = [worker EXCEPT ![w] = worker[w]]
    BY <2>1, <2>2 DEF WorkerOK, RunInv, WorkersInv
  <2>4. worker[w].pc # "dead" => WorkerAlive(w)
    BY <2>2 DEF WorkerAlive
  <2> QED
    BY <2>1, <2>2, <2>3, <2>4, WorkerSteps
<1>3. CASE ContainerMoves(w)
  BY <1>3, RecordSteps DEF ContainerMoves, usage
<1> QED
  BY <1>2, <1>3

--------------------------------------------------------------------------------

\* The steps the samples are about.  run --detach: nothing was ever executed.
LEMMA StepRunDetach ==
  ASSUME RunInv, NEW c \in Clis, RunDetach(c)
  PROVE  RunInv'
<1> USE InvFacts
<1>1. cli' = [cli EXCEPT ![c] = Goes(cli[c], "spawn")]
  BY DEF RunDetach, Goes
<1>2. CommandOK(Goes(cli[c], "spawn"), Spawned, GoneGroups) /\ Goes(cli[c], "spawn").pc = "spawn"
  BY CommandEdits
<1>3. Grows /\ WorkersInv' /\ Spawned' = Spawned /\ GoneGroups' = GoneGroups /\ Living' = Living
  BY ProcessesKept DEF RunInv, RunDetach, processes
<1>4. CommandsInv' /\ cli'[c].pc = "spawn" /\ \A d \in Clis : d # c => cli'[d] = cli[d]
  BY <1>1, <1>2, <1>3, CommandMoved DEF RunInv
<1>5. RecordsInv'
  BY <1>3, FreshRecords DEF RecordsInv, RunDetach
<1>6. SamplesInv'
  BY DEF SamplesInv, RunInv, RunDetach, processes, usage
<1>7. Living' = {} /\ Spawning' = {c}
  BY <1>3, <1>4 DEF RunDetach, Living, WorkerAlive, Spawning
<1>8. \A v \in Workers : counted[v] = 0
  BY DEF RunDetach, WorkerOK, RunInv, SamplesInv
<1>9. Alone'
  BY <1>7 DEF Alone
<1>10. CountedOK'
  BY <1>8 DEF CountedOK, RunDetach, usage, RunInv, SamplesInv
<1> QED
  BY <1>3, <1>4, <1>5, <1>6, <1>9, <1>10 DEF RunInv, OnceInv

\* restart: the usage file goes; what is alive or about to be spawned is an overlap.
LEMMA StepRestartClean ==
  ASSUME RunInv, NEW c \in Clis, RestartClean(c)
  PROVE  RunInv'
<1> USE InvFacts
<1>1. cli' = [cli EXCEPT ![c] = Goes(Idle, "spawn")]
  BY DEF RestartClean, Goes
<1>3. Grows /\ WorkersInv' /\ Spawned' = Spawned /\ GoneGroups' = GoneGroups /\ Living' = Living
  BY ProcessesKept DEF RunInv, RestartClean, processes
<1>4. CommandsInv' /\ cli'[c].pc = "spawn" /\ \A d \in Clis : d # c => cli'[d] = cli[d]
  BY <1>1, <1>3, FreshCommands, CommandMoved DEF RunInv
<1>5. RecordsInv'
  BY <1>3, FreshRecords DEF RecordsInv, RestartClean
<1>6. SamplesInv'
  BY DEF SamplesInv, RunInv, RestartClean, processes
<1>7. ASSUME overlap' = "no" PROVE Alone' /\ CountedOK'
  <2>1. overlap = "no" /\ Living = {} /\ Spawning = {}
    BY <1>7 DEF RestartClean, RestartOverlap, Living, Spawning
  <2>2. Living' = {} /\ Spawning' = {c}
    BY <1>3, <1>4, <2>1 DEF Spawning
  <2>3. Alone'
    BY <2>2 DEF Alone
  <2>4. CountedOK'
    BY <2>1 DEF CountedOK, RestartClean, RunInv, OnceInv
  <2> QED
    BY <2>3, <2>4
<1> QED
  BY <1>3, <1>4, <1>5, <1>6, <1>7 DEF RunInv, OnceInv

\* The worker is spawned.
LEMMA StepSpawn ==
  ASSUME RunInv, NEW c \in Clis, Spawn(c)
  PROVE  RunInv'
<1> USE InvFacts
<1>1. PICK w \in Workers : /\ worker[w].pc = "none"
                           /\ worker' = [worker EXCEPT ![w].pc = "boot"]
                           /\ cli' = [cli EXCEPT ![c].pc = "pid", ![c].pid = w]
  BY DEF Spawn
<1>2. PICK x : x = WorkerGoes(worker[w], "boot")
  OBVIOUS
<1>3. agent[w] = "none" /\ w \notin GoneGroups
  BY <1>1 DEF WorkerOK, GoneGroups
<1>4. x.pc = "boot" /\ WorkerOK(x, agent[w], Spawned)
  BY <1>2, <1>3, GoesOK
<1>5. worker' = [worker EXCEPT ![w] = x] /\ agent' = [agent EXCEPT ![w] = agent[w]]
  BY <1>1, <1>2 DEF WorkerGoes, RunInv, WorkersInv, Spawn
<1>6. /\ Grows /\ WorkersInv' /\ worker'[w] = x
      /\ \A v \in Workers : v # w => worker'[v] = worker[v]
  BY <1>3, <1>4, <1>5, ProcessMoved DEF RunInv
<1>7. w \in Spawned'
  BY <1>4, <1>6 DEF Spawned
<1>8. PICK y : y = GoesWithPid(cli[c], "pid", w)
  OBVIOUS
<1>9. cli' = [cli EXCEPT ![c] = y]
  BY <1>1, <1>8 DEF GoesWithPid, RunInv, CommandsInv
<1>10. CommandOK(y, Spawned', GoneGroups') /\ y.pc = "pid"
  <2>1. PICK a, b, l, d, e, f : cli[c] = [pc |-> a, r |-> b, last |-> l, pid |-> d, id |-> e, next |-> f]
    BY DEF CommandOK
  <2>2. y.pc = "pid" /\ y.r = b /\ y.last = l /\ y.pid = w
    BY <1>8, <2>1 DEF GoesWithPid
  <2>3. y = [pc |-> y.pc, r |-> y.r, last |-> y.last, pid |-> y.pid, id |-> y.id, next |-> y.next]
    BY <1>8, <2>1 DEF GoesWithPid
  <2>4. RecordOK(b, Spawned') /\ RecordOK(l, Spawned')
    BY <1>6, <2>1, RecordsKept
  <2> QED
    BY <1>7, <2>2, <2>3, <2>4 DEF CommandOK
<1>11. CommandsInv' /\ cli'[c] = y /\ \A d \in Clis : d # c => cli'[d] = cli[d]
  BY <1>6, <1>9, <1>10, CommandMoved DEF RunInv
<1>12. RecordsInv'
  BY <1>6, RecordsKept DEF RecordsInv, RunInv, Spawn
<1>13. SamplesInv'
  BY DEF SamplesInv, RunInv, Spawn, usage
<1>14. ASSUME overlap' = "no" PROVE Alone' /\ CountedOK'
  <2>1. Alone /\ CountedOK /\ ufile' = ufile /\ counted' = counted
    BY <1>14 DEF RunInv, OnceInv, Spawn, usage
  <2>2. c \in Spawning /\ Living = {}
    BY <2>1 DEF Alone, Spawning, Spawn
  <2>3. Spawning = {c}
    BY <2>1, <2>2 DEF Alone
  <2>4. Spawning' = {}
    BY <1>10, <1>11, <2>3 DEF Spawning
  <2>5. Living' = {w}
    BY <1>4, <1>6, <2>2 DEF Living, WorkerAlive
  <2>6. \A v \in ufile : counted[v] # 1
    BY <2>1, <2>2 DEF CountedOK
  <2>7. Alone'
    BY <2>4, <2>5 DEF Alone
  <2>8. CountedOK'
    BY <2>1, <2>6 DEF CountedOK
  <2> QED
    BY <2>7, <2>8
<1> QED
  BY <1>6, <1>11, <1>12, <1>13, <1>14 DEF RunInv, OnceInv

\* The file is recorded: by the only worker, which removes it next.
LEMMA StepRecordUsage ==
  ASSUME RunInv, NEW w \in Workers, RecordUsage(w)
  PROVE  RunInv'
<1> USE InvFacts
<1>1. PICK x : x = WorkerGoes(worker[w], "tidy")
  OBVIOUS
<1>2. worker' = [worker EXCEPT ![w] = x] /\ agent' = [agent EXCEPT ![w] = agent[w]]
  BY <1>1 DEF RecordUsage, WorkerGoes, RunInv, WorkersInv
<1>3. x.pc = "tidy" /\ WorkerOK(x, agent[w], Spawned)
  BY <1>1, GoesOK
<1>4. WorkerAlive(w) /\ w \notin GoneGroups
  BY DEF RecordUsage, WorkerAlive, GoneGroups, processGroupAlive
<1>5. /\ Grows /\ WorkersInv' /\ worker'[w] = x
      /\ \A v \in Workers : v # w => worker'[v] = worker[v]
  BY <1>2, <1>3, <1>4, ProcessMoved DEF RunInv
<1>6. CommandsInv' /\ Spawning' = Spawning
  BY <1>5, CommandsKept DEF RunInv, RecordUsage
<1>7. RecordsInv'
  BY <1>5, RecordsKept DEF RecordsInv, RunInv, RecordUsage
<1>8. \A v \in Workers : counted'[v] = IF v \in ufile THEN counted[v] + 1 ELSE counted[v]
  BY DEF RecordUsage
<1>9. SamplesInv'
  BY <1>8 DEF SamplesInv, RunInv, RecordUsage
<1>10. ASSUME overlap' = "no" PROVE Alone' /\ CountedOK'
  <2>1. Alone /\ CountedOK /\ ufile' = ufile
    BY <1>10 DEF RunInv, OnceInv, RecordUsage
  <2>2. Living = {w} /\ Spawning = {}
    BY <1>4, <2>1 DEF Alone, Living
  <2>3. Living' = {w}
    BY <1>3, <1>5, <2>2 DEF Living, WorkerAlive
  <2>4. \A v \in ufile : counted[v] # 1 /\ v \in Workers
    BY <2>1, <2>2 DEF CountedOK, RecordUsage, RunInv, SamplesInv
  <2>5. \A v \in Workers : counted[v] \in Nat
    BY DEF RunInv, SamplesInv
  <2>6. \A v \in Workers : counted'[v] <= 1
    BY <1>8, <2>1, <2>4, <2>5 DEF CountedOK
  <2>7. Alone'
    BY <1>6, <2>2, <2>3 DEF Alone
  <2>8. CountedOK'
    BY <1>3, <1>5, <1>6, <2>2, <2>3, <2>6 DEF CountedOK
  <2> QED
    BY <2>7, <2>8
<1> QED
  BY <1>5, <1>6, <1>7, <1>9, <1>10 DEF RunInv, OnceInv

\* A sample comes into the file: it was nowhere.
LEMMA StepAgentReports ==
  ASSUME RunInv, NEW w \in Workers, AgentReports(w)
  PROVE  RunInv'
<1> USE InvFacts
<1>1. worker[w].pc \notin {"none", "boot", "input", "prepare"}
  BY DEF AgentReports, WorkerOK
<1>2. worker' = [worker EXCEPT ![w] = worker[w]] /\ agent' = [agent EXCEPT ![w] = "reported"]
  BY DEF AgentReports, RunInv, WorkersInv
<1>3. WorkerOK(worker[w], "reported", Spawned) /\ w \notin GoneGroups
  BY <1>1 DEF WorkerOK, AgentReports, GoneGroups, processGroupAlive, AgentAlive
<1>4. /\ Grows /\ WorkersInv' /\ agent'[w] = "reported"
      /\ \A v \in Workers : v # w => agent'[v] = agent[v]
  BY <1>1, <1>2, <1>3, ProcessMoved DEF RunInv
<1>5. CommandsInv' /\ Spawning' = Spawning
  BY <1>4, CommandsKept DEF RunInv, AgentReports
<1>6. RecordsInv'
  BY <1>4, RecordsKept DEF RecordsInv, RunInv, AgentReports
<1>7. SamplesInv'
  BY <1>4 DEF SamplesInv, RunInv, AgentReports
<1>8. counted[w] = 0 /\ Living' = Living /\ worker' = worker
  BY DEF AgentReports, RunInv, SamplesInv, Living, WorkerAlive
<1>9. ASSUME overlap' = "no" PROVE Alone' /\ CountedOK'
  <2>1. Alone /\ CountedOK
    BY <1>9 DEF RunInv, OnceInv, AgentReports
  <2>2. Alone'
    BY <1>5, <1>8, <2>1 DEF Alone
  <2>3. CountedOK'
    BY <1>5, <1>8, <2>1 DEF CountedOK, AgentReports
  <2> QED
    BY <2>2, <2>3
<1> QED
  BY <1>4, <1>5, <1>6, <1>7, <1>9 DEF RunInv, OnceInv

--------------------------------------------------------------------------------

\* The initial states.
LEMMA RunInvInit == RunInit => RunInv
<1> SUFFICES ASSUME RunInit PROVE RunInv
  OBVIOUS
<1>1. \A w \in Workers : worker[w] = NoWorker /\ agent[w] = "none" /\ counted[w] = 0
  BY DEF RunInit
<1>2. \A c \in Clis : cli[c] = Idle
  BY DEF RunInit
<1>3. WorkersInv
  BY <1>1, FreshRecords DEF WorkersInv, RunInit, WorkerOK, NoWorker
<1>4. CommandsInv
  BY <1>2, FreshCommands DEF CommandsInv, RunInit
<1>5. RecordsInv
  BY FreshRecords DEF RecordsInv, RunInit
<1>6. SamplesInv
  BY <1>1 DEF SamplesInv, RunInit
<1>7. Living = {} /\ Spawning = {}
  BY <1>1, <1>2, FreshCommands DEF Living, WorkerAlive, NoWorker, Spawning
<1>8. Alone /\ CountedOK
  BY <1>1, <1>7 DEF Alone, CountedOK, RunInit
<1> QED
  BY <1>3, <1>4, <1>5, <1>6, <1>8 DEF RunInv, OnceInv

\* Every step.
LEMMA RunInvStep == RunInv /\ [RunNext]_runVars => RunInv'
<1> SUFFICES ASSUME RunInv, [RunNext]_runVars PROVE RunInv'
  OBVIOUS
<1>1. CASE Ps \/ PsRead \/ PsProbe
  BY <1>1, StepLists
<1>2. ASSUME NEW c \in Clis,
             RunDetach(c) \/ RunForeground(c) \/ StopRun(c) \/ RestartActive(c) \/ RestartEnded(c)
               \/ Inspect(c) \/ Remove(c) \/ Interrupt(c) \/ CommandStep(c)
      PROVE  RunInv'
  BY <1>2, StepRunDetach, StepBegins, StepIdles, StepSpawn, StepRecordPid, StepContainerStop, StepTermGroup,
     StepKillGroup, StepSettles, StepRestartClean DEF CommandStep
<1>3. ASSUME NEW w \in Workers,
             WorkerStep(w) \/ WorkerPolls(w) \/ WorkerTimesOut(w) \/ WorkerCrashes(w) \/ WorkerKilled(w)
               \/ AgentReports(w) \/ AgentExits(w) \/ ContainerMoves(w)
      PROVE  RunInv'
  BY <1>3, StepWorkerPrepares, StepWorkerReads, StepWorkerRuns, StepChild, StepRecordUsage, StepAgentReports DEF WorkerStep
<1>4. CASE UNCHANGED runVars
  BY <1>4, InvFacts, RecordSteps DEF runVars, processes, usage
<1> QED
  BY <1>1, <1>2, <1>3, <1>4 DEF RunNext

\* The inductive invariant of the supervisor's run record, processes and samples.
THEOREM RunInvariance == RunSpec => []RunInv
<1> QED
  BY RunInvInit, RunInvStep, PTL DEF RunSpec

\* When stop reports a process run stopped, the process group that it signalled is
\* gone (stopRun, killProcessGroup, settleRun), whoever settled the record.
THEOREM StopEndsTheGroup == RunSpec => []StopLeavesNoProcess
<1>1. RunInv => StopLeavesNoProcess
  <2> SUFFICES ASSUME RunInv, NEW c \in Clis, cli[c].pc = "stopped", cli[c].r.sandbox # "container",
                      cli[c].pid # NoWorkerPid
               PROVE  ~ processGroupAlive(cli[c].pid)
    BY DEF StopLeavesNoProcess
  <2>1. cli[c].pid \in GoneGroups
    BY InvFacts DEF CommandOK
  <2> QED
    BY <2>1 DEF GoneGroups
<1> QED
  BY <1>1, RunInvariance, PTL

\* Without an overlapping restart no sample reaches the usage store twice
\* (recordUsage, restartRun, supervisor-run).
THEOREM SamplesOnce == RunSpec => []UsageCountedOnce
<1>1. RunInv => UsageCountedOnce
  BY DEF RunInv, OnceInv, CountedOK, UsageCountedOnce
<1> QED
  BY <1>1, RunInvariance, PTL

\* Once no command is under way, no worker starting and none between its read and its
\* write of the record (supervisor-run's poller and the end of its child), only a
\* restart makes an ended run active again.
THEOREM EndedIsFinal == RunSpec => EndedStaysEnded
<1> DEFINE Act == rec # NoRun /\ ~ runIsActive(rec) /\ Quiet => ~ runIsActive(rec')
<1>1. RunInv /\ [RunNext]_runVars => [Act]_runVars
  <2> SUFFICES ASSUME RunInv, RunNext, rec # NoRun, ~ runIsActive(rec), Quiet
               PROVE  ~ runIsActive(rec')
    BY DEF Act
  <2> USE InvFacts
  <2> DEFINE Over(r) == r.state \in {"absent", "exited", "failed", "orphaned"}
  <2>0. \A r : Over(r) => ~ runIsActive(r)
    BY DEF runIsActive, ACTIVE_STATES
  <2>1. CASE Ps \/ PsRead
    BY <2>1 DEF Ps, PsRead
  <2>2. CASE PsProbe
    <3>1. \A found : reconcileRun(lister, found).state \in {lister.state, "exited", "orphaned"}
      BY Reconcile
    <3>2. rec' = rec \/ Over(rec')
      BY <2>2, <3>1 DEF PsProbe, Reconciled
    <3> QED
      BY <2>0, <3>2
  <2>3. ASSUME NEW c \in Clis,
               RunDetach(c) \/ RunForeground(c) \/ StopRun(c) \/ RestartActive(c) \/ RestartEnded(c)
                 \/ Inspect(c) \/ Remove(c) \/ Interrupt(c) \/ CommandStep(c)
        PROVE  ~ runIsActive(rec')
    <3>1. cli[c].pc = "idle"
      BY DEF Quiet
    <3>2. ~ CommandStep(c)
      BY <3>1 DEF CommandStep, Spawn, RecordPid, WaitForRunStart, ForegroundEnd, StopLookup, DockerStop,
         TermGroup, GroupGone, KillGroup, SettleSeen, SettleDead, SettleWrite, SettleTimeout, StopReported,
         RestartClean, InspectProbe
    <3>3. rec' = rec \/ rec' = NoRun
      BY <2>3, <3>2 DEF RunDetach, RunForeground, StopRun, RestartActive, BeginStop, RestartEnded, Inspect,
         Remove, Interrupt
    <3> QED
      BY <2>0, <3>3, FreshRecords
  <2>4. ASSUME NEW w \in Workers,
               WorkerStep(w) \/ WorkerPolls(w) \/ WorkerTimesOut(w) \/ WorkerCrashes(w) \/ WorkerKilled(w)
                 \/ AgentReports(w) \/ AgentExits(w) \/ ContainerMoves(w)
        PROVE  ~ runIsActive(rec')
    <3>1. CASE rec' = rec
      BY <3>1
    <3>2. CASE WorkerFails(w) \/ WorkerFinalizes(w)
      <4>1. rec'.state \in {"exited", "failed"}
        BY <3>2 DEF WorkerFails, WorkerFinalizes, WorkerOK
      <4> QED
        BY <2>0, <4>1
    <3>3. ~ WorkerRunning(w) /\ ~ WorkerPolled(w) /\ ~ WorkerNamesModel(w)
      BY DEF WorkerRunning, WorkerPolled, WorkerNamesModel, Quiet
    <3> QED
      BY <2>4, <3>1, <3>2, <3>3 DEF WorkerStep, WorkerBoot, WorkerPrepareFails, WorkerExecutes, WorkerPolls,
         WorkerEnds, WorkerEnded, WorkerSignalled, WorkerCrashes, RecordUsage, WorkerExits, WorkerTimesOut,
         WorkerKilled, AgentReports, AgentExits, ContainerMoves
  <2> QED
    BY <2>1, <2>2, <2>3, <2>4 DEF RunNext
<1> QED
  BY <1>1, RunInvariance, PTL DEF RunSpec, EndedStaysEnded

=================================================================================
