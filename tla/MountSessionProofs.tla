-------------------------- MODULE MountSessionProofs --------------------------
(***************************************************************************)
(* Proofs about MountSession, for any number of sessions and of pids, any  *)
(* number of times that a pid is given again, and both backends.           *)
(***************************************************************************)
EXTENDS MountSession, TLAPS

(***************************************************************************)
(* The inductive invariant.                                                *)
(***************************************************************************)
\* A session that has not run yet watches and pins nothing.
Fresh ==
  \A s \in Sessions : pc[s] \in {"idle", "run"} => watch[s] = "none" /\ pinned[s] = None

\* A watch that opens the spawner itself was given a pid.
OpensPid == \A s \in Sessions : watch[s] = "open" => Watched(s)

\* Until the spawner is pinned, its pid still names the process that asked.
AskerHeld ==
  \A s \in Sessions :
    Watched(s) /\ (pc[s] = "run" \/ watch[s] = "open") => asker[s] = Process(watchPid[s])

\* On FUSE a session is past the pinning only with its spawner pinned.
PinnedFirst ==
  backend = "fuse" =>
    \A s \in Sessions :
      Watched(s) /\ pc[s] \in {"mount", "daemon", "serving"} => pinned[s] # None

Inv == TypeOK /\ PinsAsker /\ Fresh /\ OpensPid /\ AskerHeld /\ PinnedFirst

Processes == Pids \X (0 .. MaxGen)

-----------------------------------------------------------------------------
\* A running process is told from none.
LEMMA ProcessType ==
  ASSUME TypeOK, NEW p \in Pids
  PROVE  Process(p) \in Processes /\ Process(p) # None
<1>1. gen[p] \in 0 .. MaxGen
  BY DEF TypeOK
<1> QED BY <1>1, SessionAssumption DEF Process, Processes

\* Nothing is mounted yet.
LEMMA InvInit == Init => Inv
<1> SUFFICES ASSUME Init PROVE Inv
  OBVIOUS
<1>1. 0 \in 0 .. MaxGen
  BY SessionAssumption
<1>2. TypeOK
  BY <1>1 DEF Init, TypeOK, Watched
<1> QED BY <1>2 DEF Init, Inv, PinsAsker, Fresh, OpensPid, AskerHeld, PinnedFirst, Watched

-----------------------------------------------------------------------------
(***************************************************************************)
(* The system.                                                             *)
(***************************************************************************)
LEMMA SystemInv ==
  ASSUME Inv, NEW p \in Pids, Exit(p) \/ Reap(p) \/ Recycle(p)
  PROVE  Inv'
<1> USE DEF Inv
<1>1. UNCHANGED <<pc, backend, asker, watchPid, pinned, watch, using, mounted>>
  BY DEF Exit, Reap, Recycle
<1>2. proc' \in [Pids -> {"running", "zombie", "free"}]
  BY DEF Exit, Reap, Recycle, TypeOK
<1>3. gen' \in [Pids -> 0 .. MaxGen]
  <2>1. CASE Recycle(p)
    <3>1. gen[p] \in 0 .. MaxGen /\ gen[p] < MaxGen /\ gen' = [gen EXCEPT ![p] = @ + 1]
      BY <2>1 DEF Recycle, TypeOK
    <3>2. gen[p] + 1 \in 0 .. MaxGen
      BY <3>1, SessionAssumption
    <3> QED BY <3>1, <3>2 DEF TypeOK
  <2> QED BY <2>1 DEF Exit, Reap, TypeOK
<1>4. TypeOK'
  BY <1>1, <1>2, <1>3 DEF TypeOK, Watched
<1>5. AskerHeld'
  <2> SUFFICES ASSUME NEW s \in Sessions, Watched(s), pc[s] = "run" \/ watch[s] = "open"
               PROVE  asker[s] = Process(watchPid[s])'
    BY <1>1 DEF AskerHeld, Watched
  <2>1. asker[s] = Process(watchPid[s]) /\ watchPid[s] \in Pids
    BY DEF AskerHeld, TypeOK, Watched
  <2>2. gen'[watchPid[s]] = gen[watchPid[s]]
    BY <2>1 DEF Exit, Reap, Recycle, TypeOK
  <2> QED BY <1>1, <2>1, <2>2 DEF Process
<1> QED BY <1>1, <1>4, <1>5 DEF PinsAsker, Fresh, OpensPid, PinnedFirst, Watched

\* A file is opened or closed, or the mount taken away.
LEMMA UserInv ==
  ASSUME Inv, NEW s \in Sessions, Use(s) \/ Close(s) \/ Unmount(s)
  PROVE  Inv'
<1> USE DEF Inv
<1>1. UNCHANGED <<system, pc, backend, asker, watchPid, pinned, watch>>
  BY DEF Use, Close, Unmount
<1>2. using' \in [Sessions -> BOOLEAN] /\ mounted' \in {mounted, None}
  BY DEF Use, Close, Unmount, TypeOK
<1>3. TypeOK'
  <2>1. \A u \in Sessions : mounted' = u => mounted = u
    BY <1>2, SessionAssumption
  <2> QED BY <1>1, <1>2, <2>1 DEF TypeOK, Watched, system
<1> QED BY <1>1, <1>3
     DEF PinsAsker, Fresh, OpensPid, AskerHeld, PinnedFirst, Watched, Process, system

-----------------------------------------------------------------------------
(***************************************************************************)
(* MountSession::Run.                                                      *)
(***************************************************************************)
LEMMA LaunchInv ==
  ASSUME Inv, NEW s \in Sessions, NEW p \in Pids, Launch(s, p)
  PROVE  Inv'
<1> USE DEF Inv
<1>1. PICK w \in {p, None} : watchPid' = [watchPid EXCEPT ![s] = w]
  BY DEF Launch
<1>2. /\ pc[s] = "idle" /\ pc' = [pc EXCEPT ![s] = "run"]
      /\ asker' = [asker EXCEPT ![s] = Process(p)]
      /\ UNCHANGED <<proc, gen, backend, pinned, watch, using, mounted>>
  BY DEF Launch, system
<1>3. watch[s] = "none" /\ pinned[s] = None /\ mounted # s
  BY <1>2, SessionAssumption DEF Fresh, TypeOK
<1>4. Process(p) \in Processes /\ Process(p)' = Process(p)
  BY <1>2, ProcessType DEF Process
<1>5. TypeOK'
  BY <1>1, <1>2, <1>3, <1>4 DEF TypeOK, Watched, Processes
<1>6. PinsAsker' /\ Fresh' /\ OpensPid' /\ PinnedFirst'
  BY <1>1, <1>2, <1>3 DEF PinsAsker, Fresh, OpensPid, PinnedFirst, Watched, TypeOK
<1>7. AskerHeld'
  BY <1>1, <1>2, <1>3, <1>4 DEF AskerHeld, Watched, TypeOK, Process
<1> QED BY <1>5, <1>6, <1>7

\* The FUSE session pins the process that asked for it.
LEMMA PinFuseInv ==
  ASSUME Inv, NEW s \in Sessions, PinFuse(s)
  PROVE  Inv'
<1> USE DEF Inv
<1>1. /\ pc[s] = "run" /\ backend = "fuse" /\ pinned[s] = None /\ mounted # s
      /\ UNCHANGED <<proc, gen, backend, asker, watchPid, watch, using, mounted>>
  BY SessionAssumption DEF PinFuse, system, Fresh, TypeOK
<1>2. PICK l \in {"mount", "ended"}, q \in {None, Process(watchPid[s])} :
        /\ pc' = [pc EXCEPT ![s] = l]
        /\ pinned' = [pinned EXCEPT ![s] = q]
        /\ q # None => Watched(s)
        /\ Watched(s) /\ l = "mount" => q = Process(watchPid[s])
  <2>1. pinned = [pinned EXCEPT ![s] = None]
    BY <1>1 DEF TypeOK
  <2>2. CASE ~Watched(s)
    BY <1>1, <2>1, <2>2 DEF PinFuse, Watched
  <2>3. CASE Watched(s) /\ proc[watchPid[s]] # "free"
    BY <1>1, <2>3 DEF PinFuse, Watched
  <2>4. CASE Watched(s) /\ proc[watchPid[s]] = "free"
    BY <1>1, <2>1, <2>4 DEF PinFuse, Watched
  <2> QED BY <2>2, <2>3, <2>4
<1>3. Watched(s) => /\ Process(watchPid[s]) \in Processes /\ Process(watchPid[s]) # None
                    /\ asker[s] = Process(watchPid[s])
  BY <1>1, ProcessType DEF Watched, TypeOK, AskerHeld
<1>4. q \in Processes \cup {None}
  BY <1>2, <1>3
<1>5. TypeOK'
  BY <1>1, <1>2, <1>4 DEF TypeOK, Watched, Processes
<1>6. PinsAsker' /\ PinnedFirst'
  BY <1>1, <1>2, <1>3 DEF PinsAsker, PinnedFirst, Watched, TypeOK
<1>7. Fresh' /\ OpensPid' /\ AskerHeld'
  BY <1>1, <1>2 DEF Fresh, OpensPid, AskerHeld, Watched, TypeOK, Process
<1> QED BY <1>5, <1>6, <1>7

\* The WinFsp session starts, pinning none.
LEMMA StartWinInv ==
  ASSUME Inv, NEW s \in Sessions, StartWin(s)
  PROVE  Inv'
<1> USE DEF Inv
<1>1. /\ pc[s] = "run" /\ backend = "winfsp" /\ pc' = [pc EXCEPT ![s] = "mount"]
      /\ watch' = [watch EXCEPT ![s] = IF watchPid[s] = None THEN "none" ELSE "open"]
      /\ UNCHANGED <<proc, gen, backend, asker, watchPid, pinned, using, mounted>>
  BY DEF StartWin, system
<1>2. mounted # s
  BY <1>1, SessionAssumption DEF TypeOK
<1>3. TypeOK'
  BY <1>1, <1>2 DEF TypeOK, Watched
<1> QED BY <1>1, <1>3
     DEF PinsAsker, Fresh, OpensPid, AskerHeld, PinnedFirst, Watched, Process, TypeOK

\* The session mounts.
LEMMA MountInv ==
  ASSUME Inv, NEW s \in Sessions, Mount(s)
  PROVE  Inv'
<1> USE DEF Inv
<1>1. pc[s] = "mount" /\ UNCHANGED <<proc, gen, backend, asker, watchPid, pinned, using>>
  BY DEF Mount, system
<1>2. mounted # s
  BY <1>1, SessionAssumption DEF TypeOK
<1>3. CASE /\ mounted' = s /\ UNCHANGED watch
           /\ pc' = [pc EXCEPT ![s] = IF backend = "fuse" THEN "daemon" ELSE "serving"]
  <2>1. backend = "fuse" /\ Watched(s) => pinned[s] # None
    BY <1>1 DEF PinnedFirst
  <2>2. TypeOK'
    BY <1>1, <1>3, <2>1 DEF TypeOK, Watched
  <2> QED BY <1>1, <1>3, <2>2
       DEF PinsAsker, Fresh, OpensPid, AskerHeld, PinnedFirst, Watched, Process, TypeOK
<1>4. CASE /\ pc' = [pc EXCEPT ![s] = "ended"] /\ watch' = [watch EXCEPT ![s] = "none"]
           /\ UNCHANGED mounted
  <2>1. TypeOK'
    BY <1>1, <1>2, <1>4 DEF TypeOK, Watched
  <2> QED BY <1>1, <1>4, <2>1
       DEF PinsAsker, Fresh, OpensPid, AskerHeld, PinnedFirst, Watched, Process, TypeOK
<1> QED BY <1>3, <1>4 DEF Mount

\* The watch starts, and the server returns.
LEMMA ServeInv ==
  ASSUME Inv, NEW s \in Sessions, InitWithWatch(s) \/ Return(s)
  PROVE  Inv'
<1> USE DEF Inv
<1>1. /\ pc[s] \in {"daemon", "serving"}
      /\ UNCHANGED <<proc, gen, backend, asker, watchPid, pinned, using, mounted>>
  BY DEF InitWithWatch, Return, system
<1>2. PICK l \in {"serving", "ended"}, w \in {"none", "wait", "helper"} :
        /\ pc' = [pc EXCEPT ![s] = l] /\ watch' = [watch EXCEPT ![s] = w]
        /\ mounted = s => l = "serving"
  BY DEF InitWithWatch, Return
<1>3. TypeOK'
  BY <1>1, <1>2 DEF TypeOK, Watched
<1> QED BY <1>1, <1>2, <1>3
     DEF PinsAsker, Fresh, OpensPid, AskerHeld, PinnedFirst, Watched, Process, TypeOK

-----------------------------------------------------------------------------
(***************************************************************************)
(* WatchSpawner.                                                           *)
(***************************************************************************)
LEMMA OpenProcessInv ==
  ASSUME Inv, NEW s \in Sessions, OpenProcess(s)
  PROVE  Inv'
<1> USE DEF Inv
<1>1. /\ watch[s] = "open" /\ Watched(s) /\ pc[s] \notin {"idle", "run"}
      /\ UNCHANGED <<proc, gen, pc, backend, asker, watchPid, using, mounted>>
  BY DEF OpenProcess, system, OpensPid, Fresh
<1>2. /\ Process(watchPid[s]) \in Processes /\ Process(watchPid[s]) # None
      /\ asker[s] = Process(watchPid[s])
  BY <1>1, ProcessType DEF Watched, TypeOK, AskerHeld
<1>3. CASE UNCHANGED pinned /\ watch' = [watch EXCEPT ![s] = "failed"]
  <2>1. TypeOK'
    BY <1>1, <1>3 DEF TypeOK, Watched
  <2> QED BY <1>1, <1>3, <2>1
       DEF PinsAsker, Fresh, OpensPid, AskerHeld, PinnedFirst, Watched, Process, TypeOK
<1>4. CASE /\ pinned' = [pinned EXCEPT ![s] = Process(watchPid[s])]
           /\ watch' = [watch EXCEPT ![s] = "wait"]
  <2>1. TypeOK'
    BY <1>1, <1>2, <1>4 DEF TypeOK, Watched, Processes
  <2> QED BY <1>1, <1>2, <1>4, <2>1
       DEF PinsAsker, Fresh, OpensPid, AskerHeld, PinnedFirst, Watched, Process, TypeOK
<1> QED BY <1>3, <1>4 DEF OpenProcess

\* The steps of the watch.
LEMMA WatchInv ==
  ASSUME Inv, NEW s \in Sessions, PollFuse(s) \/ Fusermount(s) \/ ExitWin(s)
  PROVE  Inv'
<1> USE DEF Inv
<1>1. /\ UNCHANGED <<proc, gen, backend, asker, watchPid, pinned>>
      /\ pc[s] \notin {"idle", "run"}
  BY DEF PollFuse, Fusermount, ExitWin, system, Fresh
<1>2. PICK w \in {"none", "helper", "failed"} : watch' = [watch EXCEPT ![s] = w]
  BY DEF PollFuse, Fusermount, ExitWin
<1>3. /\ using' \in [Sessions -> BOOLEAN]
      /\ \/ UNCHANGED pc /\ mounted' \in {mounted, None}
         \/ pc' = [pc EXCEPT ![s] = "ended"] /\ mounted' \in {mounted, None} /\ mounted' # s
  <2>1. None # s
    BY SessionAssumption
  <2>2. CASE PollFuse(s)
    BY <2>2 DEF PollFuse, TypeOK
  <2>3. CASE Fusermount(s)
    BY <2>3 DEF Fusermount, TypeOK
  <2>4. CASE ExitWin(s)
    BY <2>1, <2>4 DEF ExitWin, TypeOK
  <2> QED BY <2>2, <2>3, <2>4
<1>4. TypeOK'
  <2>1. \A u \in Sessions : mounted' = u => mounted = u /\ pc'[u] = pc[u]
    BY <1>3, SessionAssumption DEF TypeOK
  <2> QED BY <1>1, <1>2, <1>3, <2>1 DEF TypeOK, Watched
<1> QED BY <1>1, <1>2, <1>3, <1>4
     DEF PinsAsker, Fresh, OpensPid, AskerHeld, PinnedFirst, Watched, Process, TypeOK

-----------------------------------------------------------------------------
\* Every step keeps the invariant.
LEMMA InvNext == Inv /\ [Next]_vars => Inv'
<1> SUFFICES ASSUME Inv, [Next]_vars PROVE Inv'
  OBVIOUS
<1>1. CASE SystemStep
  BY <1>1, SystemInv DEF SystemStep
<1>2. ASSUME NEW s \in Sessions, NEW p \in Pids, Launch(s, p) PROVE Inv'
  BY <1>2, LaunchInv
<1>3. ASSUME NEW s \in Sessions, MainStep(s) PROVE Inv'
  BY <1>3, PinFuseInv, StartWinInv, MountInv, ServeInv DEF MainStep
<1>4. ASSUME NEW s \in Sessions, WatchStep(s) PROVE Inv'
  BY <1>4, OpenProcessInv, WatchInv DEF WatchStep
<1>5. ASSUME NEW s \in Sessions, Use(s) \/ Close(s) \/ Unmount(s) PROVE Inv'
  BY <1>5, UserInv
<1>6. CASE UNCHANGED vars
  BY <1>6 DEF vars, Inv, TypeOK, PinsAsker, Fresh, OpensPid, AskerHeld, PinnedFirst,
    Watched, Process
<1> QED BY <1>1, <1>2, <1>3, <1>4, <1>5, <1>6 DEF Next

\* The invariant always holds.
LEMMA Invariance == Spec => []Inv
BY InvInit, InvNext, PTL DEF Spec

\* The state is well typed, and on FUSE what is mounted with a spawner to watch
\* has that spawner pinned (MountSession::Run refuses a spawner already gone).
THEOREM TypeCorrect == Spec => []TypeOK
<1>1. Inv => TypeOK
  BY DEF Inv
<1> QED BY Invariance, <1>1, PTL

\* The watch waits for the process that asked for the mount and for no later one
\* with its pid, on both backends (the pidfd of MountSession::Run, the handle of
\* WatchSpawner).
THEOREM PinCorrect == Spec => []PinsAsker
<1>1. Inv => PinsAsker
  BY DEF Inv
<1> QED BY Invariance, <1>1, PTL

-----------------------------------------------------------------------------
(***************************************************************************)
(* A mount and its own watch.                                              *)
(***************************************************************************)
\* The process that asked has its pid's present generation or an earlier one.
AskerPast ==
  \A s \in Sessions : asker[s] # None => asker[s][2] <= gen[asker[s][1]]

\* A watch that waits has a process to wait for.
WaitPinned == \A s \in Sessions : watch[s] = "wait" => pinned[s] # None

\* fusermount3 is only started when the spawner is gone.
HelperAfter ==
  \A s \in Sessions : watch[s] = "helper" => asker[s] # None /\ Gone(asker[s])

WatchOK == AskerPast /\ WaitPinned /\ HelperAfter

\* A process that is gone stays gone: its pid may be given again, but with a
\* generation of its own.
LEMMA GoneForGood ==
  ASSUME TypeOK, AskerPast, [Next]_vars,
         NEW s \in Sessions, asker[s] # None, Gone(asker[s]), asker'[s] = asker[s]
  PROVE  Gone(asker[s])'
<1> DEFINE p == asker[s][1]
           n == asker[s][2]
<1>1. p \in Pids /\ n \in Nat /\ gen[p] \in Nat /\ n <= gen[p]
  BY SessionAssumption DEF TypeOK, AskerPast
<1>2. CASE \E r \in Pids : Recycle(r)
  <2>1. PICK r \in Pids : Recycle(r)
    BY <1>2
  <2>2. CASE r = p
    <3>1. gen'[p] = gen[p] + 1
      BY <1>1, <2>1, <2>2 DEF Recycle, TypeOK
    <3> QED BY <1>1, <3>1 DEF Gone
  <2>3. CASE r # p
    BY <1>1, <2>1, <2>3 DEF Recycle, Gone, TypeOK
  <2> QED BY <2>2, <2>3
<1>3. CASE \E r \in Pids : Exit(r) \/ Reap(r)
  <2>1. PICK r \in Pids : Exit(r) \/ Reap(r)
    BY <1>3
  <2> QED BY <1>1, <2>1 DEF Exit, Reap, Gone, TypeOK
<1>4. CASE UNCHANGED <<proc, gen>>
  BY <1>4 DEF Gone
<1>5. \/ \E r \in Pids : Recycle(r) \/ Exit(r) \/ Reap(r)
      \/ UNCHANGED <<proc, gen>>
  BY DEF Next, SystemStep, MainStep, WatchStep, system, vars, Launch, PinFuse, StartWin, Mount,
    InitWithWatch, Return, OpenProcess, PollFuse, Fusermount, ExitWin, Use, Close, Unmount
<1> QED BY <1>2, <1>3, <1>4, <1>5

\* No watch runs yet.
LEMMA WatchOKInit == Init => WatchOK
BY DEF Init, WatchOK, AskerPast, WaitPinned, HelperAfter

\* Generations only grow.
LEMMA GenGrows ==
  ASSUME TypeOK, [Next]_vars, NEW p \in Pids
  PROVE  gen[p] <= gen'[p]
<1>1. gen[p] \in Nat
  BY SessionAssumption DEF TypeOK
<1>2. CASE \E r \in Pids : Recycle(r)
  <2>1. PICK r \in Pids : gen' = [gen EXCEPT ![r] = @ + 1]
    BY <1>2 DEF Recycle
  <2>2. gen'[p] \in {gen[p], gen[p] + 1}
    BY <2>1 DEF TypeOK
  <2> QED BY <1>1, <2>2
<1>3. CASE UNCHANGED gen
  BY <1>1, <1>3
<1>4. (\E r \in Pids : Recycle(r)) \/ UNCHANGED gen
  BY DEF Next, SystemStep, MainStep, WatchStep, system, vars, Launch, PinFuse, StartWin, Mount,
    InitWithWatch, Return, OpenProcess, PollFuse, Fusermount, ExitWin, Use, Close, Unmount,
    Exit, Reap
<1> QED BY <1>2, <1>3, <1>4

\* What a step does to a session's asker, and to its watch.
AskerStep(s) ==
  \/ asker'[s] = asker[s]
  \/ (\E p \in Pids : asker'[s] = Process(p)) /\ UNCHANGED gen /\ watch'[s] = "none"

WatchedStep(s) ==
  /\ watch'[s] = "wait" => pinned'[s] # None
  /\ watch'[s] = "helper" =>
       /\ asker'[s] = asker[s]
       /\ watch[s] = "helper" \/ (pinned[s] # None /\ Gone(pinned[s]))

\* A step leaves alone whom a session watches, and who asked for it.
LEMMA WatchSteps ==
  ASSUME Inv, WaitPinned, [Next]_vars, NEW s \in Sessions
  PROVE  AskerStep(s) /\ WatchedStep(s)
<1> USE DEF Inv, AskerStep, WatchedStep
<1>1. ASSUME NEW u \in Sessions, NEW p \in Pids, Launch(u, p)
      PROVE  AskerStep(s) /\ WatchedStep(s)
  <2>1. watch[u] = "none" /\ UNCHANGED <<gen, pinned, watch>>
    BY <1>1 DEF Launch, system, Fresh
  <2>2. asker' = [asker EXCEPT ![u] = Process(p)]
    BY <1>1 DEF Launch
  <2> QED BY <2>1, <2>2 DEF TypeOK, WaitPinned
<1>2. ASSUME NEW u \in Sessions, PinFuse(u) PROVE AskerStep(s) /\ WatchedStep(s)
  <2>1. UNCHANGED <<asker, watch>> /\ watch[u] = "none" /\ (u # s => pinned'[s] = pinned[s])
    BY <1>2 DEF PinFuse, Fresh, TypeOK
  <2> QED BY <2>1 DEF WaitPinned
<1>3. ASSUME NEW u \in Sessions, StartWin(u) \/ Mount(u) \/ InitWithWatch(u) \/ Return(u)
      PROVE  AskerStep(s) /\ WatchedStep(s)
  <2>1. UNCHANGED <<asker, pinned>> /\ (u # s => watch'[s] = watch[s])
    BY <1>3 DEF StartWin, Mount, InitWithWatch, Return, TypeOK
  <2>2. \/ watch'[u] \in {"none", "open", watch[u]}
        \/ watch'[u] = "wait" /\ pinned[u] # None
    BY <1>3 DEF StartWin, Mount, InitWithWatch, Return, TypeOK
  <2> QED BY <2>1, <2>2 DEF WaitPinned
<1>4. ASSUME NEW u \in Sessions, OpenProcess(u) PROVE AskerStep(s) /\ WatchedStep(s)
  <2>1. /\ UNCHANGED asker
        /\ u # s => watch'[s] = watch[s] /\ pinned'[s] = pinned[s]
    BY <1>4 DEF OpenProcess, TypeOK
  <2>2. Process(watchPid[u]) # None
    BY <1>4, ProcessType DEF OpenProcess, OpensPid, Watched, TypeOK
  <2>3. watch'[u] = "failed" \/ (watch'[u] = "wait" /\ pinned'[u] # None)
    BY <1>4, <2>2 DEF OpenProcess, TypeOK
  <2> QED BY <2>1, <2>3 DEF WaitPinned
<1>5. ASSUME NEW u \in Sessions, PollFuse(u) \/ Fusermount(u) \/ ExitWin(u)
      PROVE  AskerStep(s) /\ WatchedStep(s)
  <2>1. UNCHANGED <<asker, pinned>> /\ (u # s => watch'[s] = watch[s])
    BY <1>5 DEF PollFuse, Fusermount, ExitWin, TypeOK
  <2>2. \/ watch'[u] \in {"none", "failed"}
        \/ watch[u] = "wait" /\ watch'[u] = "helper" /\ Gone(pinned[u])
    BY <1>5 DEF PollFuse, Fusermount, ExitWin, TypeOK
  <2> QED BY <2>1, <2>2 DEF WaitPinned
<1>6. CASE UNCHANGED <<asker, pinned, watch>>
  BY <1>6 DEF WaitPinned
<1>7. \/ UNCHANGED <<asker, pinned, watch>>
      \/ \E u \in Sessions :
           \/ \E p \in Pids : Launch(u, p)
           \/ PinFuse(u) \/ StartWin(u) \/ Mount(u) \/ InitWithWatch(u) \/ Return(u)
           \/ OpenProcess(u) \/ PollFuse(u) \/ Fusermount(u) \/ ExitWin(u)
  BY DEF Next, SystemStep, MainStep, WatchStep, vars, Exit, Reap, Recycle, Use, Close, Unmount
<1> QED BY <1>1, <1>2, <1>3, <1>4, <1>5, <1>6, <1>7

\* Every step keeps what the watches know.
LEMMA WatchOKNext ==
  ASSUME Inv, WatchOK, [Next]_vars
  PROVE  WatchOK'
<1> USE DEF WatchOK
<1>1. TypeOK /\ PinsAsker
  BY DEF Inv
<1>2. ASSUME NEW s \in Sessions, asker'[s] # None
      PROVE  (asker[s][2] <= gen[asker[s][1]])'
  <2>1. CASE asker'[s] = asker[s]
    <3>1. asker[s][1] \in Pids /\ asker[s][2] \in Nat
      BY <1>1, <1>2, <2>1, SessionAssumption DEF TypeOK
    <3>2. gen[asker[s][1]] \in Nat /\ gen[asker[s][1]] <= gen'[asker[s][1]]
      BY <1>1, <3>1, GenGrows, SessionAssumption DEF TypeOK
    <3>3. gen'[asker[s][1]] \in Nat
      BY <3>1, <1>1, InvNext, SessionAssumption DEF Inv, TypeOK
    <3> QED BY <1>2, <2>1, <3>1, <3>2, <3>3 DEF AskerPast
  <2>2. CASE \E p \in Pids : asker'[s] = Process(p) /\ UNCHANGED gen
    <3>1. PICK p \in Pids : asker'[s] = <<p, gen[p]>> /\ UNCHANGED gen
      BY <2>2 DEF Process
    <3>2. gen[p] \in Nat
      BY <1>1, SessionAssumption DEF TypeOK
    <3> QED BY <3>1, <3>2
  <2> QED BY <2>1, <2>2, WatchSteps DEF AskerStep
<1>3. AskerPast'
  BY <1>2 DEF AskerPast
<1>4. WaitPinned'
  BY WatchSteps DEF WaitPinned, WatchedStep
<1>5. ASSUME NEW s \in Sessions, watch'[s] = "helper"
      PROVE  asker'[s] # None /\ Gone(asker[s])'
  <2>1. /\ asker'[s] = asker[s]
        /\ watch[s] = "helper" \/ (pinned[s] # None /\ Gone(pinned[s]))
    BY <1>5, WatchSteps DEF WatchedStep
  <2>2. asker[s] # None /\ Gone(asker[s])
    BY <1>1, <2>1 DEF HelperAfter, PinsAsker
  <2> QED BY <1>1, <2>1, <2>2, GoneForGood
<1> QED BY <1>3, <1>4, <1>5 DEF HelperAfter

\* A mount goes, while its spawner lives, by a request to unmount it or by the
\* fusermount3 of another session, never by its own watch (the poll loop of
\* WatchSpawner and WaitForSingleObject return for the spawner's end alone).
THEOREM LivingCorrect == Spec => LivingKeepsMount
<1>1. Inv /\ WatchOK /\ [Next]_vars =>
        [\A s \in Sessions : mounted = s /\ mounted' # s /\ ~Gone(asker[s]) =>
           Unmount(s) \/ \E o \in Sessions \ {s} : Fusermount(o)]_vars
  <2> SUFFICES ASSUME Inv, WatchOK, [Next]_vars, NEW s \in Sessions,
                      mounted = s, mounted' # s, ~Gone(asker[s])
               PROVE  Unmount(s) \/ \E o \in Sessions \ {s} : Fusermount(o)
    OBVIOUS
  <2>1. watch[s] # "helper"
    BY DEF WatchOK, HelperAfter
  <2>2. ASSUME NEW u \in Sessions, ExitWin(u) PROVE FALSE
    <3>1. u = s
      BY <2>2 DEF ExitWin
    <3>2. pinned[s] = asker[s]
      BY <2>2, <3>1 DEF ExitWin, WatchOK, WaitPinned, Inv, PinsAsker
    <3> QED BY <2>2, <3>1, <3>2 DEF ExitWin
  <2>3. mounted # None
    BY SessionAssumption
  <2>4. PICK u \in Sessions : ExitWin(u) \/ Unmount(u) \/ Fusermount(u)
    BY <2>3 DEF Next, SystemStep, MainStep, WatchStep, vars, Launch, PinFuse, StartWin, Mount,
      InitWithWatch, Return, OpenProcess, PollFuse, Use, Close, Exit, Reap, Recycle
  <2>5. Unmount(u) => u = s
    BY DEF Unmount
  <2>6. Fusermount(u) => u # s
    BY <2>1 DEF Fusermount
  <2> QED BY <2>2, <2>4, <2>5, <2>6
<1>2. Inv /\ WatchOK /\ [Next]_vars => WatchOK'
  BY WatchOKNext
<1> QED BY Invariance, WatchOKInit, <1>1, <1>2, PTL DEF Spec, LivingKeepsMount
===============================================================================
