----------------------------- MODULE MountSession -----------------------------
(***************************************************************************)
(* The life of a mount: MountSession::Run (src/src/mountsession_fuse.cpp,  *)
(* src/src/mountsession_win.cpp) and the watch that takes a mount down     *)
(* when the process that asked for it (its spawner) dies.                  *)
(*                                                                         *)
(* All sessions want one mount point, which is where they can meet.  A     *)
(* process is a pid and a generation, since the system gives the pid of a  *)
(* process that is gone to a new one.  libfuse, WinFsp and the programs    *)
(* that use the mount are the environment.                                 *)
(***************************************************************************)
EXTENDS Integers, FiniteSets

CONSTANTS
  Sessions,  \* runs of the vidyagodfs program, one mount each
  Pids,      \* pids of spawners
  MaxGen,    \* times a pid is given again (a bound of the instance)
  Backends,  \* the backends built: "fuse", "winfsp"
  CallFails, \* whether fusermount3 may fail to start, or OpenProcess be refused
  None

ASSUME SessionAssumption ==
  /\ MaxGen \in Nat
  /\ Backends \subseteq {"fuse", "winfsp"}
  /\ CallFails \in BOOLEAN
  /\ None \notin Sessions \cup Pids \cup (Pids \X (0 .. MaxGen))

VARIABLES
  proc,     \* is the process of a pid "running", a "zombie" or "free" (none)
  gen,      \* its generation
  pc,       \* where a session's main thread is
  backend,  \* the backend that the program was built with
  asker,    \* the process that asked for the session
  watchPid, \* --watch-pid, or None
  pinned,   \* the process behind the session's pidfd or handle, or None
  watch,    \* where its watch is
  using,    \* whether a program has files of the session open
  mounted   \* the session that is mounted, or None

vars == <<proc, gen, pc, backend, asker, watchPid, pinned, watch, using, mounted>>

system == <<proc, gen>>

Process(p) == <<p, gen[p]>>

Gone(q) == gen[q[1]] # q[2] \/ proc[q[1]] # "running"

-----------------------------------------------------------------------------
(***************************************************************************)
(* The system.                                                             *)
(***************************************************************************)
Exit(p) ==
  /\ proc[p] = "running"
  /\ proc' = [proc EXCEPT ![p] = "zombie"]
  /\ UNCHANGED <<gen, pc, backend, asker, watchPid, pinned, watch, using, mounted>>

Reap(p) ==
  /\ proc[p] = "zombie"
  /\ proc' = [proc EXCEPT ![p] = "free"]
  /\ UNCHANGED <<gen, pc, backend, asker, watchPid, pinned, watch, using, mounted>>

\* A session that has not opened its watchPid yet still holds that pid.  Pids go
\* round: one is not given again within the instants between the spawn of
\* vidyagodfs and its pidfd_open.
Recycle(p) ==
  /\ proc[p] = "free" /\ gen[p] < MaxGen
  /\ \A s \in Sessions : watchPid[s] = p => pc[s] # "run" /\ watch[s] # "open"
  /\ proc' = [proc EXCEPT ![p] = "running"]
  /\ gen' = [gen EXCEPT ![p] = @ + 1]
  /\ UNCHANGED <<pc, backend, asker, watchPid, pinned, watch, using, mounted>>

\* A program opens files in the mount, or closes the last one.
Use(s) ==
  /\ mounted = s /\ pc[s] = "serving" /\ ~using[s]
  /\ using' = [using EXCEPT ![s] = TRUE]
  /\ UNCHANGED <<system, pc, backend, asker, watchPid, pinned, watch, mounted>>

Close(s) ==
  /\ using[s]
  /\ using' = [using EXCEPT ![s] = FALSE]
  /\ UNCHANGED <<system, pc, backend, asker, watchPid, pinned, watch, mounted>>

\* The spawner, or the user, unmounts; without -z not while the mount is busy.
Unmount(s) ==
  /\ mounted = s /\ ~using[s]
  /\ mounted' = None
  /\ UNCHANGED <<system, pc, backend, asker, watchPid, pinned, watch, using>>

-----------------------------------------------------------------------------
(***************************************************************************)
(* MountSession::Run.                                                      *)
(***************************************************************************)
Launch(s, p) ==
  /\ pc[s] = "idle" /\ proc[p] = "running"
  /\ asker' = [asker EXCEPT ![s] = Process(p)]
  /\ \E w \in {p, None} : watchPid' = [watchPid EXCEPT ![s] = w]
  /\ pc' = [pc EXCEPT ![s] = "run"]
  /\ UNCHANGED <<system, backend, pinned, watch, using, mounted>>

\* Mutant: a spawner that is gone is mounted for all the same.
PinOrGoOn(s) ==
  /\ pc[s] = "run" /\ backend = "fuse"
  /\ pinned' = IF watchPid[s] # None /\ proc[watchPid[s]] # "free"
               THEN [pinned EXCEPT ![s] = Process(watchPid[s])] ELSE pinned
  /\ pc' = [pc EXCEPT ![s] = "mount"]
  /\ UNCHANGED <<system, backend, asker, watchPid, watch, using, mounted>>

\* pidfd_open: a zombie can be pinned, a process that is gone cannot, and then
\* there is no mount.
PinFuse(s) ==
  /\ pc[s] = "run" /\ backend = "fuse"
  /\ \/ watchPid[s] = None /\ pc' = [pc EXCEPT ![s] = "mount"] /\ UNCHANGED pinned
     \/ /\ watchPid[s] # None /\ proc[watchPid[s]] # "free"
        /\ pinned' = [pinned EXCEPT ![s] = Process(watchPid[s])]
        /\ pc' = [pc EXCEPT ![s] = "mount"]
     \/ /\ watchPid[s] # None /\ proc[watchPid[s]] = "free"
        /\ pc' = [pc EXCEPT ![s] = "ended"] /\ UNCHANGED pinned
  /\ UNCHANGED <<system, backend, asker, watchPid, watch, using, mounted>>

\* WinFsp: the watch is a thread from the start and opens the process itself.
StartWin(s) ==
  /\ pc[s] = "run" /\ backend = "winfsp"
  /\ watch' = [watch EXCEPT ![s] = IF watchPid[s] = None THEN "none" ELSE "open"]
  /\ pc' = [pc EXCEPT ![s] = "mount"]
  /\ UNCHANGED <<system, backend, asker, watchPid, pinned, using, mounted>>

\* fuse_main mounts (over nothing), or fails and Run returns its code.  The end
\* of a WinFsp process is the end of its watch; its FUSE layer needs no init op.
Mount(s) ==
  /\ pc[s] = "mount"
  /\ \/ /\ mounted = None
        /\ mounted' = s
        /\ pc' = [pc EXCEPT ![s] = IF backend = "fuse" THEN "daemon" ELSE "serving"]
        /\ UNCHANGED watch
     \/ /\ pc' = [pc EXCEPT ![s] = "ended"]
        /\ watch' = [watch EXCEPT ![s] = "none"]
        /\ UNCHANGED mounted
  /\ UNCHANGED <<system, backend, asker, watchPid, pinned, using>>

\* Mutant: the spawner is looked up by its pid where the watch starts.
InitPins(s) ==
  /\ pc[s] = "daemon" /\ mounted = s
  /\ pinned' = IF watchPid[s] # None /\ proc[watchPid[s]] # "free"
               THEN [pinned EXCEPT ![s] = Process(watchPid[s])] ELSE pinned
  /\ watch' = [watch EXCEPT ![s] = IF pinned'[s] = None THEN "none" ELSE "wait"]
  /\ pc' = [pc EXCEPT ![s] = "serving"]
  /\ UNCHANGED <<system, backend, asker, watchPid, using, mounted>>

\* InitWithWatch, the first request that the daemon serves.
InitWithWatch(s) ==
  /\ pc[s] = "daemon" /\ mounted = s
  /\ watch' = [watch EXCEPT ![s] = IF pinned[s] = None THEN "none" ELSE "wait"]
  /\ pc' = [pc EXCEPT ![s] = "serving"]
  /\ UNCHANGED <<system, backend, asker, watchPid, pinned, using, mounted>>

\* Detached and with no file open: the connection is dropped, fuse_main returns
\* and the process ends, its watch with it; a fusermount3 it started goes on.
Return(s) ==
  /\ pc[s] \in {"daemon", "serving"} /\ mounted # s /\ ~using[s]
  /\ pc' = [pc EXCEPT ![s] = "ended"]
  /\ watch' = [watch EXCEPT ![s] = IF @ = "helper" THEN @ ELSE "none"]
  /\ UNCHANGED <<system, backend, asker, watchPid, pinned, using, mounted>>

-----------------------------------------------------------------------------
(***************************************************************************)
(* WatchSpawner.                                                           *)
(***************************************************************************)
\* OpenProcess fails: "already gone / not permitted".
OpenProcess(s) ==
  /\ watch[s] = "open"
  /\ \/ /\ proc[watchPid[s]] # "free"
        /\ pinned' = [pinned EXCEPT ![s] = Process(watchPid[s])]
        /\ watch' = [watch EXCEPT ![s] = "wait"]
     \/ /\ proc[watchPid[s]] = "free" \/ CallFails
        /\ watch' = [watch EXCEPT ![s] = "failed"]
        /\ UNCHANGED pinned
  /\ UNCHANGED <<system, pc, backend, asker, watchPid, using, mounted>>

\* Mutant: a probe by pid, as kill(pid, 0) is, finds a zombie running.
ProbeByPid(s) ==
  /\ watch[s] = "wait" /\ backend = "fuse" /\ proc[watchPid[s]] = "free"
  /\ watch' = [watch EXCEPT ![s] = "helper"]
  /\ UNCHANGED <<system, pc, backend, asker, watchPid, pinned, using, mounted>>

\* Mutant: a poll that a signal interrupts is taken for the spawner's end.
PollOnce(s) ==
  /\ watch[s] = "wait" /\ backend = "fuse"
  /\ watch' = [watch EXCEPT ![s] = "helper"]
  /\ UNCHANGED <<system, pc, backend, asker, watchPid, pinned, using, mounted>>

\* The poll of the pidfd returns and fusermount3 is started, or cannot be.
PollFuse(s) ==
  /\ watch[s] = "wait" /\ backend = "fuse" /\ Gone(pinned[s])
  /\ \/ watch' = [watch EXCEPT ![s] = "helper"]
     \/ CallFails /\ watch' = [watch EXCEPT ![s] = "failed"]
  /\ UNCHANGED <<system, pc, backend, asker, watchPid, pinned, using, mounted>>

\* fusermount3 -u -z detaches whatever is mounted at the mount point by then.
Fusermount(s) ==
  /\ watch[s] = "helper"
  /\ mounted' = None
  /\ watch' = [watch EXCEPT ![s] = "none"]
  /\ UNCHANGED <<system, pc, backend, asker, watchPid, pinned, using>>

\* WaitForSingleObject returns: ExitProcess, and WinFsp ends the mount with it.
ExitWin(s) ==
  /\ watch[s] = "wait" /\ backend = "winfsp" /\ Gone(pinned[s])
  /\ pc' = [pc EXCEPT ![s] = "ended"]
  /\ watch' = [watch EXCEPT ![s] = "none"]
  /\ using' = [using EXCEPT ![s] = FALSE]
  /\ mounted' = IF mounted = s THEN None ELSE mounted
  /\ UNCHANGED <<system, backend, asker, watchPid, pinned>>

-----------------------------------------------------------------------------
Init ==
  /\ proc = [p \in Pids |-> "running"]
  /\ gen = [p \in Pids |-> 0]
  /\ pc = [s \in Sessions |-> "idle"]
  /\ backend \in Backends
  /\ asker = [s \in Sessions |-> None]
  /\ watchPid = [s \in Sessions |-> None]
  /\ pinned = [s \in Sessions |-> None]
  /\ watch = [s \in Sessions |-> "none"]
  /\ using = [s \in Sessions |-> FALSE]
  /\ mounted = None

SystemStep == \E p \in Pids : Exit(p) \/ Reap(p) \/ Recycle(p)

MainStep(s) == PinFuse(s) \/ StartWin(s) \/ Mount(s) \/ InitWithWatch(s) \/ Return(s)

WatchStep(s) == OpenProcess(s) \/ PollFuse(s) \/ Fusermount(s) \/ ExitWin(s)

Next ==
  \/ SystemStep
  \/ \E s \in Sessions :
       \/ \E p \in Pids : Launch(s, p)
       \/ MainStep(s) \/ WatchStep(s) \/ Use(s) \/ Close(s) \/ Unmount(s)

\* The threads of a session and its fusermount3 keep running.
Fairness == \A s \in Sessions : WF_vars(MainStep(s)) /\ WF_vars(WatchStep(s))

Spec == Init /\ [][Next]_vars /\ Fairness

-----------------------------------------------------------------------------
(***************************************************************************)
(* Properties.                                                             *)
(***************************************************************************)
Watched(s) == watchPid[s] # None

\* The state is well typed; what is mounted has a server, and a FUSE mount that
\* is to be watched has its spawner pinned ("a spawner already gone gets no mount
\* at all, since nothing would ever take it down").
TypeOK ==
  /\ proc \in [Pids -> {"running", "zombie", "free"}]
  /\ gen \in [Pids -> 0 .. MaxGen]
  /\ pc \in [Sessions -> {"idle", "run", "mount", "daemon", "serving", "ended"}]
  /\ backend \in Backends
  /\ asker \in [Sessions -> (Pids \X (0 .. MaxGen)) \cup {None}]
  /\ watchPid \in [Sessions -> Pids \cup {None}]
  /\ pinned \in [Sessions -> (Pids \X (0 .. MaxGen)) \cup {None}]
  /\ watch \in [Sessions -> {"none", "open", "wait", "helper", "failed"}]
  /\ using \in [Sessions -> BOOLEAN]
  /\ mounted \in {s \in Sessions : pc[s] \in {"daemon", "serving"}} \cup {None}
  /\ backend = "fuse" => \A s \in Sessions : mounted = s /\ Watched(s) => pinned[s] # None

\* The process that the watch waits for is the one that asked for the mount,
\* whatever exits and whatever pid is given again around it.
PinsAsker == \A s \in Sessions : pinned[s] # None => pinned[s] = asker[s]

\* A mount does not outlive its spawner, which may die at any point of the
\* start, be left a zombie, or have its pid given to another process; the one
\* way out is a watch that failed (posix_spawnp, or OpenProcess).
OrphanTakenDown ==
  \A s \in Sessions :
    Watched(s) /\ mounted = s /\ Gone(asker[s]) ~> mounted # s \/ watch[s] = "failed"

\* "While the spawner lives the mount stays" (vgfs_mount_tests.cpp:149): it goes
\* by a request to unmount it, never by its own watch.
LivingKeepsMount ==
  [][\A s \in Sessions : mounted = s /\ mounted' # s /\ ~Gone(asker[s]) =>
       Unmount(s) \/ \E o \in Sessions \ {s} : Fusermount(o)]_vars

\* A crash or kill of the spawner "can never leave the mount dangling"
\* (mountsession.h:25).
NeverDangles ==
  \A s \in Sessions :
    Watched(s) /\ mounted = s /\ Gone(asker[s]) ~> mounted # s
=============================================================================
