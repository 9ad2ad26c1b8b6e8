---------------------------- MODULE MCMountSession ----------------------------
(***************************************************************************)
(* Two sessions that want one mount point, of one spawner or of two, whose *)
(* pids may be given again once.                                           *)
(***************************************************************************)
EXTENDS MountSession
===============================================================================
