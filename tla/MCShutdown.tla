----------------------------- MODULE MCShutdown -----------------------------
(* The program shut down in the middle of anything, with at most one thread *)
(* stuck, two rigctld processes, and two connect attempts.                  *)
EXTENDS Shutdown

MCConnects == {"connect1", "connect2"}
MCPollers == {"poll"}
=============================================================================
