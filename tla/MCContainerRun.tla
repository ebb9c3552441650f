--------------------------- MODULE MCContainerRun ---------------------------
(***************************************************************************)
(* One run, looked at every second unit of time.                           *)
(***************************************************************************)
EXTENDS ContainerRun, TLC
=============================================================================
