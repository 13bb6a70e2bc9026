------------------------------ MODULE MCUuLock ------------------------------
(***************************************************************************)
(* The instances of UuLock are its configurations: UuLock.cfg for the lock *)
(* of a device, UuSteal.cfg for any other lock.                            *)
(***************************************************************************)
EXTENDS UuLock
=============================================================================
