------------------------------ MODULE MCGdbStub ------------------------------
(***************************************************************************)
(* Two processes, of which gdb debugs one at a time or both, with up to    *)
(* two threads, two debug events and two attachments.  The second process  *)
(* has no thread yet.                                                      *)
(***************************************************************************)
EXTENDS GdbStub
=============================================================================
