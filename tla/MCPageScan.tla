---------------------------- MODULE MCPageScan ----------------------------
(* Seven pages and up to five asked for: every pattern of free pages with    *)
(* two or three runs, ties between runs, and requests no run can satisfy.    *)
EXTENDS PageScan
===========================================================================
