----------------------------- MODULE MCRecovery -----------------------------
(***************************************************************************)
(* Small instances of Recovery.                                            *)
(***************************************************************************)
EXTENDS Recovery

Web == { <<"web", "10.0.0.0/8">> }
WebPolicies == { <<"web", "any", 6, 0>> }
OneTwoOpen == << <<2, 2, 0>>, <<1, 1, 1>> >>   \* "2:0,1"
OpenText == { OneTwoOpen }
Global == { <<"default", 1>> }
ConntrackOff == { << {FALSE}, {} >> }
=============================================================================
