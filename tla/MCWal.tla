------------------------------- MODULE MCWal -------------------------------
(***************************************************************************)
(* Small instances of Wal.                                                 *)
(***************************************************************************)
EXTENDS Wal

WebTwice == { <<"web", "10.0.0.0/8">>, <<"web", "10.1.0.0/16">> }
WebPolicies == { <<"web", "any", 6, 0>> }

One == << <<1, 1, 1>> >>            \* "1"
OneTwo == << <<1, 2, 1>> >>         \* "1-2"
Texts == { One, OneTwo }

Global == { <<"default", 1>> }
=============================================================================
