---------------------------- MODULE MCTtyDongle ----------------------------
(* An instance of TtyDongle for TLC: a dongle of two ttys, a tty that the  *)
(* table does not know and one tty of a second dongle.                     *)
EXTENDS TtyDongle, TLC

CONSTANTS t1, t2, serial, rival

DongleTtys == {t1, t2}
OtherTtys == {serial, rival}
RoleOf == t1 :> t1 @@ t2 :> t2 @@ serial :> NoTty @@ rival :> t1
=============================================================================
