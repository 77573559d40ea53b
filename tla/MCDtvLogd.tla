----------------------------- MODULE MCDtvLogd -----------------------------
(***************************************************************************)
(* TLC instances of DtvLogd.                                               *)
(***************************************************************************)
EXTENDS DtvLogd

CONSTANTS t1, t2
Two == {t1, t2}

=============================================================================
