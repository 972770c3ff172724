--------------------------- MODULE MCMethChannel ---------------------------
(* Two senders of two values each, two receivers and a closer.             *)
EXTENDS MethChannel, TLC

CONSTANTS s1, s2

TwoEach == s1 :> <<1, 2>> @@ s2 :> <<3, 4>>

=============================================================================
