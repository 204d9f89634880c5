-------------------------- MODULE MCConfigLifecycle --------------------------
(* Instances of ConfigLifecycle.  Certificate c1 covers one host, c2 both    *)
(* hosts, c3 the other one.                                                   *)
EXTENDS ConfigLifecycle, TLC

MCHostsOf == [c \in CertId |-> CASE c = "c1" -> <<"a">>
                                 [] c = "c2" -> <<"a", "b">>
                                 [] OTHER -> <<"b">>]

MCSymmetry == Permutations(Req)
=============================================================================
