------------------------------- MODULE MCAutoSsl -------------------------------
(* Instances of AutoSsl. *)
EXTENDS AutoSsl

\* A wildcard and a name below it.
MCHost == {"*", "b"}
MCStars == {"*"}
MCWild == {<<"*", "b">>}

\* One entry for the name.
Single == <<{"b"}>>
\* One for the name, and one for the wildcard that HTTP-01 cannot order.
NoOrderHosts == <<{"b"}, {"*"}>>
NoOrderOrders == <<{"b"}, {}>>
=============================================================================
