----------------------------- MODULE MCCompose -----------------------------
(* Compose with three services and two users: a chain against the order of *)
(* the names, a service reached twice, a cycle, an undefined dependency.   *)
EXTENDS Compose

CONSTANTS c1, c2, n1

MCFiles ==
    { << <<2>>, <<3>>, <<>> >>,
      << <<3, 2, 3>>, <<3>>, <<>> >>,
      << <<3>>, <<1>>, <<2>> >>,
      << <<>>, <<1, 4>>, <<>> >> }

MCTargets == {<<1, 2>>, <<1, 0>>, <<3, 1>>}
============================================================================
