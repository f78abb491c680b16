------------------------------- MODULE MCBuild -------------------------------
(* Two builds, concurrent or one after the other, over one base image, which  *)
(* is there or missing; the second may start from the image of the first.     *)
EXTENDS Build

CONSTANTS b1, b2, img

MCBuilds == {b1, b2}
MCBases  == {img}

I(op) == [op |-> op, image |-> IF op = "from" THEN img ELSE None]

MCPrograms == {<<I("from"), I("copy"), I("run")>>, <<I("from"), I("run"), I("copy")>>,
               <<[op |-> "from", image |-> Output(b1)], I("copy")>>,
               <<I("from"), I("measured")>>,
               <<I("config")>>, <<I("copy")>>, <<I("bad")>>}
=============================================================================
