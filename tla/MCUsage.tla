-------------------------------- MODULE MCUsage --------------------------------
EXTENDS Usage, TLC
ThreadProcess == (1 :> "p") @@ (2 :> "p") @@ (3 :> "c") @@ (4 :> "g")
Leaders == [x \in {"p", "c", "g"} |-> CASE x = "p" -> 1 [] x = "c" -> 3 [] x = "g" -> 4]
Parents == [x \in {"p", "c", "g"} |-> CASE x = "p" -> "none" [] x = "c" -> "p" [] x = "g" -> "c"]
=============================================================================
