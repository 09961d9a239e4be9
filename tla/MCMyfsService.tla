---------------------------- MODULE MCMyfsService ----------------------------
(* An instance of MyfsService for TLC.                                     *)
EXTENDS MyfsService, TLC

\* Application 1 in front, scored all the same; 2 and 3 tie, so MaxApps = 2
\* drops 3.  Cgroup 1 is shared, 2 belongs to application 1 and 3, to the
\* kernel's knowledge, to 2: MaxDomains = 1 keeps only 2.
Busy == [current |-> 1, score |-> (1 :> 1 @@ 2 :> 1 @@ 3 :> 1),
         samples |-> {<<1, 1>>, <<1, 2>>, <<2, 1>>, <<3, 2>>, <<3, 3>>}, policy |-> 2, hinted |-> {2}]

\* Nothing in front, one application scored, no working set.
Quiet == [current |-> 0, score |-> (1 :> -1 @@ 2 :> 0 @@ 3 :> -1),
          samples |-> {<<3, 2>>, <<1, 1>>}, policy |-> 0, hinted |-> {}]

\* No usable probability at all.
Useless == [Quiet EXCEPT !.score = (1 :> -1 @@ 2 :> -1 @@ 3 :> -1)]

MCEvents == {Busy, Quiet, Useless}
=============================================================================
