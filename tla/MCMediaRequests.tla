--------------------------- MODULE MCMediaRequests ---------------------------
(* Two pages; f1 and f2 are frames of p1 with different origins, f3 is of  *)
(* p2 and has the origin of f1.                                            *)
EXTENDS MediaRequests

MCFrames == {"f1", "f2", "f3"}
MCOriginOf == [f \in MCFrames |-> IF f = "f2" THEN "o2" ELSE "o1"]
MCAsked == {<<"mic">>, <<"mic", "cam">>, <<"notify">>}
MCPageOf == [f \in MCFrames |-> IF f = "f3" THEN "p2" ELSE "p1"]
=============================================================================
