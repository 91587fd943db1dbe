---------------------------- MODULE MCDagLevel -----------------------------
(* DagLevel on small levels: one issue that may be split, one under every kind
   of run, two side by side, and two that nothing reviews. *)
EXTENDS DagLevel, TLC

CONSTANTS i1, i2, sub1

MCParent == sub1 :> i1

Level(planned, subs, review, kinds, most, retries) ==
    [planned |-> planned, subs |-> subs, review |-> review, kinds |-> kinds,
     faults |-> most, clicks |-> retries]

MCSettings ==
    { Level({i1}, {sub1}, TRUE, {"die"}, 1, 0),
      Level({i1}, {}, TRUE, {"killed", "free", "cut", "refused", "outage", "busy"}, 2, 1),
      Level({i1}, {}, TRUE, {"die", "provider", "free", "busy"}, 2, 1),
      Level({i1, i2}, {}, TRUE, {}, 0, 0),
      Level({i1, i2}, {}, FALSE, {"die", "killed", "merge", "busy"}, 3, 1) }
=============================================================================
