---------------------------- MODULE MCHubDevices ----------------------------
(* Each world keeps to the activities that can disturb each other.  Resets  *)
(* are in minutes: 300 and 301 are one window whose derived boundary jitters *)
(* over a minute, 600 is the next one.                                      *)
EXTENDS HubDevices, TLC

CONSTANTS d1, d2, d3, t1, t2, t3

MCTokenOf == (d1 :> t1) @@ (d2 :> t2) @@ (d3 :> t3)

\* Connections and process ids are interchangeable.
MCSymmetry == Permutations(Conns) \cup Permutations(Pids)

MCWorlds ==
    {\* enrolments with and without a machine id, against revocations
     [does |-> {"machine", "enrol", "revoke"}, ids |-> {d1, d2}, registered |-> {}, looks |-> {}],
     \* heartbeats and reports of one device, late ones too
     [does |-> {"beat", "report", "tick"}, ids |-> {d1}, registered |-> {d1}, looks |-> {}],
     \* chains of merges, with events arriving in between
     [does |-> {"merge", "arrive", "revoke"}, ids |-> Ids, registered |-> {d1, d2}, looks |-> {}],
     \* what a merge takes along
     [does |-> {"merge", "read"}, ids |-> {d1, d2}, registered |-> {},
      looks |-> {[reset |-> 300, percent |-> 40], [reset |-> 600, percent |-> 20]}],
     [does |-> {"merge", "report"}, ids |-> {d1, d2}, registered |-> {}, looks |-> {}],
     [does |-> {"merge", "label", "arrive"}, ids |-> {d1, d2}, registered |-> {d1}, looks |-> {}],
     \* the calibration: readings of one window in a race, and of two windows
     [does |-> {"read", "calibrate", "crash"}, ids |-> {d1, d2}, registered |-> {},
      looks |-> {[reset |-> 300, percent |-> 40], [reset |-> 300, percent |-> 60]}],
     [does |-> {"read", "calibrate", "crash", "tick"}, ids |-> {d1}, registered |-> {},
      looks |-> {[reset |-> 300, percent |-> 20], [reset |-> 301, percent |-> 40],
                 [reset |-> 600, percent |-> 60]}]}
=============================================================================
