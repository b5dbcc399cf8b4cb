--------------------------- MODULE MC_Records ---------------------------
(* Small instances of Records: each scene is one concern of the records. *)
EXTENDS Records

Plan(pre, no, st, parent) ==
    [pre |-> pre, no |-> no, slug |-> "a", next |-> 1, parent |-> parent, overrides |-> 0, st |-> st]
Feature(p, number, st) ==
    LET c == [NewFeature(p, number) EXCEPT !.st = st] IN
    [file |-> [s \in Slugs |-> IF s = "a" THEN c ELSE NoFile], row |-> [slug |-> "a", c |-> c]]
Given(ps, fs, ts, statuses) ==
    [plans |-> ps, features |-> fs, tasks |-> ts, statuses |-> statuses, slugs |-> {"a"}]
TwoBatches == <<Plan("B", 1, "active", 0), Plan("B", 2, "proposed", 0)>>
OneBatch(st) == <<[Plan("B", 1, st, 0) EXCEPT !.next = 3]>>
ActiveTask == [st |-> "active", summary |-> FALSE]

Numbering == [does |-> {"create", "move", "crash", "plan status"}, workers |-> 1, plans |-> 2,
              features |-> 3, given |-> Given(TwoBatches, <<>>, <<>>, {"designing", "active"})]
Coordinated == [does |-> {"create", "database", "plan edit", "crash"}, workers |-> 2, plans |-> 1,
                features |-> 3, given |-> Given(<<Plan("B", 1, "active", 0)>>, <<>>, <<>>, {})]
Reparenting == [does |-> {"reparent", "plan", "plan status"}, workers |-> 1, plans |-> 4, features |-> 0,
                given |-> Given(<<Plan("P", 1, "idea", 0), Plan("P", 2, "idea", 1), Plan("P", 3, "done", 0)>>,
                                <<>>, <<>>, {"shaping", "superseded"})]
Closing == [does |-> {"close", "transition", "crash"}, workers |-> 1, plans |-> 1, features |-> 2,
            given |-> Given(OneBatch("active"),
                            <<Feature(1, <<"B", 1, 1>>, "reviewing"), Feature(1, <<"B", 1, 2>>, "developing")>>,
                            <<>>, {"reviewing", "verifying", "done", "cancelled"})]
Starting == [does |-> {"plan status", "transition", "create"}, workers |-> 1, plans |-> 1, features |-> 2,
             given |-> Given(OneBatch("proposed"), <<Feature(1, <<"B", 1, 1>>, "proposed")>>,
                             <<>>, {"specifying", "dev-planning", "designing", "active"})]
Reviewing == [does |-> {"transition", "override", "cap", "crash"}, workers |-> 1, plans |-> 1, features |-> 2,
              given |-> Given(OneBatch("active"), <<Feature(1, <<"B", 1, 1>>, "developing")>>,
                              <<>>, {"reviewing", "needs-rework"})]
Renaming == [does |-> {"rename", "transition", "override", "crash"}, workers |-> 1, plans |-> 1, features |-> 1,
             given |-> Given(OneBatch("active"), <<Feature(1, <<"B", 1, 1>>, "developing")>>,
                             <<>>, {"reviewing", "needs-rework"})]
Completing == [does |-> {"complete", "plan", "crash"}, workers |-> 2, plans |-> 3, features |-> 0,
               given |-> Given(OneBatch("active"), <<>>, <<ActiveTask, ActiveTask>>, {})]
Reporting == [does |-> {"bug", "incident"}, workers |-> 1, plans |-> 1, features |-> 2,
              given |-> Given(OneBatch("active"), <<>>, <<>>, {})]
ReportingShared == [Reporting EXCEPT !.does = {"bug", "database"}]
MC_RecordScenes ==
    {Numbering, Coordinated, Reparenting, Closing, Starting, Reviewing, Renaming, Completing, Reporting,
     ReportingShared}
=============================================================================
