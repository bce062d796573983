----------------------------- MODULE MCNotebook -----------------------------
(* A notebook with a lesson that is cooling off, written for an old version *)
(* of its tool, and an observation; two goroutines.                        *)
EXTENDS Notebook

Row(cat, active, ver) == [cat |-> cat, sup |-> 0, active |-> active, review |-> FALSE,
                          tool |-> IF ver = "none" THEN "none" ELSE "t", ver |-> ver]
MCStarts == {<<>>, (1 :> Row("lesson", 1, "v1")) @@ (2 :> Row("observation", 0, "none"))}
MCArchive0 == [u \in {-1, -2} |->
                 [whole |-> TRUE, full |-> TRUE, by |-> 0, schema |-> u = -1,
                  snap |-> [entry |-> 3 :> Row("lesson", 0, "v1"), vec |-> {3}]]]
MCCurrent == "t" :> "v2"

J(op) == [op |-> op, flaw |-> "none"]
Flawed(op) == [op |-> op, flaw |-> "bad"]
Ask(op, k, near) == [op |-> op, flaw |-> "none", k |-> k, near |-> near, cat |-> "any"]
On(op, id) == [op |-> op, flaw |-> "none", id |-> id, text |-> "forget"]
New(cat, sup) == [op |-> "remember", flaw |-> "none", row |-> [Row(cat, 0, "none") EXCEPT !.sup = sup]]

From(uri) == [op |-> "import", flaw |-> "none", uri |-> uri]

Writes == {New("lesson", 2), On("forget", 2), On("forgetDM", 1)}
MCJobs == <<Writes \union {J("archive"), J("backup"), J("flag"), On("clear", 1), J("supClose"),
                           From(-1), From(-2)},
            Writes \union {J("archive"), J("flag"), On("mark", 1), On("promote", 1), J("stats"), J("supClose"),
                           Flawed("remember"), Ask("counts", 1, "low"), Ask("listPending", 1, "low"),
                           J("supOpen")},
            {Ask("recall", 1, "low"), Ask("recall", 2, "high"), J("supOpen"), From(-1), On("forget", 1), On("forget", 11)}>>
=============================================================================
