------------------------------ MODULE MCLogParser ------------------------------
(* An instance of LogParser for TLC: two branches, a list of one, and a line  *)
(* of every kind.                                                             *)
EXTENDS LogParser

CONSTANTS m1, m2

NoInfo == [b \in Branches |-> None]
Plain(kind, level, text) ==
    [kind |-> kind, level |-> level, text |-> text, branch |-> None,
     number |-> 0, result |-> None, status |-> None, info |-> NoInfo]
About(kind, b, n) == [Plain(kind, 20, None) EXCEPT !.branch = b, !.number = n]
Info(r1, n1, r2, n2) ==
    [Plain("branches", 20, None) EXCEPT
        !.info = [b \in Branches |->
                    IF b = 1 THEN [result |-> r1, number |-> n1]
                    ELSE [result |-> r2, number |-> n2]]]
Finished(result, status) ==
    [Plain("finished", 30, None) EXCEPT !.result = result, !.status = status]

MCLines ==
    {Plain("other", 40, m1), Plain("other", 50, m1), Plain("other", 60, m2),
     Plain("other", 40, None), Plain("garbage", 40, m2), Plain("oversized", 50, m2),
     Finished("disabled-by-config", None), Finished(None, "onboarding"),
     About("creating", 1, 0), About("creating", 2, 0), About("updating", 1, 0),
     About("unneeded", 2, 5), About("automerged", 2, 0), About("automerged", None, 5),
     About("push", 1, 5), About("push", 2, 0), About("created", 2, 5),
     Info("needs-approval", 0, "stale", 5), Info("active", 5, "needs-approval", 0)}
===============================================================================
