------------------------------- MODULE LogParser -------------------------------
(***************************************************************************)
(* ParseRenovateLogs, src/internal/parser/logparser.go: one pass over the  *)
(* lines of a container's log, in whatever order Renovate wrote them, that *)
(* accumulates issues, the repository's result and what happened to every  *)
(* branch, and the summary built from it when the scanner stops.           *)
(*                                                                         *)
(* A line is a record: what its message is taken for (kind), its level,    *)
(* its text as far as texts can be equal, and the fields the handler of    *)
(* its kind reads.  Branches are numbers in the order of their names.      *)
(* Titles are left out: nothing is decided by them.                        *)
(***************************************************************************)
EXTENDS Integers, FiniteSets, Sequences

CONSTANTS
    Lines,         \* the lines a log can consist of
    Branches,      \* the branches they name
    Texts,         \* the texts of messages, cut to MaxIssueMessageLen
    Results,       \* the results and statuses of "Repository finished"
    None,          \* "", null or absent
    MaxLogIssues,  \* 20
    MaxPRDetails,  \* 100
    MaxLines       \* bound: lines in a log

Kinds == {"finished", "creating", "updating", "unneeded", "push", "created",
          "automerged", "branches", "other", "blank", "garbage", "oversized"}
Levels == {10, 20, 30, 40, 50, 60}

\* The actions in the order they are listed in (actionOrder).
Rank == [automerged |-> 0, created |-> 1, updated |-> 2, approval |-> 3,
         unchanged |-> 4]
Actions == DOMAIN Rank

\* One entry of "branches info extended": what became of a branch.
Item == [result : {"needs-approval", "active", "stale"}, number : Nat]
\* What the parser remembers of a branch (prDetail).
Detail == [action : Actions \cup {None}, number : Nat]
Line == [kind : Kinds, level : Levels, text : Texts \cup {None},
         branch : Branches \cup {None}, number : Nat,
         result : Results \cup {None}, status : Results \cup {None},
         info : [Branches -> Item \cup {None}]]

ASSUME LineAssumption == Lines \subseteq Line
ASSUME BranchAssumption == IsFiniteSet(Branches) /\ Branches \subseteq Nat
ASSUME NoneAssumption ==
    None \notin Nat \cup Texts \cup Results \cup Actions \cup Item \cup Detail
ASSUME LimitAssumption ==
    MaxLogIssues \in Nat /\ MaxPRDetails \in Nat /\ MaxLines \in Nat

VARIABLES
    log,           \* history: the lines scanned so far
    pc,            \* "scan" until the scanner stops, then "done"
    parsedAnyLine,
    hasIssues, warnCount, errorCount, issues, seenMessages, issuesTruncated,
    resultStatus,  \* RenovateResultStatus
    branchMap,     \* branch -> [action, number], or None
    activity       \* PRActivity, None before it is built

issueVars == <<hasIssues, warnCount, errorCount, issues, seenMessages,
               issuesTruncated>>
vars == <<log, pc, parsedAnyLine, issueVars, resultStatus, branchMap, activity>>

-----------------------------------------------------------------------------
(* What a line adds to the issues *)

\* Mutant: a fatal entry is not an error.
ErrorIsFifty(line) == line.level = 50
IsError(line) == line.level >= 50
IsIssue(line) == line.level >= 40

\* A message is kept once, and only while there is room.
Issue(line) ==
    IF ~IsIssue(line) THEN UNCHANGED issueVars
    ELSE /\ hasIssues' = TRUE
         /\ errorCount' = IF IsError(line) THEN errorCount + 1 ELSE errorCount
         /\ warnCount' = IF IsError(line) THEN warnCount ELSE warnCount + 1
         /\ IF line.text = None \/ line.text \in seenMessages
              THEN UNCHANGED <<issues, seenMessages, issuesTruncated>>
              ELSE /\ seenMessages' = seenMessages \cup {line.text}
                   /\ IF Len(issues) < MaxLogIssues
                        THEN /\ issues' = Append(issues, [level |-> line.level,
                                                          text |-> line.text])
                             /\ UNCHANGED issuesTruncated
                        ELSE issuesTruncated' = TRUE /\ UNCHANGED issues

-----------------------------------------------------------------------------
(* What a line does to the branch map *)

\* getOrCreateDetail
Known(b) == branchMap[b] # None
Get(b) == IF Known(b) THEN branchMap[b] ELSE [action |-> None, number |-> 0]
Set(b, detail) == branchMap' = [branchMap EXCEPT ![b] = detail]

\* handleCreatingPR, handleUpdatingPR
Act(line, action) ==
    IF line.branch = None THEN UNCHANGED branchMap
    ELSE Set(line.branch, [Get(line.branch) EXCEPT !.action = action])

\* handleDoesNotNeedUpdating takes any number, handlePRAutomerged a positive one.
ActNumbered(line, action, positive) ==
    IF line.branch = None THEN UNCHANGED branchMap
    ELSE LET old == Get(line.branch)
             number == IF positive /\ line.number = 0 THEN old.number
                       ELSE line.number
         IN Set(line.branch, [action |-> action, number |-> number])

\* handleGitPush (a remote message with a PR's URL) and handlePRCreated.
Number(line) ==
    IF line.branch = None \/ line.number = 0 THEN UNCHANGED branchMap
    ELSE Set(line.branch, [Get(line.branch) EXCEPT !.number = line.number])

InfoAction(item) ==
    IF item.result = "needs-approval" THEN "approval" ELSE "unchanged"

\* Mutant: the summary overrules what the messages said.
InfoOverrules(line, b) ==
    IF line.info[b] # None /\ line.info[b].result # "stale"
      THEN [action |-> InfoAction(line.info[b]), number |-> line.info[b].number]
      ELSE branchMap[b]
\* A branch the map has is left alone, a stale one is not added.
Backfilled(line, b) ==
    IF ~Known(b) /\ line.info[b] # None /\ line.info[b].result # "stale"
      THEN [action |-> InfoAction(line.info[b]), number |-> line.info[b].number]
      ELSE branchMap[b]

Dispatch(line) ==
    CASE line.kind = "creating"   -> Act(line, "created")
      [] line.kind = "updating"   -> Act(line, "updated")
      [] line.kind = "unneeded"   -> ActNumbered(line, "unchanged", FALSE)
      [] line.kind = "automerged" -> ActNumbered(line, "automerged", TRUE)
      [] line.kind \in {"push", "created"} -> Number(line)
      [] line.kind = "branches"   ->
            branchMap' = [b \in Branches |-> Backfilled(line, b)]
      [] OTHER -> UNCHANGED branchMap

\* handleRepositoryFinished: the three reasons for which Renovate does nothing
\* have names of their own, any other result is passed on.
Outcome(line) ==
    IF line.result = None
      THEN IF line.status = "onboarding" THEN "Onboarding" ELSE "Unknown"
      ELSE CASE line.result = "disabled-by-config" -> "Disabled"
             [] line.result = "disabled-closed-onboarding" -> "Onboarding Closed"
             [] line.result = "disabled-no-config" -> "No Config"
             [] OTHER -> line.result

-----------------------------------------------------------------------------
(* The scan *)

Scan(line) ==
    /\ pc = "scan" /\ Len(log) < MaxLines
    /\ line.kind # "oversized"
    /\ log' = Append(log, line)
    /\ IF line.kind \in {"blank", "garbage"}
         THEN UNCHANGED <<parsedAnyLine, issueVars, resultStatus, branchMap>>
         ELSE /\ parsedAnyLine' = TRUE
              /\ Issue(line)
              /\ resultStatus' = IF line.kind = "finished" THEN Outcome(line)
                                 ELSE resultStatus
              /\ Dispatch(line)
    /\ UNCHANGED <<pc, activity>>

\* buildPRActivity: a branch with a number and no action counts as updated.
Final(b) ==
    IF branchMap[b].action = None /\ branchMap[b].number > 0
      THEN "updated" ELSE branchMap[b].action
InMap == {b \in Branches : Known(b)}
Count(action) == Cardinality({b \in InMap : Final(b) = action})

\* sort.Slice by action, then name.  An action not in the map has rank 0.
Order(b) == IF Final(b) = None THEN 0 ELSE Rank[Final(b)]
\* Mutant: sorted by name alone.
ByName(c, b) == c < b
Precedes(c, b) == Order(c) < Order(b) \/ (Order(c) = Order(b) /\ c < b)
Listed == {b \in InMap :
             Cardinality({c \in InMap : Precedes(c, b)}) < MaxPRDetails}

\* The log ends, or the scanner gives up at a line longer than its buffer.
Finish ==
    /\ pc = "scan"
    /\ pc' = "done"
    /\ activity' = IF ~parsedAnyLine THEN None
                   ELSE [counts |-> [a \in Actions |-> Count(a)],
                         prs |-> {[branch |-> b, action |-> Final(b)] : b \in Listed},
                         truncated |-> Cardinality(InMap) > MaxPRDetails]
    /\ UNCHANGED <<log, parsedAnyLine, issueVars, resultStatus, branchMap>>

Init ==
    /\ log = <<>> /\ pc = "scan" /\ parsedAnyLine = FALSE
    /\ hasIssues = FALSE /\ warnCount = 0 /\ errorCount = 0 /\ issues = <<>>
    /\ seenMessages = {} /\ issuesTruncated = FALSE
    /\ resultStatus = None
    /\ branchMap = [b \in Branches |-> None]
    /\ activity = None

Next == (\E line \in Lines : Scan(line)) \/ Finish

Spec == Init /\ [][Next]_vars

-----------------------------------------------------------------------------
(* Properties *)

Outcomes == {"Disabled", "Onboarding Closed", "No Config", "Onboarding", "Unknown"}

TypeOK ==
    /\ log \in Seq(Lines) /\ pc \in {"scan", "done"}
    /\ parsedAnyLine \in BOOLEAN /\ hasIssues \in BOOLEAN
    /\ warnCount \in Nat /\ errorCount \in Nat
    /\ issues \in Seq([level : Levels, text : Texts])
    /\ seenMessages \subseteq Texts /\ issuesTruncated \in BOOLEAN
    /\ resultStatus \in Results \cup Outcomes \cup {None}
    /\ branchMap \in [Branches -> Detail \cup {None}]

\* The lines the parser took as log entries.
Entries == {i \in DOMAIN log : log[i].kind \notin {"blank", "garbage"}}

\* Those at WARN or above, those at ERROR or above, and what the former say.
Bad       == {i \in Entries : log[i].level >= 40}
Errors    == {i \in Bad : log[i].level >= 50}
SaidTexts == {log[i].text : i \in Bad} \ {None}

\* Wherever the issues are in the log and however often a message repeats, the
\* counts are of all of them, each message is kept at its first occurrence, at
\* most MaxLogIssues are, and the truncation mark says whether one was not.
IssuesExact ==
    /\ hasIssues <=> Bad # {}
    /\ errorCount = Cardinality(Errors)
    /\ warnCount + errorCount = Cardinality(Bad)
    /\ {issues[k].text : k \in DOMAIN issues} \subseteq SaidTexts
    /\ Len(issues) = IF Cardinality(SaidTexts) < MaxLogIssues
                       THEN Cardinality(SaidTexts) ELSE MaxLogIssues
    /\ \A k, l \in DOMAIN issues : issues[k].text = issues[l].text => k = l
    /\ issuesTruncated <=> Cardinality(SaidTexts) > MaxLogIssues

LastOf(I) == CHOOSE i \in I : \A j \in I : j <= i
FirstOf(I) == CHOOSE i \in I : \A j \in I : i <= j

\* What the log says of a branch, read as a whole: the last message about it
\* that names an action; failing that, the first summary, unless a number had
\* been seen for it by then; failing that, a number alone.
Said(b) ==
    LET of == {i \in Entries : log[i].branch = b}
        acts == {i \in of : log[i].kind \in {"creating", "updating", "unneeded",
                                             "automerged"}}
        numbers == {i \in of : log[i].kind \in {"push", "created"}
                               /\ log[i].number > 0}
        summaries == {i \in Entries : /\ log[i].kind = "branches"
                                      /\ log[i].info[b] # None
                                      /\ log[i].info[b].result # "stale"}
        last == log[LastOf(acts)]
    IN IF acts # {} THEN CASE last.kind = "creating" -> "created"
                           [] last.kind = "updating" -> "updated"
                           [] last.kind = "unneeded" -> "unchanged"
                           [] OTHER -> "automerged"
       ELSE IF summaries # {} /\ \A i \in numbers : FirstOf(summaries) < i
         THEN InfoAction(log[FirstOf(summaries)].info[b])
       ELSE IF numbers # {} THEN "updated" ELSE None

\* The action shown for every branch is the one the whole log gives it, although
\* the messages and summaries that speak of it come in any order.
ActionsExact ==
    \A b \in Branches : /\ Known(b) <=> Said(b) # None
                        /\ Known(b) => Final(b) = Said(b)

\* The counts are of all branches, also of those cut from the list, and the cut
\* never hides a branch in favour of one with a less important action.
SummaryExact ==
    (pc = "done" /\ activity # None) =>
        /\ \A a \in Actions :
              activity.counts[a] = Cardinality({b \in Branches : Said(b) = a})
        /\ Cardinality(activity.prs) <= MaxPRDetails
        /\ activity.truncated <=> Cardinality(activity.prs) < Cardinality(InMap)
        /\ \A pr \in activity.prs : \A b \in InMap :
              [branch |-> b, action |-> Said(b)] \notin activity.prs =>
                  Rank[pr.action] <= Rank[Said(b)]
===============================================================================
