---------------------------- MODULE LogParserProofs ----------------------------
(***************************************************************************)
(* Proofs about LogParser, for logs of any length with any lines, any      *)
(* number of texts and branches, and any limits.                           *)
(***************************************************************************)
EXTENDS LogParser, FiniteSetTheorems, TLAPS

\* The inductive form of IssuesExact: seenMessages is what the log has said, and
\* the sets that the counts are of are finite.
IssueInv ==
    /\ IsFiniteSet(Bad) /\ IsFiniteSet(Errors) /\ IsFiniteSet(seenMessages)
    /\ hasIssues <=> Bad # {}
    /\ errorCount = Cardinality(Errors)
    /\ warnCount + errorCount = Cardinality(Bad)
    /\ seenMessages = SaidTexts
    /\ \A k \in DOMAIN issues : issues[k].text \in seenMessages
    /\ \A k, l \in DOMAIN issues : issues[k].text = issues[l].text => k = l
    /\ Len(issues) = IF Cardinality(seenMessages) < MaxLogIssues
                       THEN Cardinality(seenMessages) ELSE MaxLogIssues
    /\ issuesTruncated <=> Cardinality(seenMessages) > MaxLogIssues

IsEntry(line) == line.kind \notin {"blank", "garbage"}

-----------------------------------------------------------------------------
(* Types *)

LEMMA TypeInit == Init => TypeOK
<1> SUFFICES ASSUME Init PROVE TypeOK
    OBVIOUS
<1>1. log \in Seq(Lines) /\ issues \in Seq([level : Levels, text : Texts])
    BY DEF Init
<1>2. branchMap \in [Branches -> Detail \cup {None}]
    BY DEF Init
<1> QED
    BY <1>1, <1>2 DEF Init, TypeOK

\* What Dispatch puts into the branch map is a detail or nothing.
LEMMA DispatchTypes ==
    ASSUME TypeOK, NEW line \in Lines, Dispatch(line)
    PROVE  branchMap' \in [Branches -> Detail \cup {None}]
<1>f. /\ line.branch \in Branches \cup {None} /\ line.number \in Nat
      /\ \A b \in Branches : line.info[b] \in Item \cup {None}
    BY LineAssumption DEF Line
<1>1. /\ \A b \in Branches : Get(b) \in [action : Actions \cup {None}, number : Nat]
      /\ \A b \in Branches : Get(b) \in Detail
    BY DEF TypeOK, Get, Known, Detail
<1>r. \A d \in Detail, a \in Actions, m \in Nat :
         [d EXCEPT !.action = a] \in Detail /\ [d EXCEPT !.number = m] \in Detail
    BY DEF Detail
<1>s. ASSUME NEW b \in Branches, NEW d \in Detail, Set(b, d)
      PROVE  branchMap' \in [Branches -> Detail \cup {None}]
    BY <1>s DEF Set, TypeOK
<1>2. ASSUME NEW action \in Actions, Act(line, action)
      PROVE  branchMap' \in [Branches -> Detail \cup {None}]
    BY <1>f, <1>1, <1>2, <1>r, <1>s DEF Act, TypeOK
<1>3. ASSUME NEW action \in Actions, NEW positive \in BOOLEAN,
             ActNumbered(line, action, positive)
      PROVE  branchMap' \in [Branches -> Detail \cup {None}]
    BY <1>f, <1>1, <1>3, <1>s DEF ActNumbered, TypeOK, Detail
<1>4. ASSUME Number(line) PROVE branchMap' \in [Branches -> Detail \cup {None}]
  <2>1. CASE line.branch = None \/ line.number = 0
    BY <1>4, <2>1 DEF Number, TypeOK
  <2>2. CASE line.branch \in Branches /\ line.number # 0
    <3>1. line.branch # None
      BY <2>2, BranchAssumption, NoneAssumption
    <3>2. Set(line.branch, [Get(line.branch) EXCEPT !.number = line.number])
      BY <1>4, <2>2, <3>1 DEF Number
    <3>3. [Get(line.branch) EXCEPT !.number = line.number] \in Detail
      <4>1. Get(line.branch) \in Detail /\ line.number \in Nat
        BY <1>1, <1>f, <2>2
      <4> QED
        BY <4>1 DEF Detail
    <3> QED
      BY <1>s, <2>2, <3>2, <3>3
  <2> QED
    BY <1>f, <2>1, <2>2
<1>5. ASSUME branchMap' = [b \in Branches |-> Backfilled(line, b)]
      PROVE  branchMap' \in [Branches -> Detail \cup {None}]
  <2>1. ASSUME NEW b \in Branches PROVE Backfilled(line, b) \in Detail \cup {None}
    BY <1>f DEF Backfilled, InfoAction, TypeOK, Detail, Actions, Rank, Item
  <2> QED
    BY <1>5, <2>1
<1>6. {"created", "updated", "unchanged", "automerged"} \subseteq Actions
    BY DEF Actions, Rank
<1> QED
    BY <1>2, <1>3, <1>4, <1>5, <1>6 DEF Dispatch, TypeOK

LEMMA TypeStep == TypeOK /\ [Next]_vars => TypeOK'
<1> SUFFICES ASSUME TypeOK, [Next]_vars PROVE TypeOK'
    OBVIOUS
<1>1. ASSUME NEW line \in Lines, Scan(line) PROVE TypeOK'
  <2>f. /\ line.result \in Results \cup {None}
        /\ line.level \in Levels
        /\ line.text \in Texts \cup {None}
    BY LineAssumption DEF Line
  <2>1. log' \in Seq(Lines) /\ pc' \in {"scan", "done"}
    BY <1>1 DEF Scan, TypeOK
  <2>p. parsedAnyLine' \in BOOLEAN
    BY <1>1 DEF Scan, TypeOK
  <2>2. resultStatus' \in Results \cup Outcomes \cup {None}
    <3>1. Outcome(line) \in Results \cup Outcomes
      <4>1. CASE line.result = None
        BY <4>1 DEF Outcome, Outcomes
      <4>2. CASE line.result # None /\ line.result \in Results
        <5>1. CASE line.result \notin {"disabled-by-config", "disabled-no-config",
                                     "disabled-closed-onboarding"}
          BY <4>2, <5>1 DEF Outcome
        <5>2. CASE line.result \in {"disabled-by-config", "disabled-no-config",
                                   "disabled-closed-onboarding"}
          BY <4>2, <5>2 DEF Outcome, Outcomes
        <5> QED
          BY <5>1, <5>2
      <4> QED
        BY <2>f, <4>1, <4>2
    <3> QED
      BY <1>1, <3>1 DEF Scan, TypeOK
  <2>3. branchMap' \in [Branches -> Detail \cup {None}]
    BY <1>1, DispatchTypes DEF Scan, TypeOK
  <2>4. /\ hasIssues' \in BOOLEAN /\ warnCount' \in Nat /\ errorCount' \in Nat
        /\ issues' \in Seq([level : Levels, text : Texts])
        /\ seenMessages' \subseteq Texts /\ issuesTruncated' \in BOOLEAN
    <3>1. CASE Issue(line)
      <4>1. hasIssues' \in BOOLEAN /\ warnCount' \in Nat /\ errorCount' \in Nat
        <5>1. CASE IsIssue(line)
          BY <3>1, <5>1 DEF Issue, TypeOK
        <5>2. CASE ~IsIssue(line)
          BY <3>1, <5>2 DEF Issue, issueVars, TypeOK
        <5> QED
          BY <5>1, <5>2
      <4>2. /\ \/ UNCHANGED <<seenMessages, issues>>
               \/ /\ line.text \in Texts /\ seenMessages' = seenMessages \cup {line.text}
                  /\ issues' \in {issues, Append(issues, [level |-> line.level,
                                                          text |-> line.text])}
            /\ issuesTruncated' \in {issuesTruncated, TRUE}
        BY <2>f, <3>1 DEF Issue, issueVars
      <4>3. seenMessages' \subseteq Texts /\ issuesTruncated' \in BOOLEAN
        BY <4>2 DEF TypeOK
      <4>4. issues' \in Seq([level : Levels, text : Texts])
        <5> DEFINE E == [level : Levels, text : Texts]
                   new == [level |-> line.level, text |-> line.text]
        <5>1. line.text \in Texts => new \in E
          BY <2>f
        <5>2. issues \in Seq(E)
          BY DEF TypeOK
        <5>3. issues' = issues \/ (line.text \in Texts /\ issues' = Append(issues, new))
          BY <4>2
        <5> HIDE DEF E, new
        <5>4. issues' \in Seq(E)
          BY <5>1, <5>2, <5>3
        <5> QED
          BY <5>4 DEF E
      <4> QED
        BY <4>1, <4>3, <4>4
    <3>2. CASE UNCHANGED issueVars
      BY <3>2 DEF issueVars, TypeOK
    <3> QED
      BY <1>1, <3>1, <3>2 DEF Scan
  <2> QED
    BY <2>1, <2>p, <2>2, <2>3, <2>4 DEF TypeOK
<1>2. ASSUME Finish PROVE TypeOK'
    BY <1>2 DEF Finish, issueVars, TypeOK
<1>3. CASE UNCHANGED vars
    BY <1>3 DEF vars, issueVars, TypeOK
<1> QED
    BY <1>1, <1>2, <1>3 DEF Next

\* Every variable keeps its type, whatever the lines say and in whatever order.
THEOREM ParserTypes == Spec => []TypeOK
<1> QED
    BY TypeInit, TypeStep, PTL DEF Spec

-----------------------------------------------------------------------------
(* Issues *)

\* A line adds its own position to the sets its kind and level belong to, and
\* its text to what has been said.
LEMMA ScanSets ==
    ASSUME TypeOK, NEW line \in Lines, log' = Append(log, line)
    PROVE  LET n == Len(log) + 1
               bad == IsEntry(line) /\ line.level >= 40
           IN /\ n \notin Bad
              /\ Bad' = IF bad THEN Bad \cup {n} ELSE Bad
              /\ Errors' = IF bad /\ line.level >= 50 THEN Errors \cup {n} ELSE Errors
              /\ SaidTexts' = IF bad /\ line.text # None
                                THEN SaidTexts \cup {line.text} ELSE SaidTexts
<1> DEFINE n == Len(log) + 1
           bad == IsEntry(line) /\ line.level >= 40
<1> USE LineAssumption DEF Line
<1>1. /\ Len(log) \in Nat /\ DOMAIN log = 1..Len(log)
      /\ DOMAIN (log') = 1..n
      /\ \A i \in 1..Len(log) : log'[i] = log[i]
      /\ log'[n] = line
    BY DEF TypeOK
<1> HIDE DEF n
<1>2. n = Len(log) + 1 /\ 1..n = (1..Len(log)) \cup {n} /\ n \notin 1..Len(log)
    BY <1>1 DEF n
<1>3. Entries' = IF IsEntry(line) THEN Entries \cup {n} ELSE Entries
    BY <1>1, <1>2 DEF Entries, IsEntry
<1>4. Entries \subseteq 1..Len(log) /\ Bad \subseteq 1..Len(log)
    BY <1>1 DEF Entries, Bad
<1>5. Bad' = IF bad THEN Bad \cup {n} ELSE Bad
    BY <1>1, <1>2, <1>3, <1>4 DEF Bad
<1>6. Errors' = IF bad /\ line.level >= 50 THEN Errors \cup {n} ELSE Errors
  <2>1. \A i \in Bad : i # n /\ log'[i] = log[i]
    BY <1>1, <1>2, <1>4
  <2>2. CASE bad
    <3>1. Errors' = {i \in Bad \cup {n} : log'[i].level >= 50}
      BY <1>5, <2>2 DEF Errors
    <3>2. \A i \in Bad : log'[i].level >= 50 <=> i \in Errors
      BY <2>1 DEF Errors
    <3>3. log'[n].level >= 50 <=> line.level >= 50
      BY <1>1
    <3>4. Errors \subseteq Bad
      BY DEF Errors
    <3> QED
      BY <2>2, <3>1, <3>2, <3>3, <3>4
  <2>3. CASE ~bad
    BY <1>5, <2>1, <2>3 DEF Errors
  <2> QED
    BY <2>2, <2>3
<1>7. SaidTexts' = IF bad /\ line.text # None
                     THEN SaidTexts \cup {line.text} ELSE SaidTexts
    BY <1>1, <1>2, <1>4, <1>5 DEF SaidTexts
<1> QED
    BY <1>2, <1>4, <1>5, <1>6, <1>7 DEF n

LEMMA IssueStep == TypeOK /\ IssueInv /\ [Next]_vars => IssueInv'
<1> SUFFICES ASSUME TypeOK, IssueInv, [Next]_vars PROVE IssueInv'
    OBVIOUS
<1>u. ASSUME UNCHANGED <<log, issueVars>> PROVE IssueInv'
    BY <1>u DEF IssueInv, issueVars, Bad, Errors, Entries, SaidTexts
<1>1. ASSUME NEW line \in Lines, Scan(line) PROVE IssueInv'
  <2> DEFINE n == Len(log) + 1
  <2>1. log' = Append(log, line)
    BY <1>1 DEF Scan
  <2>2. line.level \in Int /\ (line.text \in Texts \/ line.text = None)
    BY LineAssumption DEF Line, Levels
  <2>3. CASE ~(IsEntry(line) /\ IsIssue(line))
    <3>1. UNCHANGED issueVars
      BY <1>1, <2>3 DEF Scan, IsEntry, Issue
    <3>2. Bad' = Bad /\ Errors' = Errors /\ SaidTexts' = SaidTexts
      BY <2>1, <2>2, <2>3, ScanSets DEF IsIssue
    <3> QED
      BY <3>1, <3>2 DEF IssueInv, issueVars
  <2>4. CASE IsEntry(line) /\ IsIssue(line)
    <3>1. Issue(line)
      BY <1>1, <2>4 DEF Scan, IsEntry
    <3>2. /\ n \notin Bad /\ Bad' = Bad \cup {n}
          /\ Errors' = IF IsError(line) THEN Errors \cup {n} ELSE Errors
          /\ SaidTexts' = IF line.text # None
                            THEN SaidTexts \cup {line.text} ELSE SaidTexts
      BY <2>1, <2>2, <2>4, ScanSets DEF IsIssue, IsError
    <3>3. n \notin Errors
      BY <3>2 DEF Errors
    <3> HIDE DEF n
    <3>4. /\ IsFiniteSet(Bad)' /\ Cardinality(Bad)' = Cardinality(Bad) + 1
          /\ Cardinality(Bad) \in Nat /\ Cardinality(Errors) \in Nat
      BY <3>2, FS_AddElement, FS_CardinalityType DEF IssueInv
    <3>5. /\ IsFiniteSet(Errors)'
          /\ Cardinality(Errors)' = IF IsError(line) THEN Cardinality(Errors) + 1
                                    ELSE Cardinality(Errors)
      BY <3>2, <3>3, FS_AddElement DEF IssueInv
    <3>6. /\ hasIssues' <=> Bad' # {}
          /\ errorCount' = Cardinality(Errors)'
          /\ warnCount' + errorCount' = Cardinality(Bad)'
      BY <3>1, <3>2, <3>4, <3>5, <2>4 DEF Issue, IssueInv, TypeOK
    <3>7. /\ Cardinality(seenMessages) \in Nat /\ Len(issues) \in Nat
          /\ DOMAIN issues = 1..Len(issues)
      BY FS_CardinalityType DEF IssueInv, TypeOK
    <3>f. IsFiniteSet(seenMessages)
      BY DEF IssueInv
    <3>8. CASE line.text = None \/ line.text \in seenMessages
      <4>1. UNCHANGED <<issues, seenMessages, issuesTruncated>> /\ SaidTexts' = SaidTexts
        BY <3>1, <3>2, <3>8, <2>4 DEF Issue, IssueInv
      <4> QED
        BY <4>1, <3>4, <3>5, <3>6 DEF IssueInv
    <3>9. CASE line.text # None /\ line.text \notin seenMessages
      <4>1. seenMessages' = seenMessages \cup {line.text} /\ seenMessages' = SaidTexts'
        BY <3>1, <3>2, <3>9, <2>4 DEF Issue, IssueInv
      <4>2. /\ IsFiniteSet(seenMessages)'
            /\ Cardinality(seenMessages)' = Cardinality(seenMessages) + 1
        BY <4>1, <3>9, <3>f, FS_AddElement
      <4>3. CASE Len(issues) < MaxLogIssues
        <5> DEFINE new == [level |-> line.level, text |-> line.text]
        <5>1. issues' = Append(issues, new) /\ issuesTruncated' = issuesTruncated
          BY <3>1, <3>9, <4>3, <2>4 DEF Issue
        <5>2. /\ Len(issues)' = Len(issues) + 1
              /\ DOMAIN (issues') = 1..(Len(issues) + 1)
              /\ \A k \in 1..Len(issues) : issues'[k] = issues[k]
              /\ issues'[Len(issues) + 1].text = line.text
          BY <5>1 DEF TypeOK
        <5>3. \A k \in DOMAIN (issues') :
                 k \in DOMAIN issues \/ k = Len(issues) + 1
          BY <5>2, <3>7
        <5>4. /\ \A k \in DOMAIN (issues') : issues'[k].text \in seenMessages'
              /\ \A k, l \in DOMAIN (issues') : issues'[k].text = issues'[l].text => k = l
          BY <5>2, <5>3, <3>7, <3>9, <4>1 DEF IssueInv
        <5>5. /\ Len(issues)' = IF Cardinality(seenMessages)' < MaxLogIssues
                                THEN Cardinality(seenMessages)' ELSE MaxLogIssues
              /\ issuesTruncated' <=> Cardinality(seenMessages)' > MaxLogIssues
          BY <5>1, <5>2, <4>2, <4>3, <3>7, LimitAssumption DEF IssueInv
        <5> QED
          BY <3>4, <3>5, <3>6, <4>1, <4>2, <5>4, <5>5 DEF IssueInv
      <4>4. CASE ~(Len(issues) < MaxLogIssues)
        <5>1. issues' = issues /\ issuesTruncated' = TRUE
          BY <3>1, <3>9, <4>4, <2>4 DEF Issue
        <5>2. Cardinality(seenMessages) >= MaxLogIssues /\ Len(issues) = MaxLogIssues
          BY <4>4, <3>7, LimitAssumption DEF IssueInv
        <5> QED
          BY <3>4, <3>5, <3>6, <3>7, <4>1, <4>2, <5>1, <5>2, LimitAssumption DEF IssueInv
      <4> QED
        BY <4>3, <4>4
    <3> QED
      BY <3>8, <3>9
  <2> QED
    BY <2>3, <2>4
<1>2. CASE Finish
    BY <1>2, <1>u DEF Finish
<1>3. CASE UNCHANGED vars
    BY <1>3, <1>u DEF vars
<1> QED
    BY <1>1, <1>2, <1>3 DEF Next

\* However long the log and wherever the issues are in it, what is reported of
\* them is exact: the counts, the distinct messages kept, and the truncation.
THEOREM IssuesAreExact == Spec => []IssuesExact
<1>1. Init => IssueInv
  <2> SUFFICES ASSUME Init PROVE IssueInv
    OBVIOUS
  <2>1. Bad = {} /\ Errors = {} /\ SaidTexts = {}
    BY DEF Init, Bad, Errors, Entries, SaidTexts
  <2> QED
    BY <2>1, FS_EmptySet, LimitAssumption DEF Init, IssueInv
<1>2. IssueInv => IssuesExact
    BY DEF IssueInv, IssuesExact
<1> QED
    BY <1>1, <1>2, TypeInit, TypeStep, IssueStep, PTL DEF Spec

-----------------------------------------------------------------------------
(* Branches *)

\* The positions of the log that speak of a branch, by how they do: a message
\* that names an action, one that carries a number, a summary that lists it.
ActKinds == {"creating", "updating", "unneeded", "automerged"}
NamesAction(line, b) == line.branch = b /\ line.kind \in ActKinds
NamesNumber(line, b) ==
    line.branch = b /\ line.kind \in {"push", "created"} /\ line.number > 0
Summarises(line, b) ==
    line.kind = "branches" /\ line.info[b] # None /\ line.info[b].result # "stale"

ActsOf(b)      == {i \in Entries : NamesAction(log[i], b)}
NumbersOf(b)   == {i \in Entries : NamesNumber(log[i], b)}
SummariesOf(b) == {i \in Entries : Summarises(log[i], b)}

ActionOf(line) == CASE line.kind = "creating" -> "created"
                    [] line.kind = "updating" -> "updated"
                    [] line.kind = "unneeded" -> "unchanged"
                    [] OTHER -> "automerged"

\* Why the map holds what it holds of a branch: the last message that names an
\* action, the first summary if no number came before it, or a number alone.
ByMessage(b) == \E i \in ActsOf(b) :
    /\ \A j \in ActsOf(b) : j <= i
    /\ Known(b) /\ branchMap[b].action = ActionOf(log[i])
BySummary(b) == \E i \in SummariesOf(b) :
    /\ \A j \in SummariesOf(b) : i <= j
    /\ \A j \in NumbersOf(b) : i < j
    /\ Known(b) /\ branchMap[b].action = InfoAction(log[i].info[b])
ByNumber(b) == \E i \in NumbersOf(b) :
    /\ \A j \in SummariesOf(b) : i < j
    /\ Known(b) /\ branchMap[b].action = None /\ branchMap[b].number > 0
HasFirst(I) == I # {} => \E i \in I : \A j \in I : i <= j
Unspoken(b) == NumbersOf(b) = {} /\ SummariesOf(b) = {} /\ ~Known(b)

\* The inductive form of ActionsExact.
BranchInv == \A b \in Branches :
    /\ HasFirst(SummariesOf(b))
    /\ IF ActsOf(b) # {} THEN ByMessage(b)
       ELSE Unspoken(b) \/ BySummary(b) \/ ByNumber(b)

\* A line adds its own position to the sets it belongs to; the lines before it
\* stay where they are.
LEMMA ScanPositions ==
    ASSUME TypeOK, NEW line \in Lines, log' = Append(log, line), NEW b \in Branches
    PROVE  LET n == Len(log) + 1
           IN /\ n \in Nat /\ log'[n] = line
              /\ \A i \in Entries : i \in Nat /\ i < n /\ log'[i] = log[i]
              /\ ActsOf(b)' = IF IsEntry(line) /\ NamesAction(line, b)
                                THEN ActsOf(b) \cup {n} ELSE ActsOf(b)
              /\ NumbersOf(b)' = IF IsEntry(line) /\ NamesNumber(line, b)
                                   THEN NumbersOf(b) \cup {n} ELSE NumbersOf(b)
              /\ SummariesOf(b)' = IF IsEntry(line) /\ Summarises(line, b)
                                     THEN SummariesOf(b) \cup {n} ELSE SummariesOf(b)
<1> DEFINE n == Len(log) + 1
<1>1. /\ Len(log) \in Nat /\ DOMAIN log = 1..Len(log)
      /\ DOMAIN (log') = 1..n
      /\ \A i \in 1..Len(log) : log'[i] = log[i]
      /\ n \in Nat /\ log'[n] = line
    BY DEF TypeOK
<1>2. 1..n = (1..Len(log)) \cup {n} /\ \A i \in 1..Len(log) : i \in Nat /\ i < n
    BY <1>1
<1> HIDE DEF n
<1>3. Entries' = IF IsEntry(line) THEN Entries \cup {n} ELSE Entries
    BY <1>1, <1>2 DEF Entries, IsEntry
<1>4. \A i \in Entries : i \in Nat /\ i < n /\ log'[i] = log[i]
    BY <1>1, <1>2 DEF Entries
<1>5. ActsOf(b)' = IF IsEntry(line) /\ NamesAction(line, b)
                     THEN ActsOf(b) \cup {n} ELSE ActsOf(b)
    BY <1>1, <1>3, <1>4 DEF ActsOf, NamesAction
<1>6. NumbersOf(b)' = IF IsEntry(line) /\ NamesNumber(line, b)
                        THEN NumbersOf(b) \cup {n} ELSE NumbersOf(b)
    BY <1>1, <1>3, <1>4 DEF NumbersOf, NamesNumber
<1>7. SummariesOf(b)' = IF IsEntry(line) /\ Summarises(line, b)
                          THEN SummariesOf(b) \cup {n} ELSE SummariesOf(b)
    BY <1>1, <1>3, <1>4 DEF SummariesOf, Summarises
<1> QED
    BY <1>1, <1>4, <1>5, <1>6, <1>7 DEF n

\* What a line does to one branch of the map.
LEMMA ScanBranch ==
    ASSUME TypeOK, NEW line \in Lines, Scan(line), NEW b \in Branches
    PROVE  /\ NamesAction(line, b) =>
                 Known(b)' /\ branchMap'[b].action = ActionOf(line)
           /\ NamesNumber(line, b) =>
                 /\ Known(b)' /\ branchMap'[b].number > 0
                 /\ branchMap'[b].action = IF Known(b) THEN branchMap[b].action ELSE None
           /\ Summarises(line, b) =>
                 IF Known(b) THEN branchMap'[b] = branchMap[b]
                 ELSE Known(b)' /\ branchMap'[b].action = InfoAction(line.info[b])
           /\ \/ NamesAction(line, b) \/ NamesNumber(line, b) \/ Summarises(line, b)
              \/ branchMap'[b] = branchMap[b]
<1>f. /\ line.branch \in Branches \cup {None} /\ line.number \in Nat
      /\ \A c \in Branches : line.info[c] \in Item \cup {None}
      /\ None \notin Branches
    BY LineAssumption, BranchAssumption, NoneAssumption DEF Line
<1>d. /\ \A c \in Branches : Get(c) \in Detail
      /\ Get(b).action = IF Known(b) THEN branchMap[b].action ELSE None
    BY DEF TypeOK, Get, Known, Detail
<1>n. None \notin Detail
    BY NoneAssumption
<1>s. ASSUME NEW c \in Branches, NEW d, Set(c, d)
      PROVE  branchMap'[b] = IF c = b THEN d ELSE branchMap[b]
    BY <1>s DEF Set, TypeOK
<1>a. {"created", "updated", "unchanged", "automerged", "approval"} \subseteq Actions
    BY DEF Actions, Rank
<1>k. IsEntry(line) => Dispatch(line)
    BY DEF Scan, IsEntry
<1>1. ASSUME NEW action \in Actions, Act(line, action)
      PROVE  IF line.branch = b THEN Known(b)' /\ branchMap'[b].action = action
             ELSE branchMap'[b] = branchMap[b]
  <2>1. CASE line.branch = None
    BY <1>1, <1>f, <2>1 DEF Act
  <2>2. CASE line.branch \in Branches
    <3> DEFINE d == [Get(line.branch) EXCEPT !.action = action]
    <3>1. Set(line.branch, d)
      BY <1>1, <1>f, <2>2 DEF Act
    <3>2. d \in Detail /\ d.action = action
      BY <1>d, <2>2 DEF Detail
    <3> HIDE DEF d
    <3> QED
      BY <1>s, <1>n, <2>2, <3>1, <3>2 DEF Known
  <2> QED
    BY <1>f, <2>1, <2>2
<1>2. ASSUME NEW action \in Actions, NEW positive \in BOOLEAN,
             ActNumbered(line, action, positive)
      PROVE  IF line.branch = b THEN Known(b)' /\ branchMap'[b].action = action
             ELSE branchMap'[b] = branchMap[b]
  <2>1. CASE line.branch = None
    BY <1>2, <1>f, <2>1 DEF ActNumbered
  <2>2. CASE line.branch \in Branches
    <3> DEFINE m == IF positive /\ line.number = 0 THEN Get(line.branch).number
                    ELSE line.number
               d == [action |-> action, number |-> m]
    <3>1. Set(line.branch, d)
      BY <1>2, <1>f, <2>2 DEF ActNumbered
    <3>2. m \in Nat
      BY <1>d, <1>f, <2>2 DEF Detail
    <3>3. d \in Detail /\ d.action = action
      BY <3>2 DEF Detail
    <3> HIDE DEF d
    <3> QED
      BY <1>s, <1>n, <2>2, <3>1, <3>3 DEF Known
  <2> QED
    BY <1>f, <2>1, <2>2
<1>3. ASSUME Number(line)
      PROVE  IF line.branch = b /\ line.number > 0
               THEN /\ Known(b)' /\ branchMap'[b].number > 0
                    /\ branchMap'[b].action = IF Known(b) THEN branchMap[b].action ELSE None
               ELSE branchMap'[b] = branchMap[b]
  <2>1. CASE line.branch = None \/ line.number = 0
    BY <1>3, <1>f, <2>1 DEF Number
  <2>2. CASE line.branch \in Branches /\ line.number > 0
    <3> DEFINE d == [Get(line.branch) EXCEPT !.number = line.number]
    <3>1. Set(line.branch, d)
      BY <1>3, <1>f, <2>2 DEF Number
    <3>2. d \in Detail /\ d.action = Get(line.branch).action /\ d.number = line.number
      BY <1>d, <1>f, <2>2 DEF Detail
    <3> HIDE DEF d
    <3> QED
      BY <1>s, <1>n, <1>d, <2>2, <3>1, <3>2 DEF Known
  <2> QED
    BY <1>f, <2>1, <2>2
<1>4. ASSUME line.kind = "branches"
      PROVE  IF ~Known(b) /\ Summarises(line, b)
               THEN Known(b)' /\ branchMap'[b].action = InfoAction(line.info[b])
               ELSE branchMap'[b] = branchMap[b]
  <2>1. branchMap' = [c \in Branches |-> Backfilled(line, c)]
    BY <1>4, <1>k DEF Dispatch, IsEntry
  <2>2. branchMap'[b] = Backfilled(line, b)
    BY <2>1
  <2>3. CASE ~Known(b) /\ Summarises(line, b)
    <3> DEFINE d == [action |-> InfoAction(line.info[b]), number |-> line.info[b].number]
    <3>1. branchMap'[b] = d
      BY <2>2, <2>3 DEF Backfilled, Summarises
    <3>2. InfoAction(line.info[b]) \in Actions
      BY <1>a DEF InfoAction
    <3>3. line.info[b].number \in Nat
      BY <1>f, <2>3 DEF Summarises, Item
    <3>4. d \in Detail /\ d.action = InfoAction(line.info[b])
      BY <3>2, <3>3 DEF Detail
    <3> HIDE DEF d
    <3> QED
      BY <1>n, <2>3, <3>1, <3>4 DEF Known
  <2>4. CASE ~(~Known(b) /\ Summarises(line, b))
    BY <1>4, <2>2, <2>4 DEF Backfilled, Summarises
  <2> QED
    BY <2>3, <2>4
<1>5. CASE line.kind \in ActKinds
  <2>1. Dispatch(line)
    BY <1>k, <1>5 DEF IsEntry, ActKinds
  <2>2. IF line.branch = b THEN Known(b)' /\ branchMap'[b].action = ActionOf(line)
        ELSE branchMap'[b] = branchMap[b]
    <3>1. CASE line.kind = "creating"
      BY <1>1, <1>a, <2>1, <3>1 DEF Dispatch, ActionOf
    <3>2. CASE line.kind = "updating"
      BY <1>1, <1>a, <2>1, <3>2 DEF Dispatch, ActionOf
    <3>3. CASE line.kind = "unneeded"
      BY <1>2, <1>a, <2>1, <3>3 DEF Dispatch, ActionOf
    <3>4. CASE line.kind = "automerged"
      BY <1>2, <1>a, <2>1, <3>4 DEF Dispatch, ActionOf
    <3> QED
      BY <1>5, <3>1, <3>2, <3>3, <3>4 DEF ActKinds
  <2> QED
    BY <1>5, <2>2 DEF NamesAction, NamesNumber, Summarises, ActKinds
<1>6. CASE line.kind \in {"push", "created"}
  <2>1. Number(line)
    BY <1>k, <1>6 DEF Dispatch, IsEntry
  <2> QED
    BY <1>3, <1>6, <2>1 DEF NamesAction, NamesNumber, Summarises, ActKinds
<1>7. CASE line.kind = "branches"
    BY <1>4, <1>7 DEF NamesAction, NamesNumber, Summarises, ActKinds
<1>8. CASE line.kind \notin ActKinds \cup {"push", "created", "branches"}
  <2>1. branchMap' = branchMap
    BY <1>8 DEF Scan, Dispatch, ActKinds
  <2> QED
    BY <1>8, <2>1 DEF NamesAction, NamesNumber, Summarises, ActKinds
<1> QED
    BY <1>5, <1>6, <1>7, <1>8

LEMMA BranchStep == TypeOK /\ BranchInv /\ [Next]_vars => BranchInv'
<1> SUFFICES ASSUME TypeOK, BranchInv, [Next]_vars, NEW b \in Branches
             PROVE  /\ HasFirst(SummariesOf(b))'
                    /\ (IF ActsOf(b) # {} THEN ByMessage(b)
                        ELSE Unspoken(b) \/ BySummary(b) \/ ByNumber(b))'
    BY DEF BranchInv
<1> DEFINE Goal == (IF ActsOf(b) # {} THEN ByMessage(b)
                    ELSE Unspoken(b) \/ BySummary(b) \/ ByNumber(b))'
<1>i. IF ActsOf(b) # {} THEN ByMessage(b)
      ELSE Unspoken(b) \/ BySummary(b) \/ ByNumber(b)
    BY DEF BranchInv
<1>h. HasFirst(SummariesOf(b))
    BY DEF BranchInv
<1>u. ASSUME UNCHANGED <<log, branchMap>> PROVE HasFirst(SummariesOf(b))' /\ Goal
    BY <1>i, <1>h, <1>u DEF ActsOf, NumbersOf, SummariesOf, Entries, ByMessage,
                            BySummary, ByNumber, Unspoken, Known, HasFirst
<1>1. ASSUME NEW line \in Lines, Scan(line) PROVE HasFirst(SummariesOf(b))' /\ Goal
  <2> DEFINE n == Len(log) + 1
  <2>l. log' = Append(log, line)
    BY <1>1 DEF Scan
  <2>p. /\ n \in Nat /\ log'[n] = line
        /\ \A i \in Entries : i \in Nat /\ i < n /\ log'[i] = log[i]
        /\ ActsOf(b)' = IF IsEntry(line) /\ NamesAction(line, b)
                          THEN ActsOf(b) \cup {n} ELSE ActsOf(b)
        /\ NumbersOf(b)' = IF IsEntry(line) /\ NamesNumber(line, b)
                             THEN NumbersOf(b) \cup {n} ELSE NumbersOf(b)
        /\ SummariesOf(b)' = IF IsEntry(line) /\ Summarises(line, b)
                               THEN SummariesOf(b) \cup {n} ELSE SummariesOf(b)
    BY <2>l, ScanPositions
  <2> HIDE DEF n
  <2>s. ActsOf(b) \subseteq Entries /\ NumbersOf(b) \subseteq Entries
        /\ SummariesOf(b) \subseteq Entries
    BY DEF ActsOf, NumbersOf, SummariesOf
  <2>b. /\ NamesAction(line, b) =>
              Known(b)' /\ branchMap'[b].action = ActionOf(line)
        /\ NamesNumber(line, b) =>
              /\ Known(b)' /\ branchMap'[b].number > 0
              /\ branchMap'[b].action = IF Known(b) THEN branchMap[b].action ELSE None
        /\ Summarises(line, b) =>
              IF Known(b) THEN branchMap'[b] = branchMap[b]
              ELSE Known(b)' /\ branchMap'[b].action = InfoAction(line.info[b])
        /\ \/ NamesAction(line, b) \/ NamesNumber(line, b) \/ Summarises(line, b)
           \/ branchMap'[b] = branchMap[b]
    BY <1>1, ScanBranch
  <2>e. NamesAction(line, b) \/ NamesNumber(line, b) \/ Summarises(line, b) => IsEntry(line)
    BY DEF NamesAction, NamesNumber, Summarises, ActKinds, IsEntry
  <2>x. /\ ~(NamesAction(line, b) /\ NamesNumber(line, b))
        /\ ~(NamesAction(line, b) /\ Summarises(line, b))
        /\ ~(NamesNumber(line, b) /\ Summarises(line, b))
    BY DEF NamesAction, NamesNumber, Summarises, ActKinds
  <2>h. HasFirst(SummariesOf(b))'
    <3>1. CASE SummariesOf(b) = {} /\ SummariesOf(b)' = {n}
      BY <2>p, <3>1 DEF HasFirst
    <3>2. CASE SummariesOf(b) # {} \/ SummariesOf(b)' = SummariesOf(b)
      BY <1>h, <2>p, <2>s, <3>2 DEF HasFirst
    <3> QED
      BY <2>p, <3>1, <3>2
  <2> SUFFICES Goal
    BY <2>h
  <2>1. CASE NamesAction(line, b)
    <3>1. ActsOf(b)' = ActsOf(b) \cup {n}
      BY <2>p, <2>e, <2>1
    <3>2. \A j \in ActsOf(b)' : j <= n
      BY <2>p, <2>s, <3>1
    <3>3. ByMessage(b)'
      BY <2>p, <2>b, <2>1, <3>1, <3>2 DEF ByMessage
    <3> QED
      BY <3>1, <3>3
  <2>2. CASE NamesNumber(line, b)
    <3>1. /\ ActsOf(b)' = ActsOf(b) /\ SummariesOf(b)' = SummariesOf(b)
          /\ NumbersOf(b)' = NumbersOf(b) \cup {n}
      BY <2>p, <2>e, <2>x, <2>2
    <3>2. /\ Known(b)' /\ branchMap'[b].number > 0
          /\ branchMap'[b].action = IF Known(b) THEN branchMap[b].action ELSE None
      BY <2>b, <2>2
    <3>3. CASE ActsOf(b) # {}
      <4>1. ByMessage(b)'
        BY <1>i, <2>p, <2>s, <3>1, <3>2, <3>3 DEF ByMessage
      <4> QED
        BY <3>1, <3>3, <4>1
    <3>4. CASE ActsOf(b) = {} /\ Unspoken(b)
      <4>1. ByNumber(b)'
        BY <3>1, <3>2, <3>4 DEF ByNumber, Unspoken
      <4> QED
        BY <3>1, <3>4, <4>1
    <3>5. CASE ActsOf(b) = {} /\ BySummary(b)
      <4>1. BySummary(b)'
        BY <2>p, <2>s, <3>1, <3>2, <3>5 DEF BySummary
      <4> QED
        BY <3>1, <3>5, <4>1
    <3>6. CASE ActsOf(b) = {} /\ ByNumber(b)
      <4>1. ByNumber(b)'
        BY <2>p, <2>s, <3>1, <3>2, <3>6 DEF ByNumber
      <4> QED
        BY <3>1, <3>6, <4>1
    <3> QED
      BY <1>i, <3>3, <3>4, <3>5, <3>6
  <2>3. CASE Summarises(line, b)
    <3>1. /\ ActsOf(b)' = ActsOf(b) /\ NumbersOf(b)' = NumbersOf(b)
          /\ SummariesOf(b)' = SummariesOf(b) \cup {n}
      BY <2>p, <2>e, <2>x, <2>3
    <3>2. IF Known(b) THEN branchMap'[b] = branchMap[b]
          ELSE Known(b)' /\ branchMap'[b].action = InfoAction(line.info[b])
      BY <2>b, <2>3
    <3>3. CASE ActsOf(b) # {}
      <4>1. ByMessage(b)'
        BY <1>i, <2>p, <2>s, <3>1, <3>2, <3>3 DEF ByMessage, Known
      <4> QED
        BY <3>1, <3>3, <4>1
    <3>4. CASE ActsOf(b) = {} /\ Unspoken(b)
      <4>1. SummariesOf(b)' = {n} /\ NumbersOf(b)' = {}
        BY <3>1, <3>4 DEF Unspoken
      <4>2. Known(b)' /\ branchMap'[b].action = InfoAction(log'[n].info[b])
        BY <2>p, <3>2, <3>4 DEF Unspoken
      <4>3. BySummary(b)'
        BY <2>p, <4>1, <4>2 DEF BySummary
      <4> QED
        BY <3>1, <3>4, <4>3
    <3>5. CASE ActsOf(b) = {} /\ BySummary(b)
      <4>1. BySummary(b)'
        BY <2>p, <2>s, <3>1, <3>2, <3>5 DEF BySummary, Known
      <4> QED
        BY <3>1, <3>5, <4>1
    <3>6. CASE ActsOf(b) = {} /\ ByNumber(b)
      <4>1. ByNumber(b)'
        BY <2>p, <2>s, <3>1, <3>2, <3>6 DEF ByNumber, Known
      <4> QED
        BY <3>1, <3>6, <4>1
    <3> QED
      BY <1>i, <3>3, <3>4, <3>5, <3>6
  <2>4. CASE ~NamesAction(line, b) /\ ~NamesNumber(line, b) /\ ~Summarises(line, b)
    <3>1. /\ ActsOf(b)' = ActsOf(b) /\ NumbersOf(b)' = NumbersOf(b)
          /\ SummariesOf(b)' = SummariesOf(b) /\ branchMap'[b] = branchMap[b]
      BY <2>p, <2>b, <2>4
    <3>2. \A i \in Entries : log'[i] = log[i]
      BY <2>p
    <3> QED
      BY <1>i, <2>s, <3>1, <3>2 DEF ByMessage, BySummary, ByNumber, Unspoken, Known
  <2> QED
    BY <2>1, <2>2, <2>3, <2>4
<1>2. CASE Finish
    BY <1>2, <1>u DEF Finish
<1>3. CASE UNCHANGED vars
    BY <1>3, <1>u DEF vars
<1> QED
    BY <1>1, <1>2, <1>3 DEF Next

LEMMA BranchInit == Init => BranchInv
<1> SUFFICES ASSUME Init, NEW b \in Branches
             PROVE  ActsOf(b) = {} /\ Unspoken(b)
    BY DEF BranchInv, Unspoken, HasFirst
<1>1. Entries = {} /\ ~Known(b)
    BY DEF Init, Entries, Known
<1> QED
    BY <1>1 DEF ActsOf, NumbersOf, SummariesOf, Unspoken

\* The last and the first position of a set are what a bound in it says they are.
LEMMA LastIs ==
    ASSUME NEW I \in SUBSET Nat, NEW i \in I, \A j \in I : j <= i
    PROVE  LastOf(I) = i
<1>1. LastOf(I) \in I /\ \A j \in I : j <= LastOf(I)
    BY DEF LastOf
<1>2. LastOf(I) <= i /\ i <= LastOf(I) /\ LastOf(I) \in Nat /\ i \in Nat
    BY <1>1
<1> QED
    BY <1>2

LEMMA FirstIs ==
    ASSUME NEW I \in SUBSET Nat, NEW i \in I, \A j \in I : i <= j
    PROVE  FirstOf(I) = i
<1>1. FirstOf(I) \in I /\ \A j \in I : FirstOf(I) <= j
    BY DEF FirstOf
<1>2. FirstOf(I) <= i /\ i <= FirstOf(I) /\ FirstOf(I) \in Nat /\ i \in Nat
    BY <1>1
<1> QED
    BY <1>2

LEMMA BranchInvExact == TypeOK /\ BranchInv => ActionsExact
<1> SUFFICES ASSUME TypeOK, BranchInv, NEW b \in Branches
             PROVE  /\ Known(b) <=> Said(b) # None
                    /\ Known(b) => Final(b) = Said(b)
    BY DEF ActionsExact
<1>n. Entries \subseteq Nat
    BY DEF Entries, TypeOK
<1>s. /\ ActsOf(b) \in SUBSET Nat /\ NumbersOf(b) \in SUBSET Nat
      /\ SummariesOf(b) \in SUBSET Nat
    BY <1>n DEF ActsOf, NumbersOf, SummariesOf
<1>d. Said(b) = IF ActsOf(b) # {} THEN ActionOf(log[LastOf(ActsOf(b))])
                ELSE IF /\ SummariesOf(b) # {}
                        /\ \A i \in NumbersOf(b) : FirstOf(SummariesOf(b)) < i
                  THEN InfoAction(log[FirstOf(SummariesOf(b))].info[b])
                ELSE IF NumbersOf(b) # {} THEN "updated" ELSE None
  <2> DEFINE of == {i \in Entries : log[i].branch = b}
             acts == {i \in of : log[i].kind \in {"creating", "updating", "unneeded",
                                                  "automerged"}}
             numbers == {i \in of : log[i].kind \in {"push", "created"}
                                    /\ log[i].number > 0}
             summaries == {i \in Entries : /\ log[i].kind = "branches"
                                           /\ log[i].info[b] # None
                                           /\ log[i].info[b].result # "stale"}
  <2>1. acts = ActsOf(b) /\ numbers = NumbersOf(b) /\ summaries = SummariesOf(b)
    BY DEF ActsOf, NumbersOf, SummariesOf, NamesAction, NamesNumber, Summarises, ActKinds
  <2> QED
    BY <2>1 DEF Said, ActionOf
<1>a. /\ \A line : ActionOf(line) \in Actions
      /\ \A item : InfoAction(item) \in Actions
      /\ "updated" \in Actions /\ None \notin Actions
    BY NoneAssumption DEF ActionOf, InfoAction, Actions, Rank
<1>1. CASE ActsOf(b) # {}
  <2>1. PICK i \in ActsOf(b) :
           /\ \A j \in ActsOf(b) : j <= i
           /\ Known(b) /\ branchMap[b].action = ActionOf(log[i])
    BY <1>1 DEF BranchInv, ByMessage
  <2>2. LastOf(ActsOf(b)) = i
    BY <1>s, <2>1, LastIs
  <2> QED
    BY <1>a, <1>d, <1>1, <2>1, <2>2 DEF Final
<1>2. CASE ActsOf(b) = {} /\ Unspoken(b)
    BY <1>d, <1>2 DEF Unspoken
<1>3. CASE ActsOf(b) = {} /\ BySummary(b)
  <2>1. PICK i \in SummariesOf(b) :
           /\ \A j \in SummariesOf(b) : i <= j
           /\ \A j \in NumbersOf(b) : i < j
           /\ Known(b) /\ branchMap[b].action = InfoAction(log[i].info[b])
    BY <1>3 DEF BySummary
  <2>2. FirstOf(SummariesOf(b)) = i
    BY <1>s, <2>1, FirstIs
  <2> QED
    BY <1>a, <1>d, <1>3, <2>1, <2>2 DEF Final
<1>4. CASE ActsOf(b) = {} /\ ByNumber(b)
  <2>1. PICK i \in NumbersOf(b) :
           /\ \A j \in SummariesOf(b) : i < j
           /\ Known(b) /\ branchMap[b].action = None /\ branchMap[b].number > 0
    BY <1>4 DEF ByNumber
  <2>2. ~(SummariesOf(b) # {} /\ \A j \in NumbersOf(b) : FirstOf(SummariesOf(b)) < j)
    <3> SUFFICES ASSUME NEW s \in SummariesOf(b),
                        \A j \in NumbersOf(b) : FirstOf(SummariesOf(b)) < j
                 PROVE  FALSE
      OBVIOUS
    <3>1. PICK f \in SummariesOf(b) : \A j \in SummariesOf(b) : f <= j
      BY DEF BranchInv, HasFirst
    <3>2. FirstOf(SummariesOf(b)) = f
      BY <1>s, <3>1, FirstIs
    <3> QED
      BY <1>s, <2>1, <3>1, <3>2
  <2> QED
    BY <1>a, <1>d, <1>4, <2>1, <2>2 DEF Final
<1> QED
    BY <1>1, <1>2, <1>3, <1>4 DEF BranchInv

\* Whatever the order in which messages and summaries speak of a branch, the
\* action shown for it is the one the whole log gives it.
THEOREM ActionsAreExact == Spec => []ActionsExact
<1> QED
    BY TypeInit, TypeStep, BranchInit, BranchStep, BranchInvExact, PTL DEF Spec

-----------------------------------------------------------------------------
(* The summary *)

\* The branches listed before a branch.
Before(b) == {c \in InMap : Precedes(c, b)}

\* Order and name put the branches of the map in a strict linear order.
LEMMA PrecedesLinear ==
    ASSUME TypeOK
    PROVE  /\ IsFiniteSet(InMap)
           /\ \A b \in InMap : Final(b) \in Actions \cup {None} /\ Order(b) \in Nat
           /\ \A b \in InMap : ~Precedes(b, b)
           /\ \A b, c \in InMap : b = c \/ Precedes(b, c) \/ Precedes(c, b)
           /\ \A b, c, d \in InMap : Precedes(b, c) /\ Precedes(c, d) => Precedes(b, d)
<1>1. IsFiniteSet(InMap) /\ InMap \subseteq Nat
    BY BranchAssumption, FS_Subset DEF InMap
<1>2. \A b \in InMap : Final(b) \in Actions \cup {None}
  <2>1. "updated" \in Actions
    BY DEF Actions, Rank
  <2>2. \A b \in InMap : branchMap[b] \in Detail
    BY DEF InMap, Known, TypeOK
  <2> QED
    BY <2>1, <2>2 DEF Final, Detail
<1>3. \A a \in Actions : Rank[a] \in Nat
    BY DEF Actions, Rank
<1>4. \A b \in InMap : Order(b) \in Nat
    BY <1>2, <1>3 DEF Order
<1> QED
    BY <1>1, <1>2, <1>4 DEF Precedes

\* A branch has strictly fewer branches before it than those it precedes.
LEMMA BeforeGrows ==
    ASSUME TypeOK
    PROVE  /\ \A b \in InMap : /\ IsFiniteSet(Before(b))
                               /\ Cardinality(Before(b)) \in Nat
                               /\ Cardinality(Before(b)) < Cardinality(InMap)
           /\ \A b, c \in InMap : Precedes(c, b) =>
                 Cardinality(Before(c)) < Cardinality(Before(b))
<1>1. \A b \in InMap : Before(b) \in SUBSET InMap /\ b \notin Before(b)
    BY PrecedesLinear DEF Before
<1>f. IsFiniteSet(InMap) /\ Cardinality(InMap) \in Nat
    BY PrecedesLinear, FS_CardinalityType
<1>2. ASSUME NEW b \in InMap
      PROVE  /\ IsFiniteSet(Before(b)) /\ Cardinality(Before(b)) \in Nat
             /\ Cardinality(Before(b)) < Cardinality(InMap)
  <2>1. /\ IsFiniteSet(Before(b)) /\ Cardinality(Before(b)) <= Cardinality(InMap)
        /\ Cardinality(InMap) = Cardinality(Before(b)) => InMap = Before(b)
    BY <1>1, <1>f, FS_Subset
  <2>2. Cardinality(Before(b)) \in Nat
    BY <2>1, FS_CardinalityType
  <2> QED
    BY <1>1, <1>f, <2>1, <2>2
<1>3. ASSUME NEW b \in InMap, NEW c \in InMap, Precedes(c, b)
      PROVE  Cardinality(Before(c)) < Cardinality(Before(b))
  <2>1. Before(c) \in SUBSET Before(b) /\ c \in Before(b) /\ c \notin Before(c)
    BY <1>3, PrecedesLinear DEF Before
  <2>2. IsFiniteSet(Before(b)) /\ Cardinality(Before(b)) \in Nat
        /\ Cardinality(Before(c)) \in Nat
    BY <1>2
  <2>3. /\ Cardinality(Before(c)) <= Cardinality(Before(b))
        /\ Cardinality(Before(b)) = Cardinality(Before(c)) => Before(b) = Before(c)
    BY <2>1, <2>2, FS_Subset
  <2> QED
    BY <2>1, <2>2, <2>3
<1> QED
    BY <1>2, <1>3

\* The list holds at most MaxPRDetails branches, all of them when they fit, and
\* nothing that is left out precedes what is listed.
LEMMA ListedFacts ==
    ASSUME TypeOK
    PROVE  /\ IsFiniteSet(Listed) /\ Listed \subseteq InMap
           /\ Cardinality(Listed) \in Nat /\ Cardinality(Listed) <= MaxPRDetails
           /\ Cardinality(InMap) > MaxPRDetails <=>
                 Cardinality(Listed) < Cardinality(InMap)
           /\ \A b \in Listed, c \in InMap \ Listed : Precedes(b, c)
<1>f. IsFiniteSet(InMap) /\ Cardinality(InMap) \in Nat
    BY PrecedesLinear, FS_CardinalityType
<1>l. Listed = {b \in InMap : Cardinality(Before(b)) < MaxPRDetails}
    BY DEF Listed, Before
<1>s. /\ IsFiniteSet(Listed) /\ Listed \subseteq InMap /\ Cardinality(Listed) \in Nat
      /\ Cardinality(Listed) <= Cardinality(InMap)
      /\ Cardinality(InMap) = Cardinality(Listed) => InMap = Listed
  <2>1. Listed \in SUBSET InMap
    BY <1>l
  <2> QED
    BY <1>f, <2>1, FS_Subset, FS_CardinalityType
<1>1. Cardinality(Listed) <= MaxPRDetails
  <2> DEFINE place == [b \in Listed |-> Cardinality(Before(b))]
             S == 0..(MaxPRDetails - 1)
  <2>1. place \in [Listed -> S]
    BY <1>l, <1>s, BeforeGrows, LimitAssumption
  <2>2. ASSUME NEW b \in Listed, NEW c \in Listed, place[b] = place[c]
        PROVE  b = c
    <3>1. b \in InMap /\ c \in InMap /\ Cardinality(Before(b)) = Cardinality(Before(c))
      BY <1>s, <2>2
    <3> QED
      BY <3>1, BeforeGrows, PrecedesLinear
  <2>3. place \in Injection(Listed, S)
    BY <2>1, <2>2 DEF Injection, IsInjective
  <2>4. MaxPRDetails - 1 \in Int
    BY LimitAssumption
  <2>5. /\ IsFiniteSet(S)
        /\ Cardinality(S) = IF 0 > MaxPRDetails - 1 THEN 0
                            ELSE (MaxPRDetails - 1) - 0 + 1
    BY <2>4, FS_Interval
  <2>6. IsFiniteSet(S) /\ Cardinality(S) = MaxPRDetails
    BY <2>5, LimitAssumption
  <2> HIDE DEF place, S
  <2> QED
    BY <2>3, <2>6, FS_Injection
<1>2. ASSUME NEW b \in Listed, NEW c \in InMap, c \notin Listed
      PROVE  Precedes(b, c)
  <2>1. /\ b \in InMap /\ b # c
        /\ Cardinality(Before(b)) < MaxPRDetails
        /\ ~(Cardinality(Before(c)) < MaxPRDetails)
    BY <1>2, <1>l
  <2>2. ~Precedes(c, b)
    BY <2>1, BeforeGrows, LimitAssumption
  <2> QED
    BY <2>1, <2>2, PrecedesLinear
<1>3. Cardinality(InMap) > MaxPRDetails <=> Cardinality(Listed) < Cardinality(InMap)
  <2>1. ASSUME Cardinality(Listed) < Cardinality(InMap)
        PROVE  Cardinality(InMap) > MaxPRDetails
    <3>1. PICK b \in InMap : b \notin Listed
      BY <1>s, <2>1
    <3>2. ~(Cardinality(Before(b)) < MaxPRDetails)
      BY <1>l, <3>1
    <3>3. Cardinality(Before(b)) \in Nat /\ Cardinality(Before(b)) < Cardinality(InMap)
      BY BeforeGrows
    <3> QED
      BY <1>f, <3>2, <3>3, LimitAssumption
  <2> QED
    BY <1>1, <1>f, <1>s, <2>1, LimitAssumption
<1> QED
    BY <1>s, <1>1, <1>2, <1>3

\* The summary is exact when it is built, and it is never built again.
LEMMA SummaryStep ==
    TypeOK /\ ActionsExact /\ SummaryExact /\ [Next]_vars => SummaryExact'
<1> SUFFICES ASSUME TypeOK, ActionsExact, SummaryExact, [Next]_vars
             PROVE  SummaryExact'
    OBVIOUS
<1>1. ASSUME NEW line \in Lines, Scan(line) PROVE SummaryExact'
    BY <1>1 DEF Scan, SummaryExact
<1>2. CASE UNCHANGED vars
  <2>1. /\ pc' = pc /\ activity' = activity /\ log' = log /\ branchMap' = branchMap
    BY <1>2 DEF vars
  <2>2. InMap' = InMap /\ \A b : Said(b)' = Said(b)
    BY <2>1 DEF InMap, Known, Said, Entries
  <2> QED
    BY <2>1, <2>2 DEF SummaryExact
<1>3. CASE Finish
  <2>1. log' = log /\ branchMap' = branchMap
    BY <1>3 DEF Finish
  <2>2. InMap' = InMap /\ \A b : Said(b)' = Said(b)
    BY <2>1 DEF InMap, Known, Said, Entries
  <2>3. CASE ~parsedAnyLine
    BY <1>3, <2>3 DEF Finish, SummaryExact
  <2>4. CASE parsedAnyLine
    <3> DEFINE entry(b) == [branch |-> b, action |-> Final(b)]
               prs == {entry(b) : b \in Listed}
    <3>1. activity' = [counts |-> [a \in Actions |-> Count(a)], prs |-> prs,
                       truncated |-> Cardinality(InMap) > MaxPRDetails]
      BY <1>3, <2>4 DEF Finish
    <3>2. /\ \A a \in Actions : activity'.counts[a] = Count(a)
          /\ activity'.prs = prs
          /\ activity'.truncated <=> Cardinality(InMap) > MaxPRDetails
      BY <3>1
    <3>3. \A b \in InMap : Final(b) = Said(b) /\ Said(b) \in Actions
      BY PrecedesLinear DEF ActionsExact, InMap
    <3>4. ASSUME NEW a \in Actions
          PROVE  Count(a) = Cardinality({b \in Branches : Said(b) = a})
      <4>1. {b \in InMap : Final(b) = a} = {b \in Branches : Said(b) = a}
        BY NoneAssumption DEF ActionsExact, InMap
      <4> QED
        BY <4>1 DEF Count
    <3>5. Cardinality(prs) = Cardinality(Listed)
      <4> DEFINE f == [b \in Listed |-> entry(b)]
      <4>1. f \in Bijection(Listed, prs)
        BY DEF Bijection, Injection, IsInjective, Surjection
      <4>2. ExistsBijection(Listed, prs)
        BY <4>1 DEF ExistsBijection
      <4> HIDE DEF prs
      <4> QED
        BY <4>2, ListedFacts, FS_Bijection
    <3>6. ASSUME NEW pr \in prs, NEW b \in InMap,
                 [branch |-> b, action |-> Said(b)] \notin prs
          PROVE  Rank[pr.action] <= Rank[Said(b)]
      <4>1. PICK c \in Listed : pr = entry(c)
        OBVIOUS
      <4>2. b \notin Listed
        BY <3>3, <3>6
      <4>3. Precedes(c, b) /\ c \in InMap
        BY <4>2, ListedFacts
      <4>4. Order(c) <= Order(b) /\ Final(c) # None /\ Final(b) # None
        BY <4>3, <3>3, PrecedesLinear, NoneAssumption DEF Precedes
      <4> QED
        BY <3>3, <4>1, <4>3, <4>4 DEF Order
    <3> HIDE DEF prs
    <3>7. /\ Cardinality(prs) <= MaxPRDetails
          /\ Cardinality(InMap) > MaxPRDetails <=> Cardinality(prs) < Cardinality(InMap)
      BY <3>5, ListedFacts
    <3>8. \A a \in Actions :
             activity'.counts[a] = Cardinality({b \in Branches : Said(b)' = a})
      <4>1. \A a \in Actions :
               {b \in Branches : Said(b)' = a} = {b \in Branches : Said(b) = a}
        BY <2>2
      <4> QED
        BY <3>2, <3>4, <4>1
    <3>9. /\ Cardinality(activity'.prs) <= MaxPRDetails
          /\ activity'.truncated <=> Cardinality(activity'.prs) < Cardinality(InMap')
      BY <2>2, <3>2, <3>7
    <3>10. \A pr \in activity'.prs : \A b \in InMap' :
              [branch |-> b, action |-> Said(b)'] \notin activity'.prs =>
                  Rank[pr.action] <= Rank[Said(b)']
      BY <2>2, <3>2, <3>6
    <3> QED
      BY <3>8, <3>9, <3>10 DEF SummaryExact
  <2> QED
    BY <2>3, <2>4
<1> QED
    BY <1>1, <1>2, <1>3 DEF Next

\* However many branches there are and whatever the limit: the counts are of all
\* of them, the list is as long as the limit lets it be and says when it was
\* cut, and what was cut comes after everything that is listed.
THEOREM SummaryIsExact == Spec => []SummaryExact
<1>1. Init => SummaryExact
    BY DEF Init, SummaryExact
<1>2. Spec => [](TypeOK /\ ActionsExact)
    BY ParserTypes, ActionsAreExact, PTL
<1> QED
    BY <1>1, <1>2, SummaryStep, PTL DEF Spec
===============================================================================
