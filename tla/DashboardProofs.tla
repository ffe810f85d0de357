-------------------------- MODULE DashboardProofs ---------------------------
(***************************************************************************)
(* Saves are seen whole and failures stay in their section of the page, for*)
(* any types, names, amounts and numbers of saves, visits and failures.    *)
(***************************************************************************)
EXTENDS Dashboard, OrderLemmas

\* An amount, or none.
Figures == Amounts \cup {Nothing}

Outcome == Sections \cup {"none", "render", "shown", "error"}
PageRecord ==
    [pc : Outcome, tx : {"open", "aborted", "closed"}, target : Figures, spent : Figures,
     exceeded : BOOLEAN, blank : SUBSET Sections, failed : SUBSET Sections,
     seen : [limits : SUBSET Thresholds, live : Costs \cup {<<>>}]]
FormRecord == [pc : {"none", "prefs", "limits", "shown"}, budget : Figures,
               limits : SUBSET Thresholds]

Shape ==
    /\ budget \in Figures /\ limits \in SUBSET Thresholds
    /\ page \in PageRecord /\ form \in FormRecord
    /\ save \in [pc : {"idle", "update", "delete", "insert"}, budget : Figures,
                 rows : SUBSET Rows, draft : SUBSET Thresholds]

\* The tables hold one save; while the preferences page is made no save is
\* served, so what it has read of the first table is still there.
Whole ==
    /\ [budget |-> budget, limits |-> limits] \in saved
    /\ form.pc \in {"prefs", "limits"} => save.pc = "idle"
    /\ form.pc = "limits" => form.budget = budget
    /\ form.pc = "shown" => [budget |-> form.budget, limits |-> form.limits] \in saved
    /\ page.pc \in {"render", "shown"} /\ "live" \notin page.blank
          => page.seen.limits \in {s.limits : s \in saved}
    /\ page.pc \in Sections => page.seen.limits = {}
    /\ page.pc \in {"render", "shown"} =>
          \/ page.seen.limits = {}
          \/ page.seen.limits \in {s.limits : s \in saved} /\ page.seen.live \in Costs

\* A section finds the transaction open, or the connection lost before its
\* very eyes; only the comparison may fail without its query, and only where
\* there is no target to render either.
Local ==
    /\ page.pc \in Sections =>
          page.tx # "aborted" /\ (page.tx = "closed" => page.pc \in page.failed)
    /\ page.pc # "error" => page.blank \subseteq page.failed \cup
                               (IF page.target = Nothing THEN {"spending"} ELSE {})
    /\ page.pc = "prefs" => page.blank = {}
    /\ page.pc = "shown" => page.target # Nothing
    /\ page.pc \in {"price", "devices", "live", "render", "shown"}
          /\ "spending" \notin page.blank => (page.exceeded <=> page.spent > page.target)

\* What the page does with a failure: the sections that follow start anew.
LEMMA RecoveredLocal ==
    ASSUME NEW p \in PageRecord, p.pc \in Sections
    PROVE  /\ Recovered(p) \in PageRecord
           /\ Recovered(p).target = p.target /\ Recovered(p).spent = p.spent
           /\ Recovered(p).exceeded = p.exceeded /\ Recovered(p).failed = p.failed
           /\ Recovered(p).seen = p.seen
           /\ \/ Recovered(p).pc = "error"
              \/ /\ Recovered(p).pc = NextSection[p.pc]
                 /\ Recovered(p).blank = p.blank \cup {p.pc}
                 /\ Recovered(p).tx # "aborted"
                 /\ Recovered(p).tx = "closed" => p.pc = "live"
<1> DEFINE a == [p EXCEPT !.pc = "error"]
           t == IF p.tx = "aborted" THEN "open" ELSE p.tx
           b == [p EXCEPT !.pc = NextSection[p.pc], !.blank = @ \cup {p.pc}, !.tx = t]
<1>1. NextSection[p.pc] \in Outcome /\ (p.pc = "live" \/ NextSection[p.pc] # "render")
  BY DEF NextSection, Sections, Outcome
<1>2. p.blank \cup {p.pc} \in SUBSET Sections /\ t \in {"open", "closed"}
  BY DEF PageRecord
<1>3. CASE p.tx = "closed" /\ p.pc # "live"
  <2>1. Recovered(p) = a
    BY <1>3 DEF Recovered
  <2> QED
    BY <2>1 DEF PageRecord, Outcome
<1>4. CASE ~(p.tx = "closed" /\ p.pc # "live")
  <2>1. Recovered(p) = b
    BY <1>4 DEF Recovered
  <2>2. /\ b \in PageRecord /\ b.pc = NextSection[p.pc] /\ b.blank = p.blank \cup {p.pc}
        /\ b.tx = t /\ b.target = p.target /\ b.spent = p.spent
        /\ b.exceeded = p.exceeded /\ b.failed = p.failed /\ b.seen = p.seen
    BY <1>1, <1>2 DEF PageRecord
  <2>3. t # "aborted" /\ (t = "closed" => p.pc = "live")
    BY <1>4
  <2> HIDE DEF b, t
  <2> QED
    BY <2>1, <2>2, <2>3
<1> QED
  BY <1>3, <1>4

LEMMA InitInv == Init => Shape /\ Whole /\ Local
<1> SUFFICES ASSUME Init PROVE Shape /\ Whole /\ Local
  OBVIOUS
<1>1. Shape
  <2>1. budget \in Figures /\ limits \in SUBSET Thresholds
    BY DashboardAssumption DEF Init, Nothing, Figures
  <2>2. NoPage \in PageRecord
    BY DEF NoPage, NotRead, PageRecord, Outcome, Nothing, Figures
  <2>3. NoForm \in FormRecord
    BY DEF NoForm, FormRecord, Nothing, Figures
  <2>4. NoSave \in [pc : {"idle", "update", "delete", "insert"}, budget : Figures,
                     rows : SUBSET Rows, draft : SUBSET Thresholds]
    BY DEF NoSave, Nothing, Figures
  <2> QED
    BY <2>1, <2>2, <2>3, <2>4 DEF Init, Shape
<1>2. Whole
  BY DEF Init, Whole, NoPage, NoForm, NoSave, Sections
<1>3. Local
  BY DEF Init, Local, NoPage, Sections
<1> QED
  BY <1>1, <1>2, <1>3

\* What a statement of the save may do: nothing but go on.
LEMMA SaveGoesOn ==
    ASSUME Shape, Whole, Local, UNCHANGED <<database, form, page>>,
           save' \in [pc : {"idle", "update", "delete", "insert"}, budget : Figures,
                      rows : SUBSET Rows, draft : SUBSET Thresholds],
           form.pc \in {"prefs", "limits"} => save'.pc = "idle"
    PROVE  Shape' /\ Whole' /\ Local'
<1>1. budget' = budget /\ limits' = limits /\ saved' = saved /\ form' = form /\ page' = page
  BY DEF database
<1> QED
  BY <1>1 DEF Shape, Whole, Local

LEMMA SaveInv ==
    ASSUME Shape, Whole, Local,
           Submit \/ UpdateBudget \/ ClearLimits \/ InsertLimit \/ FailSave
    PROVE  Shape' /\ Whole' /\ Local'
<1> USE SaveGoesOn
<1>1. CASE Submit
  <2>1. PICK b \in Amounts, rows \in SUBSET Rows :
            save' = [pc |-> "update", budget |-> b, rows |-> rows, draft |-> limits]
    BY <1>1 DEF Submit
  <2> QED
    BY <1>1, <2>1, DashboardAssumption DEF Submit, LoopFree, Shape, Figures
<1>2. CASE UpdateBudget
  BY <1>2 DEF UpdateBudget, Shape, Whole
<1>3. CASE ClearLimits
  BY <1>3 DEF ClearLimits, Shape, Whole
<1>4. CASE InsertLimit
  <2>1. PICK row \in save.rows :
            save' = [save EXCEPT !.rows = @ \ {row},
                                 !.draft = IF row[1] = Blank THEN @ ELSE @ \cup {row}]
    BY <1>4 DEF InsertLimit
  <2> DEFINE rows == save.rows \ {row}
             draft == IF row[1] = Blank THEN save.draft ELSE save.draft \cup {row}
  <2>2. rows \in SUBSET Rows /\ draft \in SUBSET Thresholds
    <3>1. row \in Rows /\ save.draft \in SUBSET Thresholds /\ save.rows \in SUBSET Rows
      BY DEF Shape
    <3>2. row[1] # Blank => row \in Thresholds
      BY <3>1 DEF Rows, Thresholds
    <3> QED
      BY <3>1, <3>2
  <2>3. save' = [save EXCEPT !.rows = rows, !.draft = draft]
    BY <2>1
  <2> HIDE DEF rows, draft
  <2>4. save'.pc = save.pc /\ save' \in [pc : {"idle", "update", "delete", "insert"},
            budget : Figures, rows : SUBSET Rows, draft : SUBSET Thresholds]
    BY <2>2, <2>3 DEF Shape
  <2> QED
    BY <1>4, <2>4 DEF InsertLimit, Whole
<1>5. CASE FailSave
  <2>1. save' = NoSave
    BY <1>5 DEF FailSave
  <2> QED
    BY <1>5, <2>1 DEF FailSave, NoSave, Nothing, Figures
<1> QED
  BY <1>1, <1>2, <1>3, <1>4, <1>5

\* The commit replaces budget and limits together.
LEMMA CommitInv ==
    ASSUME Shape, Whole, Local, Commit
    PROVE  Shape' /\ Whole' /\ Local'
<1>1. /\ saved' = saved \cup {[budget |-> budget', limits |-> limits']}
      /\ form' = form /\ page' = page /\ save' = NoSave
      /\ budget' \in Figures /\ limits' = save.draft /\ save.pc = "insert"
  BY DEF Commit, Shape, Nothing
<1>2. Shape'
  BY <1>1 DEF Shape, NoSave, Nothing, Figures
<1>3. Whole'
  BY <1>1 DEF Whole, NoSave
<1>4. Local'
  BY <1>1 DEF Local
<1> QED
  BY <1>2, <1>3, <1>4

\* The two queries of the preferences page see one save, for none is served in
\* between.
LEMMA FormInv ==
    ASSUME Shape, Whole, Local, OpenForm \/ ReadForm \/ FailForm
    PROVE  Shape' /\ Whole' /\ Local'
<1>1. /\ budget' = budget /\ limits' = limits /\ saved' = saved
      /\ save' = save /\ page' = page
  BY DEF OpenForm, ReadForm, FailForm, database
<1>2. Local'
  BY <1>1 DEF Local
<1>3. CASE OpenForm \/ FailForm
  <2>1. /\ form' \in FormRecord /\ form'.pc \in {"none", "prefs"}
        /\ form'.pc = "prefs" => save.pc = "idle"
    BY <1>3 DEF OpenForm, FailForm, NoForm, FormRecord, LoopFree, Nothing, Figures
  <2> QED
    BY <1>1, <1>2, <2>1 DEF Shape, Whole
<1>4. CASE ReadForm /\ form.pc = "prefs"
  <2>1. form' = [form EXCEPT !.pc = "limits", !.budget = budget]
    BY <1>4 DEF ReadForm
  <2>2. form' \in FormRecord /\ form'.pc = "limits" /\ form'.budget = budget
    BY <2>1 DEF Shape, FormRecord
  <2> QED
    BY <1>1, <1>2, <1>4, <2>2 DEF Shape, Whole
<1>5. CASE ReadForm /\ form.pc = "limits"
  <2>1. form' = [form EXCEPT !.pc = "shown", !.limits = limits]
    BY <1>5 DEF ReadForm
  <2>2. /\ form' \in FormRecord /\ form'.pc = "shown"
        /\ form'.budget = budget /\ form'.limits = limits
    BY <1>5, <2>1 DEF Shape, FormRecord, Whole
  <2> QED
    BY <1>1, <1>2, <2>2 DEF Shape, Whole
<1> QED
  BY <1>3, <1>4, <1>5 DEF ReadForm

\* A page that changes, and nothing else.
LEMMA PageStep ==
    ASSUME Shape, Whole, Local, UNCHANGED <<database, save, form>>,
           page' \in PageRecord, Local',
           page'.pc \in {"render", "shown"} /\ "live" \notin page'.blank
              => page'.seen.limits \in {s.limits : s \in saved},
           page'.pc \in Sections => page'.seen.limits = {},
           page'.pc \in {"render", "shown"} =>
              \/ page'.seen.limits = {}
              \/ page'.seen.limits \in {s.limits : s \in saved} /\ page'.seen.live \in Costs
    PROVE  Shape' /\ Whole' /\ Local'
<1>1. /\ budget' = budget /\ limits' = limits /\ saved' = saved
      /\ save' = save /\ form' = form
  BY DEF database
<1> QED
  BY <1>1 DEF Shape, Whole

\* A section that fails: its query was refused, or is not answered any more, or
\* the comparison of the second has no target.
LEMMA RecoverInv ==
    ASSUME Shape, Whole, Local, UNCHANGED <<database, save, form>>,
           NEW p \in PageRecord, page' = Recovered(p), page.pc \in Sections,
           p.pc = page.pc, p.target = page.target, p.exceeded = page.exceeded,
           p.blank = page.blank, page.failed \subseteq p.failed, p.seen = page.seen,
           \/ p.pc \in p.failed /\ p.spent = page.spent
           \/ p.pc = "spending" /\ p.target = Nothing
    PROVE  Shape' /\ Whole' /\ Local'
<1>1. /\ page' \in PageRecord
      /\ page'.target = p.target /\ page'.spent = p.spent
      /\ page'.exceeded = p.exceeded /\ page'.failed = p.failed /\ page'.seen = p.seen
      /\ \/ page'.pc = "error"
         \/ /\ page'.pc = NextSection[p.pc]
            /\ page'.blank = p.blank \cup {p.pc}
            /\ page'.tx # "aborted" /\ (page'.tx = "closed" => p.pc = "live")
  BY RecoveredLocal
<1>2. CASE page'.pc = "error"
  <2>1. Local'
    BY <1>2 DEF Local, Sections
  <2> QED
    BY <1>1, <1>2, <2>1, PageStep DEF Sections
<1>3. CASE /\ page'.pc = NextSection[p.pc] /\ page'.blank = p.blank \cup {p.pc}
           /\ page'.tx # "aborted" /\ (page'.tx = "closed" => p.pc = "live")
  <2>1. page'.pc \in {"spending", "price", "devices", "live", "render"}
    BY <1>3 DEF NextSection, Sections
  <2>2. page'.pc \in Sections => page'.tx # "closed"
    BY <1>3 DEF NextSection, Sections
  <2>3. p.blank \subseteq page.failed \cup (IF p.target = Nothing THEN {"spending"} ELSE {})
    BY DEF Local, Sections
  <2>4. page'.blank \subseteq page'.failed \cup
            (IF page'.target = Nothing THEN {"spending"} ELSE {})
    BY <1>1, <1>3, <2>3
  <2>5. page'.pc \in {"price", "devices", "live", "render"} /\ "spending" \notin page'.blank
            => (page'.exceeded <=> page'.spent > page'.target)
    BY <1>1, <1>3 DEF Local, NextSection, Sections
  <2>6. Local'
    BY <1>3, <2>1, <2>2, <2>4, <2>5 DEF Local
  <2>7. page'.pc = "render" => "live" \in page'.blank
    BY <1>3 DEF NextSection, Sections
  <2>8. page'.seen.limits = {}
    BY <1>1 DEF Whole
  <2> QED
    BY <1>1, <2>1, <2>6, <2>7, <2>8, PageStep
<1> QED
  BY <1>1, <1>2, <1>3

\* The connection fails the page in one of three ways.
LEMMA FailureInv ==
    ASSUME Shape, Whole, Local, Refuse \/ Shun \/ LoseConnection
    PROVE  Shape' /\ Whole' /\ Local'
<1>1. CASE Refuse
  <2> DEFINE p == [page EXCEPT !.tx = "aborted", !.failed = @ \cup {page.pc}]
  <2>1. page' = Recovered(p) /\ page.pc \in Sections /\ UNCHANGED <<database, save, form>>
    BY <1>1 DEF Refuse
  <2>2. /\ p \in PageRecord /\ p.pc = page.pc /\ p.target = page.target
        /\ p.exceeded = page.exceeded /\ p.blank = page.blank /\ p.spent = page.spent
        /\ p.failed = page.failed \cup {page.pc} /\ p.seen = page.seen
    BY <2>1 DEF Shape, PageRecord
  <2> HIDE DEF p
  <2> QED
    BY <2>1, <2>2, RecoverInv
<1>2. CASE Shun
  <2>1. /\ page' = Recovered(page) /\ page.pc \in Sections /\ page \in PageRecord
        /\ page.pc \in page.failed /\ UNCHANGED <<database, save, form>>
    BY <1>2 DEF Shun, Shape, Local, PageRecord
  <2> QED
    BY <2>1, RecoverInv
<1>3. CASE LoseConnection
  <2>1. /\ page' = [page EXCEPT !.tx = "closed", !.failed = @ \cup {page.pc}]
        /\ page.pc \in Sections /\ UNCHANGED <<database, save, form>>
    BY <1>3 DEF LoseConnection
  <2>2. /\ page' \in PageRecord /\ page'.pc = page.pc /\ page'.tx = "closed"
        /\ page'.failed = page.failed \cup {page.pc} /\ page'.target = page.target
        /\ page'.exceeded = page.exceeded /\ page'.blank = page.blank
        /\ page'.spent = page.spent /\ page'.seen = page.seen
    BY <2>1 DEF Shape, PageRecord
  <2>3. Local'
    BY <2>1, <2>2 DEF Local, Sections
  <2>4. page'.pc \notin {"render", "shown"}
    BY <2>1, <2>2 DEF Sections
  <2>5. page'.seen.limits = {}
    BY <2>1, <2>2 DEF Whole
  <2> QED
    BY <2>1, <2>2, <2>3, <2>4, <2>5, PageStep
<1> QED
  BY <1>1, <1>2, <1>3

\* An answer takes the page to its next section.
LEMMA AnswerInv ==
    ASSUME Shape, Whole, Local, Answer
    PROVE  Shape' /\ Whole' /\ Local'
<1>1. page.pc \in Sections /\ page.tx = "open" /\ UNCHANGED <<database, save, form>>
  BY DEF Answer
<1>2. /\ budget \in Figures /\ limits \in SUBSET Thresholds /\ page \in PageRecord
      /\ \A sum \in Amounts : sum \in Figures
  BY DashboardAssumption DEF Shape, Figures
<1>3. CASE page.pc = "spending" /\ page.target = Nothing
  <2>1. PICK sum \in Amounts : page' = Recovered([page EXCEPT !.spent = sum])
    BY <1>3 DEF Answer
  <2> DEFINE p == [page EXCEPT !.spent = sum]
  <2>2. /\ p \in PageRecord /\ p.pc = page.pc /\ p.target = page.target
        /\ p.exceeded = page.exceeded /\ p.blank = page.blank /\ p.failed = page.failed
        /\ p.seen = page.seen
    BY <1>2 DEF PageRecord
  <2>3. page' = Recovered(p)
    BY <2>1
  <2> HIDE DEF p
  <2> QED
    BY <1>1, <1>3, <2>2, <2>3, RecoverInv
<1>4. CASE ~(page.pc = "spending" /\ page.target = Nothing)
  <2>1. PICK p \in Answered(page) : page' = [p EXCEPT !.pc = NextSection[p.pc]]
    BY <1>4, Zenon DEF Answer
  <2>2. /\ p \in PageRecord /\ p.pc = page.pc /\ p.tx = "open"
        /\ p.blank = page.blank /\ p.failed = page.failed
        /\ page.pc # "prefs" => p.target = page.target
        /\ page.pc = "spending" => (p.exceeded <=> p.spent > p.target)
        /\ page.pc # "spending" => p.exceeded = page.exceeded /\ p.spent = page.spent
        /\ page.pc = "live" => p.seen.limits = limits /\ p.seen.live \in Costs
        /\ page.pc # "live" => p.seen = page.seen
    <3>1. CASE page.pc = "prefs"
      <4>1. p = [page EXCEPT !.target = budget]
        BY <3>1 DEF Answered
      <4> QED
        BY <1>1, <1>2, <3>1, <4>1 DEF PageRecord
    <3>2. CASE page.pc = "spending"
      <4>1. PICK sum \in Amounts :
                p = [page EXCEPT !.spent = sum, !.exceeded = sum > page.target]
        BY <3>2 DEF Answered
      <4> DEFINE over == sum > page.target
      <4>2. over \in BOOLEAN
        <5>1. CASE sum > page.target
          BY <5>1, Zenon
        <5>2. CASE ~(sum > page.target)
          BY <5>2
        <5> QED
          BY <5>1, <5>2
      <4>3. p = [page EXCEPT !.spent = sum, !.exceeded = over]
        BY <4>1, Zenon
      <4> HIDE DEF over
      <4>4. /\ p \in PageRecord /\ p.pc = page.pc /\ p.tx = page.tx
            /\ p.blank = page.blank /\ p.failed = page.failed
            /\ p.target = page.target /\ p.spent = sum /\ p.exceeded = over
            /\ p.seen = page.seen
        BY <1>2, <4>2, <4>3 DEF PageRecord
      <4>5. p.exceeded <=> p.spent > p.target
        BY <4>4 DEF over
      <4> QED
        BY <1>1, <3>2, <4>4, <4>5
    <3>3. CASE page.pc = "live"
      <4>1. PICK live \in Costs : p = [page EXCEPT !.seen = [limits |-> limits, live |-> live]]
        BY <3>3 DEF Answered
      <4> QED
        BY <1>1, <1>2, <3>3, <4>1 DEF PageRecord
    <3>4. CASE page.pc \in {"price", "devices"}
      <4>1. p = page
        BY <3>4 DEF Answered
      <4> QED
        BY <1>1, <1>2, <3>4, <4>1
    <3> QED
      BY <1>1, <3>1, <3>2, <3>3, <3>4 DEF Sections
  <2>3. /\ page' \in PageRecord /\ page'.pc = NextSection[page.pc] /\ page'.tx = "open"
        /\ page'.blank = p.blank /\ page'.failed = p.failed /\ page'.target = p.target
        /\ page'.spent = p.spent /\ page'.exceeded = p.exceeded /\ page'.seen = p.seen
    <3>1. NextSection[page.pc] \in Outcome
      BY <1>1 DEF NextSection, Sections, Outcome
    <3> QED
      BY <2>1, <2>2, <3>1 DEF PageRecord
  <2>4. page'.pc \in {"spending", "price", "devices", "live", "render"}
    BY <1>1, <2>3 DEF NextSection, Sections
  <2>5. page.blank \subseteq page.failed \cup
            (IF page'.target = Nothing THEN {"spending"} ELSE {})
    <3>1. CASE page.pc = "prefs"
      BY <3>1 DEF Local
    <3>2. CASE page.pc # "prefs"
      BY <1>1, <2>2, <2>3, <3>2 DEF Local, Sections
    <3> QED
      BY <3>1, <3>2
  <2>6. Local'
    BY <1>1, <2>2, <2>3, <2>4, <2>5 DEF Local, NextSection, Sections
  <2>7. page'.pc = "render" => /\ page'.seen.limits \in {s.limits : s \in saved}
                               /\ page'.seen.live \in Costs
    BY <1>1, <2>2, <2>3 DEF NextSection, Sections, Whole
  <2>8. page'.pc \in Sections => page'.seen.limits = {}
    BY <1>1, <2>2, <2>3 DEF NextSection, Sections, Whole
  <2> QED
    BY <1>1, <2>3, <2>4, <2>6, <2>7, <2>8, PageStep
<1> QED
  BY <1>3, <1>4

LEMMA OpenAndRenderInv ==
    ASSUME Shape, Whole, Local, OpenPage \/ Render
    PROVE  Shape' /\ Whole' /\ Local'
<1>1. CASE OpenPage
  <2>1. page' = [NoPage EXCEPT !.pc = "prefs"] /\ UNCHANGED <<database, save, form>>
    BY <1>1 DEF OpenPage
  <2>2. /\ page' \in PageRecord /\ page'.pc = "prefs" /\ page'.tx = "open"
        /\ page'.blank = {} /\ page'.seen.limits = {}
    <3>1. /\ NoPage \in PageRecord /\ NoPage.tx = "open" /\ NoPage.blank = {}
          /\ NoPage.seen.limits = {}
      BY DEF NoPage, NotRead, PageRecord, Outcome, Nothing, Figures
    <3> QED
      BY <2>1, <3>1 DEF PageRecord, Outcome, Sections
  <2>3. Local'
    BY <2>2 DEF Local
  <2> QED
    BY <2>1, <2>2, <2>3, PageStep
<1>2. CASE Render
  <2> DEFINE next == IF page.target = Nothing THEN "error" ELSE "shown"
  <2>1. /\ page.pc = "render" /\ page' = [page EXCEPT !.pc = next]
        /\ UNCHANGED <<database, save, form>>
    BY <1>2 DEF Render
  <2>2. /\ page' \in PageRecord /\ page'.pc = next /\ page'.blank = page.blank
        /\ page'.failed = page.failed /\ page'.target = page.target
        /\ page'.spent = page.spent /\ page'.exceeded = page.exceeded
        /\ page'.seen = page.seen
    BY <2>1 DEF Shape, PageRecord, Outcome
  <2>3. Local'
    BY <2>1, <2>2 DEF Local, Sections
  <2>4. page'.pc \in {"render", "shown"} /\ "live" \notin page'.blank
            => page'.seen.limits \in {s.limits : s \in saved}
    BY <2>1, <2>2 DEF Whole
  <2>5. \/ page'.seen.limits = {}
        \/ page'.seen.limits \in {s.limits : s \in saved} /\ page'.seen.live \in Costs
    BY <2>1, <2>2 DEF Whole
  <2>6. page'.pc \notin Sections
    BY <2>2 DEF Sections
  <2> QED
    BY <2>1, <2>2, <2>3, <2>4, <2>5, <2>6, PageStep
<1> QED
  BY <1>1, <1>2

\* Every step of the handlers preserves what the two results rest on.
LEMMA NextInv == Shape /\ Whole /\ Local /\ [Next]_vars => Shape' /\ Whole' /\ Local'
<1> SUFFICES ASSUME Shape, Whole, Local, [Next]_vars PROVE Shape' /\ Whole' /\ Local'
  OBVIOUS
<1>1. CASE Submit \/ UpdateBudget \/ ClearLimits \/ InsertLimit \/ FailSave
  BY <1>1, SaveInv
<1>2. CASE Commit
  BY <1>2, CommitInv
<1>3. CASE OpenForm \/ ReadForm \/ FailForm
  BY <1>3, FormInv
<1>4. CASE OpenPage \/ Render
  BY <1>4, OpenAndRenderInv
<1>5. CASE Answer
  BY <1>5, AnswerInv
<1>6. CASE Refuse \/ Shun \/ LoseConnection
  BY <1>6, FailureInv
<1>7. CASE UNCHANGED vars
  BY <1>7 DEF vars, Shape, Whole, Local
<1> QED
  BY <1>1, <1>2, <1>3, <1>4, <1>5, <1>6, <1>7 DEF Next

\* The bounds of the exploration count from nothing.
Counted == saves \in Nat /\ visits \in Nat /\ failures \in Nat

LEMMA NextCounted == Counted /\ [Next]_vars => Counted'
<1> SUFFICES ASSUME Counted, [Next]_vars PROVE Counted'
  OBVIOUS
<1>1. \A n \in Nat : n + 1 \in Nat
  OBVIOUS
<1>2. saves' \in {saves, saves + 1}
  BY DEF Next, vars, Submit, UpdateBudget, ClearLimits, InsertLimit, Commit, FailSave,
         OpenForm, ReadForm, FailForm, OpenPage, Answer, Refuse, Shun, LoseConnection,
         Render
<1>3. visits' \in {visits, visits + 1}
  BY DEF Next, vars, Submit, UpdateBudget, ClearLimits, InsertLimit, Commit, FailSave,
         OpenForm, ReadForm, FailForm, OpenPage, Answer, Refuse, Shun, LoseConnection,
         Render, Visits
<1>4. failures' \in {failures, failures + 1}
  BY DEF Next, vars, Submit, UpdateBudget, ClearLimits, InsertLimit, Commit, FailSave,
         OpenForm, ReadForm, FailForm, OpenPage, Answer, Refuse, Shun, LoseConnection,
         Render, Fails
<1> QED
  BY <1>1, <1>2, <1>3, <1>4 DEF Counted

\* Every variable keeps its type: in particular no threshold with a blank name,
\* which would match every device, gets past the form into the table.
THEOREM DashboardTypeCorrect == Spec => []TypeOK
<1>1. Init => Counted
  BY DEF Init, Counted
<1>2. Shape /\ Counted => TypeOK
  <2> SUFFICES ASSUME Shape, Counted PROVE TypeOK
    OBVIOUS
  <2>1. /\ budget \in Amounts \cup {Nothing} /\ limits \subseteq Thresholds
        /\ save.pc \in {"idle", "update", "delete", "insert"}
        /\ save.budget \in Amounts \cup {Nothing}
        /\ save.rows \subseteq Rows /\ save.draft \subseteq Thresholds
    BY DEF Shape, Figures
  <2>2. /\ form.pc \in {"none", "prefs", "limits", "shown"}
        /\ form.budget \in Amounts \cup {Nothing} /\ form.limits \subseteq Thresholds
    BY DEF Shape, FormRecord, Figures
  <2>3. /\ page.pc \in Sections \cup {"none", "render", "shown", "error"}
        /\ page.tx \in {"open", "aborted", "closed"}
        /\ page.target \in Amounts \cup {Nothing}
        /\ page.spent \in Amounts \cup {Nothing} /\ page.exceeded \in BOOLEAN
        /\ page.blank \subseteq Sections /\ page.failed \subseteq Sections
        /\ page.seen.limits \subseteq Thresholds
        /\ page.seen.live \in Costs \cup {<<>>}
    BY DEF Shape, PageRecord, Outcome, Figures
  <2> QED
    BY <2>1, <2>2, <2>3, Zenon DEF TypeOK, Counted
<1> QED
  BY <1>1, <1>2, InitInv, NextInv, NextCounted, PTL DEF Spec

\* Nobody is shown a save half done: not the tables, not the preferences page,
\* not the limits on the dashboard, however many saves fail.
THEOREM SavesSeenWhole == Spec => []SavesAreWhole
<1>1. Whole => SavesAreWhole
  BY DEF Whole, SavesAreWhole
<1> QED
  BY <1>1, InitInv, NextInv, PTL DEF Spec

\* However many queries fail, a page that is shown lacks only their sections.
THEOREM PageFailuresLocal == Spec => []FailuresStayLocal
<1>1. Local => FailuresStayLocal
  BY DEF Local, FailuresStayLocal
<1> QED
  BY <1>1, InitInv, NextInv, PTL DEF Spec

\* The limit shown for a type is the greatest of those that match it.
LEMMA LimitShownIsMatch ==
    ASSUME NEW top \in Nat, \A a \in Amounts : a <= top,
           NEW rows \in SUBSET Thresholds, NEW t \in Types, LimitsFor(rows, t) # {}
    PROVE  /\ LimitShown(rows, t) \in Nat /\ LimitsFor(rows, t) \subseteq Nat
           /\ \A n \in LimitsFor(rows, t) : n <= LimitShown(rows, t)
<1> DEFINE L == LimitsFor(rows, t)
<1>1. L \subseteq Amounts /\ L # {}
  BY DEF LimitsFor, Thresholds
<1>2. L \subseteq Nat /\ \A n \in L : n <= top
  BY <1>1, DashboardAssumption
<1>3. LimitShown(rows, t) = CHOOSE m \in L : \A n \in L : m >= n
  BY <1>1 DEF LimitShown
<1> HIDE DEF L
<1>4. \E m \in L : \A n \in L : n <= m
  BY <1>1, <1>2, GreatestNatural
<1>5. \E m \in L : \A n \in L : m >= n
  BY <1>2, <1>4
<1>6. LimitShown(rows, t) \in L /\ \A n \in L : LimitShown(rows, t) >= n
  BY <1>3, <1>5
<1> QED
  BY <1>2, <1>6 DEF L

\* It is no smaller than any limit set for the type itself.
LEMMA LimitShownIsGreatest ==
    ASSUME NEW top \in Nat, \A a \in Amounts : a <= top,
           NEW rows \in SUBSET Thresholds, NEW t \in Types, NEW row \in rows,
           row[1] = t
    PROVE  row[2] \in Nat /\ row[2] <= LimitShown(rows, t)
<1>1. row[2] \in LimitsFor(rows, t)
  <2>1. row[1] \in Names
    BY DEF Thresholds
  <2>2. <<row[1], t>> \in Alike
    BY <2>1, DashboardAssumption
  <2> QED
    BY <2>2 DEF LimitsFor
<1> QED
  BY <1>1, LimitShownIsMatch

\* A type is red only when it has cost more than every limit set for it in one
\* save, whatever else matches its name; a DECIMAL column bounds the amounts.
THEOREM AlarmRaisedJustly ==
    (\E top \in Nat : \A a \in Amounts : a <= top) => (Spec => []AlarmIsJust)
<1> SUFFICES ASSUME NEW top \in Nat, \A a \in Amounts : a <= top
             PROVE  Spec => []AlarmIsJust
  OBVIOUS
<1>1. Shape /\ Whole => AlarmIsJust
  <2> SUFFICES ASSUME Shape, Whole, page.pc = "shown", NEW t \in Types, Flagged(t)
               PROVE  \E s \in saved :
                        /\ s.limits = page.seen.limits
                        /\ \A row \in s.limits : row[1] = t => page.seen.live[t] > row[2]
    BY DEF AlarmIsJust
  <2> DEFINE rows == page.seen.limits
             limit == LimitShown(rows, t)
             cost == page.seen.live[t]
  <2>1. limit # Nothing /\ cost > limit
    BY DEF Flagged
  <2>2. LimitsFor(rows, t) # {}
    BY <2>1 DEF LimitShown
  <2>3. rows # {}
    BY <2>2 DEF LimitsFor
  <2>4. PICK s \in saved : s.limits = rows
    BY <2>3 DEF Whole
  <2>5. rows \in SUBSET Thresholds
    BY DEF Shape, PageRecord
  <2>6. cost \in Nat
    BY <2>3, DashboardAssumption DEF Whole, Costs
  <2>7. limit \in Nat
    BY <2>2, <2>5, LimitShownIsMatch
  <2> HIDE DEF rows, limit, cost
  <2>8. ASSUME NEW row \in rows, row[1] = t PROVE cost > row[2]
    <3>1. row[2] <= limit /\ row[2] \in Nat
      BY <2>5, <2>8, LimitShownIsGreatest DEF limit
    <3> QED
      BY <2>1, <2>6, <2>7, <3>1
  <2> QED
    BY <2>4, <2>8 DEF rows, cost
<1> QED
  BY <1>1, InitInv, NextInv, PTL DEF Spec
=============================================================================
