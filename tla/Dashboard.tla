----------------------------- MODULE Dashboard ------------------------------
(***************************************************************************)
(* The pages of the dashboard and the preferences they show:               *)
(* dashboard/routers/preferences.py, which replaces budget and limits in   *)
(* one transaction, and get_dashboard_page of analytics.py, which runs     *)
(* five queries on one connection, each in a try of its own.               *)
(*                                                                         *)
(* The preferences handlers are coroutines that never await: the event     *)
(* loop runs one at a time.  The dashboard page is a plain function, run   *)
(* by a pool thread beside them.                                           *)
(***************************************************************************)
EXTENDS Integers, FiniteSets

CONSTANTS
    Types,          \* device types
    Names,          \* names a threshold may carry in a form
    Blank,          \* an empty name
    Alike,          \* pairs of a name and a type, one containing the other
    Amounts,        \* budgets, month's costs and limits, in YER
    MaxSaves,       \* bound: forms submitted
    MaxVisits,      \* bound: pages opened
    MaxFailures     \* bound: statements refused and connections lost

ASSUME DashboardAssumption ==
    /\ Alike \subseteq Names \X Types /\ \A t \in Types \cap Names : <<t, t>> \in Alike
    /\ Blank \notin Types
    /\ Amounts \subseteq Nat \ {0}
    /\ MaxSaves \in Nat /\ MaxVisits \in Nat /\ MaxFailures \in Nat

VARIABLES
    budget,     \* user_preferences, row 1
    limits,     \* device_thresholds: pairs of a name and an amount
    save,       \* the POST of the preferences that is being served
    form,       \* the preferences page that is being made, or was last made
    page,       \* the dashboard page likewise
    saved,      \* history: budgets and limits as committed
    saves, visits, failures

vars == <<budget, limits, save, form, page, saved, saves, visits, failures>>

-----------------------------------------------------------------------------

Nothing == 0        \* no row, no value, a name that was never bound
Sections == {"prefs", "spending", "price", "devices", "live"}
NextSection == [prefs |-> "spending", spending |-> "price", price |-> "devices",
                devices |-> "live", live |-> "render"]

Rows == Names \X Amounts                   \* what a form may hold
Thresholds == (Names \ {Blank}) \X Amounts \* what the table may hold
Costs == [Types -> Amounts]      \* of the types with a row in the newest windows
NotRead == [limits |-> {}, live |-> <<>>]

NoSave == [pc |-> "idle", budget |-> Nothing, rows |-> {}, draft |-> {}]
NoForm == [pc |-> "none", budget |-> Nothing, limits |-> {}]
NoPage == [pc |-> "none", tx |-> "open", target |-> Nothing, spent |-> Nothing,
           exceeded |-> FALSE, blank |-> {}, failed |-> {}, seen |-> NotRead]

\* Every variable has its type; no threshold with a blank name, which would
\* match every device, is ever stored (preferences.py:64).
TypeOK ==
    /\ budget \in Amounts \cup {Nothing}
    /\ limits \subseteq Thresholds
    /\ save.pc \in {"idle", "update", "delete", "insert"}
    /\ save.budget \in Amounts \cup {Nothing}
    /\ save.rows \subseteq Rows /\ save.draft \subseteq Thresholds
    /\ form.pc \in {"none", "prefs", "limits", "shown"}
    /\ form.budget \in Amounts \cup {Nothing} /\ form.limits \subseteq Thresholds
    /\ page.pc \in Sections \cup {"none", "render", "shown", "error"}
    /\ page.tx \in {"open", "aborted", "closed"}
    /\ page.target \in Amounts \cup {Nothing} /\ page.spent \in Amounts \cup {Nothing}
    /\ page.exceeded \in BOOLEAN
    /\ page.blank \subseteq Sections /\ page.failed \subseteq Sections
    /\ page.seen.limits \subseteq Thresholds /\ page.seen.live \in Costs \cup {<<>>}
    /\ saves \in Nat /\ visits \in Nat /\ failures \in Nat

Init ==
    /\ budget \in Amounts \cup {Nothing}
    /\ limits \in {{}} \cup {{row} : row \in Thresholds}
    /\ save = NoSave /\ form = NoForm /\ page = NoPage
    /\ saved = {[budget |-> budget, limits |-> limits]}
    /\ saves = 0 /\ visits = 0 /\ failures = 0

database == <<budget, limits, saved>>

\* One more of the failures the bound allows.
Fails == failures < MaxFailures /\ failures' = failures + 1

Visits == visits < MaxVisits /\ visits' = visits + 1

LoopFree == save.pc = "idle" /\ form.pc \in {"none", "shown"}

-----------------------------------------------------------------------------
(* update_preferences                                                      *)

\* A form carries a budget and a limit for up to two names, one maybe blank.
Submit ==
    /\ LoopFree /\ saves < MaxSaves /\ saves' = saves + 1
    /\ \E b \in Amounts, rows \in SUBSET Rows :
          /\ Cardinality(rows) <= 2
          /\ save' = [pc |-> "update", budget |-> b, rows |-> rows, draft |-> limits]
    /\ UNCHANGED <<database, form, page, visits, failures>>

\* The update finds the row or changes nothing; nothing is visible yet.
UpdateBudget ==
    /\ save.pc = "update" /\ save' = [save EXCEPT !.pc = "delete"]
    /\ UNCHANGED <<database, form, page, saves, visits, failures>>

ClearLimits ==
    /\ save.pc = "delete" /\ save' = [save EXCEPT !.pc = "insert", !.draft = {}]
    /\ UNCHANGED <<database, form, page, saves, visits, failures>>

\* Mutant of InsertLimit: blank names are stored too.
InsertAnyLimit ==
    /\ save.pc = "insert"
    /\ \E row \in save.rows :
          save' = [save EXCEPT !.rows = @ \ {row}, !.draft = @ \cup {row}]
    /\ UNCHANGED <<database, form, page, saves, visits, failures>>

InsertLimit ==
    /\ save.pc = "insert"
    /\ \E row \in save.rows :
          save' = [save EXCEPT !.rows = @ \ {row},
                               !.draft = IF row[1] = Blank THEN @ ELSE @ \cup {row}]
    /\ UNCHANGED <<database, form, page, saves, visits, failures>>

Commit ==
    /\ save.pc = "insert" /\ save.rows = {}
    /\ budget' = IF budget = Nothing THEN Nothing ELSE save.budget
    /\ limits' = save.draft
    /\ saved' = saved \cup {[budget |-> budget', limits |-> limits']}
    /\ save' = NoSave
    /\ UNCHANGED <<form, page, saves, visits, failures>>

\* A statement or the process fails: the transaction is rolled back.
FailSave ==
    /\ save.pc # "idle" /\ Fails
    /\ save' = NoSave
    /\ UNCHANGED <<database, form, page, saves, visits>>

-----------------------------------------------------------------------------
(* get_preferences                                                         *)

\* Mutant of OpenForm: the handler is run by a pool thread.
OpenFormInThread ==
    /\ Visits
    /\ form.pc \in {"none", "shown"}
    /\ form' = [NoForm EXCEPT !.pc = "prefs"]
    /\ UNCHANGED <<database, save, page, saves, failures>>

OpenForm ==
    /\ Visits
    /\ LoopFree
    /\ form' = [NoForm EXCEPT !.pc = "prefs"]
    /\ UNCHANGED <<database, save, page, saves, failures>>

ReadForm ==
    /\ \/ form.pc = "prefs"  /\ form' = [form EXCEPT !.pc = "limits", !.budget = budget]
       \/ form.pc = "limits" /\ form' = [form EXCEPT !.pc = "shown", !.limits = limits]
    /\ UNCHANGED <<database, save, page, saves, visits, failures>>

\* There is no try: the request ends in an error.
FailForm ==
    /\ form.pc \in {"prefs", "limits"} /\ Fails
    /\ form' = NoForm
    /\ UNCHANGED <<database, save, page, saves, visits>>

-----------------------------------------------------------------------------
(* get_dashboard_page                                                      *)

OpenPage ==
    /\ Visits
    /\ page.pc \in {"none", "shown", "error"}
    /\ page' = [NoPage EXCEPT !.pc = "prefs"]
    /\ UNCHANGED <<database, save, form, saves, failures>>

\* The except clause prints and rolls back; on a connection that is gone
\* that raises, and only the last section is within a second try.
\* Mutant of Recovered: the transaction is left as it is.
LeftAborted(p) ==
    IF p.tx = "closed" /\ p.pc # "live" THEN [p EXCEPT !.pc = "error"]
    ELSE [p EXCEPT !.pc = NextSection[p.pc], !.blank = @ \cup {p.pc}]

Recovered(p) ==
    IF p.tx = "closed" /\ p.pc # "live" THEN [p EXCEPT !.pc = "error"]
    ELSE [p EXCEPT !.pc = NextSection[p.pc], !.blank = @ \cup {p.pc},
                   !.tx = IF p.tx = "aborted" THEN "open" ELSE p.tx]

\* What each section does with the answer to its query.  Warehouse and stream
\* write their tables meanwhile: a query over them may find any figure.  With no
\* target the comparison raises a NameError after the sum was stored.
Answered(p) ==
    CASE p.pc = "prefs"    -> {[p EXCEPT !.target = budget]}
      [] p.pc = "spending" -> {[p EXCEPT !.spent = sum, !.exceeded = sum > p.target] :
                                  sum \in Amounts}
      [] p.pc = "live"     -> {[p EXCEPT !.seen = [limits |-> limits, live |-> live]] :
                                  live \in Costs}
      [] OTHER             -> {p}

Answer ==
    /\ page.pc \in Sections /\ page.tx = "open"
    /\ IF page.pc = "spending" /\ page.target = Nothing
       THEN \E sum \in Amounts : page' = Recovered([page EXCEPT !.spent = sum])
       ELSE \E p \in Answered(page) : page' = [p EXCEPT !.pc = NextSection[p.pc]]
    /\ UNCHANGED <<database, save, form, saves, visits, failures>>

\* The server refuses the query itself.
Refuse ==
    /\ page.pc \in Sections /\ page.tx = "open" /\ Fails
    /\ page' = Recovered([page EXCEPT !.tx = "aborted", !.failed = @ \cup {page.pc}])
    /\ UNCHANGED <<database, save, form, saves, visits>>

\* A statement in an aborted transaction, or on a connection that is gone.
Shun ==
    /\ page.pc \in Sections /\ page.tx # "open"
    /\ page' = Recovered(page)
    /\ UNCHANGED <<database, save, form, saves, visits, failures>>

LoseConnection ==
    /\ page.pc \in Sections /\ page.tx = "open" /\ Fails
    /\ page' = [page EXCEPT !.tx = "closed", !.failed = @ \cup {page.pc}]
    /\ UNCHANGED <<database, save, form, saves, visits>>

\* The context of the template names the target.
Render ==
    /\ page.pc = "render"
    /\ page' = [page EXCEPT !.pc = IF page.target = Nothing THEN "error" ELSE "shown"]
    /\ UNCHANGED <<database, save, form, saves, visits, failures>>

-----------------------------------------------------------------------------

Next ==
    \/ Submit \/ UpdateBudget \/ ClearLimits \/ InsertLimit \/ Commit \/ FailSave
    \/ OpenForm \/ ReadForm \/ FailForm
    \/ OpenPage \/ Answer \/ Refuse \/ Shun \/ LoseConnection \/ Render

Spec == Init /\ [][Next]_vars

-----------------------------------------------------------------------------
(* get_violated_devices, and what the template makes of it                 *)

LimitsFor(rows, t) == {row[2] : row \in {r \in rows : <<r[1], t>> \in Alike}}

\* Mutant of LimitShown: the smallest limit is shown.
SmallestLimitShown(rows, t) ==
    IF LimitsFor(rows, t) = {} THEN Nothing
    ELSE CHOOSE m \in LimitsFor(rows, t) : \A n \in LimitsFor(rows, t) : m <= n

LimitShown(rows, t) ==
    IF LimitsFor(rows, t) = {} THEN Nothing
    ELSE CHOOSE m \in LimitsFor(rows, t) : \A n \in LimitsFor(rows, t) : m >= n

\* The row of a type is red: it has a limit and costs more.
Flagged(t) ==
    LET limit == LimitShown(page.seen.limits, t)
    IN  limit # Nothing /\ page.seen.live[t] > limit

-----------------------------------------------------------------------------
(* Correctness                                                             *)

\* A page that is shown lacks no section but those whose own query failed, and
\* its banner compares the two sums on the page: a failure in one of the five
\* sections does not reach the next through the shared transaction
\* (analytics.py:57-114, the rollback of every except clause).
FailuresStayLocal ==
    page.pc = "shown" =>
        /\ page.blank \subseteq page.failed
        /\ "spending" \notin page.blank => (page.exceeded <=> page.spent > page.target)

\* Budget and limits are those of one submitted form, in the tables, on the
\* preferences page made by two queries, and the limits on the dashboard page:
\* nobody sees the deleted limits before the new ones are in
\* (preferences.py:54-69 and 20-25, analytics.py:24-38).
SavesAreWhole ==
    /\ [budget |-> budget, limits |-> limits] \in saved
    /\ form.pc = "shown" => [budget |-> form.budget, limits |-> form.limits] \in saved
    /\ page.pc = "shown" /\ "live" \notin page.blank
          => page.seen.limits \in {s.limits : s \in saved}

\* A type shown in red has cost more than every limit its owner set for it,
\* also while the form is being saved and when limits of other devices match
\* its name too (analytics.py:27-34, index.html:221-230).
AlarmIsJust ==
    page.pc = "shown" =>
        \A t \in Types : Flagged(t) =>
            \E s \in saved :
                /\ s.limits = page.seen.limits
                /\ \A row \in s.limits : row[1] = t => page.seen.live[t] > row[2]
=============================================================================
