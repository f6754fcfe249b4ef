------------------------------ MODULE Publication ------------------------------
(* What a run publishes: the dashboards of its generations (DashboardDelta)  *)
(* and its final report (FinalReport), which share no file: a behaviour      *)
(* tells one of two stories, of a dashboard or of a report.                  *)
EXTENDS DashboardDelta

CONSTANTS Verdicts, Tokens, MaxArt, MaxMishaps
VARIABLES product, reporting, role, mishaps, story

Report == INSTANCE FinalReport
reportVars == <<product, reporting, role, mishaps>>

\* A report is only ever there for a product that was accepted (FinalReport).
ReportIsVouched == Report!ReportIsVouched

\* The report of an authorized product is published in the end, but for named
\* states (FinalReport).
ReportSettles == Report!ReportSettles

\* A coordinator is lost only where nothing else goes wrong.
LostAlone == \A x \in Procs : role'[x].orphan => mishaps' = 1

Dashboards(A) == story = "dashboard" /\ A /\ UNCHANGED <<reportVars, story>>
Reports(A) == story = "report" /\ A /\ UNCHANGED <<vars, story>>

PublicationInit == Init /\ Report!Init /\ story \in {"dashboard", "report"}

PublicationSpec ==
  /\ PublicationInit
  /\ [][Dashboards(Next) \/ Reports(Report!Next /\ LostAlone)]_<<vars, reportVars, story>>
  /\ \A x \in Procs :
       WF_<<vars, reportVars>>(Dashboards(Step(x)) \/ Reports(Report!Proceed(x)))
  /\ SF_vars(Dashboards(\E x \in Procs : Begin(x, MaxPlan)))
  /\ WF_reportVars(Reports(\E x \in Procs : Report!Dispatch(x)))
=============================================================================
