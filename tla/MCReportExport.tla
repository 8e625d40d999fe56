----------------------------- MODULE MCReportExport ---------------------------
(***************************************************************************)
(* Instances of ReportFigures and FocusRows for TLC: what a report says,   *)
(* and what is exported of it.  They have no variable in common, and one   *)
(* run looks at one, and then at the other: which is in `subject`, and the *)
(* other one stands still.                                                 *)
(***************************************************************************)
EXTENDS MCReportFigures, FocusRows

VARIABLE subject

\* What the pods of m1 and m2 in ns1 and of m1 in ns2 have counted; -1: there is no pod.
Counted(m1ns1, m2ns1, m1ns2) ==
    [w \in Workload |->
        CASE w.model = m1 /\ w.namespace = ns1 -> m1ns1
          [] w.model = m2 /\ w.namespace = ns1 -> m2ns1
          [] w.model = m1 /\ w.namespace = ns2 -> m1ns2
          [] OTHER -> NotScraped]
Scrape(in, out) == [input |-> in, output |-> out]

\* No pod; pods that have served nothing; thirds of three tokens; the same three tokens,
\* in and out, elsewhere; a namespace that is gone; and more traffic.
SixScrapes ==
    {Scrape(NoCounts, NoCounts),
     Scrape(Counted(0, 0, 0), Counted(0, 0, 0)),
     Scrape(Counted(1, 1, 0), Counted(0, 0, 1)),
     Scrape(Counted(0, 0, 2), Counted(1, 0, 0)),
     Scrape(Counted(2, 0, -1), Counted(0, 1, -1)),
     Scrape(Counted(1, 3, 2), Counted(0, 1, 0))}

-----------------------------------------------------------------------------
StandingFigures == Init /\ watts = CHOOSE w \in Watts : TRUE
StandingExport == ExportInit /\ counters = Scrape(NoCounts, NoCounts) /\ now = 1

\* No behaviour that looks at figures is fair to the export: what must come to be is
\* asked of those that look at the export alone.
FiguresThenExport ==
    /\ \/ subject = "figures" /\ Init /\ StandingExport
       \/ subject = "export" /\ ExportInit /\ StandingFigures
    /\ [][/\ UNCHANGED subject
          /\ \/ subject = "figures" /\ Next /\ UNCHANGED exportVars
             \/ subject = "export" /\ ExportNext /\ UNCHANGED vars
         ]_<<subject, vars, exportVars>>
    /\ ExportFairness
=============================================================================
