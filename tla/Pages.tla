-------------------------------- MODULE Pages --------------------------------
(***************************************************************************)
(* The playground and the page behind the link it shows.                   *)
(*                                                                         *)
(* The two pages share nothing but the record of the run.  A link is opened *)
(* on the first run, once its socket is closed, and the playground is left *)
(* then: what it does later has no part in the replay.                     *)
(***************************************************************************)
EXTENDS Playground, Permalink

CONSTANTS
    LatestTime, \* the latest recorded time
    SetBack     \* by how much the clock of the host may be set back

pagesVars == <<playVars, linkVars>>

PagesInit == PlayInit /\ LinkInit

Play == page = "none" /\ PlayNext /\ UNCHANGED linkVars

OpenLink ==
    /\ clicked = 1 /\ result = 1 /\ stage[1] = "closed"
    /\ Open
    /\ UNCHANGED playVars

Times(n) == [1..n -> (0 - SetBack)..LatestTime]

\* GET /r/:id/data, as the run was saved.  The samples of a run that the page
\* did not see are not known.
Saved ==
    {Record(c, s, outcome[1].buffered) :
        c \in Times(outcome[1].chunks), s \in Times(Len(statSamples))}

Replay == LinkNext(Saved) /\ UNCHANGED playVars

PagesNext == Play \/ OpenLink \/ Replay

PagesSpec == PagesInit /\ [][PagesNext]_pagesVars

\* One type invariant for both pages.
PagesTypeOK == PlayTypeOK /\ LinkTypeOK
=============================================================================
