----------------------------- MODULE WorkerTools -----------------------------
(***************************************************************************)
(* The workers of a company in their loop, with the tools they share       *)
(* (WorkerLoop), and the public sites their deploys replace (Sites), one   *)
(* per slug; some slugs are names of the control plane. The parts share no *)
(* state: a behaviour is of the loop or of the site of one slug.           *)
(***************************************************************************)
EXTENDS WorkerLoop

CONSTANTS
  Slugs, ControlPlanes,    \* the sites, and those with a name of the control plane
  Visitors, Submitted, MaxDeploys,   \* Sites', for all of them
  Faults                   \* per slug: the bound on what fails

VARIABLES part, root, page, css, job, caller, visitor, deploys, past
siteVars == <<root, page, css, job, caller, visitor, deploys, past>>
All == <<part, loopVars, siteVars>>

Site(slug) == INSTANCE Sites WITH
  ControlPlane <- slug \in ControlPlanes, MaxFaults <- Faults[slug], worker <- caller, events <- deploys, story <- past

ASSUME WorkerToolsAssumption ==
  Slugs # {} /\ "work" \notin Slugs /\ \A slug \in Slugs : Site(slug)!SitesAssumption

Working(A) == part = "work" /\ A /\ UNCHANGED <<part, siteVars>>
Serving(slug, A) == part = slug /\ A /\ UNCHANGED <<part, loopVars>>

InitParts == part \in {"work"} \cup Slugs /\ LoopInit /\ \A slug \in Slugs : Site(slug)!Init
NextPart == Working(LoopNext) \/ \E slug \in Slugs : Serving(slug, Site(slug)!Next)
Parts == InitParts /\ [][NextPart]_All
FairParts ==
  /\ Parts
  /\ \A w \in Workers : WF_All(Working(Loop(w))) /\ WF_All(Working(Handle(w)))

\* WorkerLoop's property, of its part: every worker's loop ends.
LoopsEnd == part = "work" => WorkersEnd
\* Sites' properties, of its parts: whole, styled pages, and whoever asks or reads is told so.
SiteKept == \A slug \in Slugs : part = slug => Site(slug)!SiteKept
=============================================================================
