-------------------------------- MODULE Sites --------------------------------
(***************************************************************************)
(* One company's public site: deployd writes it file by file, for the      *)
(* founding's landing page and for the workers' deploy_site; workers ask   *)
(* whether it is live and read it to edit it; visitors load it.            *)
(*                                                                         *)
(* A step opens or renames one file, or answers one request. What a page   *)
(* says is the deploy it comes from; of its markup only the link to the    *)
(* house stylesheet counts. What two deploys make of one temporary file is *)
(* any of what their writes can leave (module Founding follows the file    *)
(* descriptors).                                                           *)
(***************************************************************************)
EXTENDS Integers, Sequences

CONSTANTS
  Workers, Visitors,
  Submitted,        \* what a worker may submit: paths in order, "bad" one that escapes the root
  ControlPlane,     \* the slug is "api", "gw" or "llm"
  MaxDeploys, MaxFaults  \* bounds of the model

Landing == "landing"
Paths == {"index", "other", "bad"}
SitesAssumption ==
  /\ Landing \notin Workers /\ Submitted \subseteq Seq(Paths)
  /\ ControlPlane \in BOOLEAN /\ MaxDeploys \in Nat /\ MaxFaults \in Nat

VARIABLES
  root,       \* {SITES_DIR}/{slug} exists
  page, css,  \* index.html, design-system.css as they are served
  job,        \* per deployer: the request deployd works on
  worker,     \* per worker: where its tool call is
  visitor,    \* per visitor: how much of the page came, and whether after an answered deploy
  events,     \* deploys the ledger tells of
  story       \* history: deploys begun, answered, failed, unlogged, those of the founding
              \* (landings); whether two met at one file (clashed), anyone read half a page (torn)
              \* or heard that the site is live before any deploy (early)

vars == <<root, page, css, job, worker, visitor, events, story>>

Deployers == {Landing} \cup Workers
None == [of |-> 0, linked |-> TRUE]
Torn == [of |-> -1, linked |-> TRUE]
NoJob == [at |-> "off", of |-> 0, todo |-> <<>>, linked |-> TRUE, clash |-> FALSE]

Init ==
  /\ root = FALSE /\ page = None /\ css = FALSE
  /\ job = [d \in Deployers |-> NoJob]
  /\ worker = [w \in Workers |-> "idle"]
  /\ visitor = [v \in Visitors |-> [at |-> "away", late |-> FALSE]]
  /\ events = {}
  /\ story = [begun |-> 0, landings |-> {}, answered |-> {}, failed |-> {}, unlogged |-> {},
               clashed |-> FALSE, torn |-> FALSE, early |-> FALSE, faults |-> 0]

AFault == story.faults < MaxFaults
Faulty(s) == [s EXCEPT !.faults = @ + 1]
Job(d, r) == job' = [job EXCEPT ![d] = r]
Goto(w, at) == worker' = [worker EXCEPT ![w] = at]
Reads == story' = [story EXCEPT !.torn = @ \/ page = Torn]

----------------------------------------------------------------------------
(* deployd.                                                                *)

\* The share card is rendered if it can be; the house files come last, whatever is submitted.
FilesOf(submitted) == submitted \o <<"css">>
Request(submitted, linked) ==
  [at |-> "open", of |-> story.begun + 1, todo |-> FilesOf(submitted), linked |-> linked, clash |-> FALSE]

\* sanitizeSiteHtml: a page that does not link the stylesheet gets the link.
Sanitized(linked) == TRUE

StartLanding ==
  /\ job[Landing].at = "off" /\ story.begun < MaxDeploys
  /\ Job(Landing, Request(<<"index">>, TRUE))
  /\ story' = [story EXCEPT !.begun = @ + 1, !.landings = @ \cup {story.begun + 1}]
  /\ UNCHANGED <<root, page, css, worker, visitor, events>>

\* mkdir, then the temporary file. Two deploys of one process share its name.
AtSameFile(d) == {e \in Deployers \ {d} : job[e].at = "rename" /\ Head(job[e].todo) = Head(job[d].todo)}
OpenFile(d) ==
  /\ job[d].at = "open" /\ job[d].todo # <<>> /\ Head(job[d].todo) # "bad"
  /\ root' = TRUE
  /\ job' = [e \in Deployers |->
               IF e = d THEN [job[d] EXCEPT !.at = "rename", !.clash = AtSameFile(d) # {}]
               ELSE IF e \in AtSameFile(d) THEN [job[e] EXCEPT !.clash = TRUE] ELSE job[e]]
  /\ story' = [story EXCEPT !.clashed = @ \/ AtSameFile(d) # {}]
  /\ UNCHANGED <<page, css, worker, visitor, events>>

Written(d) == [of |-> job[d].of, linked |-> job[d].linked]
\* Written straight to where it is served from.
InPlace(d) ==
  /\ job[d].at = "rename" /\ UNCHANGED css
  /\ IF Head(job[d].todo) = "index" /\ page # Torn THEN page' = Torn /\ UNCHANGED job
     ELSE page' = Written(d) /\ Job(d, [job[d] EXCEPT !.at = "open", !.todo = Tail(@)])
Renamed(d) ==
  /\ job[d].at = "rename"
  /\ page' = IF Head(job[d].todo) = "index" THEN Written(d) ELSE page
  /\ css' = (css \/ Head(job[d].todo) = "css")
  /\ Job(d, [job[d] EXCEPT !.at = "open", !.todo = Tail(@), !.clash = FALSE])
\* The other's rename took the file away, and what was written shows or does not.
RenameClashed(d) ==
  /\ job[d].at = "rename" /\ job[d].clash
  /\ IF Head(job[d].todo) = "index" THEN page' \in {page, Written(d), Torn} ELSE UNCHANGED page
  /\ UNCHANGED css
  /\ Job(d, [job[d] EXCEPT !.at = "failed"])
RenameFile(d) ==
  /\ Renamed(d) \/ RenameClashed(d)
  /\ UNCHANGED <<root, worker, visitor, events, story>>

\* A path that escapes the root: what came before it in the request is published.
RejectPath(d) ==
  /\ job[d].at = "open" /\ job[d].todo # <<>> /\ Head(job[d].todo) = "bad"
  /\ Job(d, [job[d] EXCEPT !.at = "failed"])
  /\ UNCHANGED <<root, page, css, worker, visitor, events, story>>

Published(d) == job[d].at = "open" /\ job[d].todo = <<>>

\* deployLanding hears the answer, or an error that founds no company.
LandingAnswered ==
  /\ Published(Landing) \/ job[Landing].at = "failed"
  /\ story' = [story EXCEPT !.answered = IF Published(Landing) THEN @ \cup {job[Landing].of} ELSE @]
  /\ Job(Landing, NoJob)
  /\ UNCHANGED <<root, page, css, worker, visitor, events>>

\* deployd restarts: its requests end where they are.
Restart ==
  /\ AFault /\ \E d \in Deployers : job[d].at \in {"open", "rename"}
  /\ job' = [d \in Deployers |-> IF job[d].at \in {"open", "rename"} THEN [job[d] EXCEPT !.at = "failed"] ELSE job[d]]
  /\ story' = Faulty(story)
  /\ UNCHANGED <<root, page, css, worker, visitor, events>>

----------------------------------------------------------------------------
(* The workers' web tools.                                                 *)

\* get_deploy_status: /exists knows the directory, or a name of the control plane.
Exists == ControlPlane \/ root
GetDeployStatus(w) ==
  /\ worker[w] = "idle" /\ Exists
  /\ story' = [story EXCEPT !.early = @ \/ story.begun = 0]
  /\ UNCHANGED <<root, page, css, job, worker, visitor, events>>

\* get_site: the page as it is now, or not_deployed, or an error; nothing holds it for the edit.
GetSite(w) ==
  /\ worker[w] = "idle" /\ Reads
  /\ UNCHANGED <<root, page, css, job, worker, visitor, events>>

\* deploy_site: the files replace what is there, read or not; a page need not link the stylesheet.
DeploySite(w) ==
  /\ worker[w] = "idle" /\ job[w].at = "off" /\ story.begun < MaxDeploys
  /\ \E submitted \in Submitted, linked \in BOOLEAN : Job(w, Request(submitted, Sanitized(linked)))
  /\ Goto(w, "deploy") /\ story' = [story EXCEPT !.begun = @ + 1]
  /\ UNCHANGED <<root, page, css, visitor, events>>

DeployAnswered(w) ==
  /\ worker[w] = "deploy" /\ Published(w)
  /\ Goto(w, "log") /\ story' = [story EXCEPT !.answered = @ \cup {job[w].of}]
  /\ UNCHANGED <<root, page, css, job, visitor, events>>
DeployFailed(w) ==
  /\ worker[w] = "deploy" /\ job[w].at = "failed"
  /\ Goto(w, "idle") /\ Job(w, NoJob) /\ story' = [story EXCEPT !.failed = @ \cup {job[w].of}]
  /\ UNCHANGED <<root, page, css, visitor, events>>

\* The deploy event, which may not get through: the call fails, the site has changed.
LogDeploy(w) ==
  /\ worker[w] = "log" /\ Goto(w, "idle") /\ Job(w, NoJob)
  /\ \/ events' = events \cup {job[w].of} /\ UNCHANGED story
     \/ AFault /\ story' = [Faulty(story) EXCEPT !.unlogged = @ \cup {job[w].of}] /\ UNCHANGED events
  /\ UNCHANGED <<root, page, css, visitor>>

----------------------------------------------------------------------------
(* GET /sites/:slug/*: index.html first, then what it links.               *)

LoadPage(v) ==
  /\ visitor[v].at = "away" /\ page # None /\ Reads
  /\ visitor' = [visitor EXCEPT ![v] = [at |-> "page", late |-> story.answered # {}]]
  /\ UNCHANGED <<root, page, css, job, worker, events>>
LoadStyle(v) ==
  /\ visitor[v].at = "page" /\ visitor' = [visitor EXCEPT ![v].at = IF css THEN "styled" ELSE "bare"]
  /\ UNCHANGED <<root, page, css, job, worker, events, story>>

----------------------------------------------------------------------------
Deployd(d) == OpenFile(d) \/ RenameFile(d) \/ RejectPath(d)
Web(w) ==
  GetDeployStatus(w) \/ GetSite(w) \/ DeploySite(w) \/ DeployAnswered(w) \/ DeployFailed(w) \/ LogDeploy(w)

Next ==
  \/ StartLanding \/ LandingAnswered \/ Restart
  \/ \E d \in Deployers : Deployd(d)
  \/ \E w \in Workers : Web(w)
  \/ \E v \in Visitors : LoadPage(v) \/ LoadStyle(v)

Spec == Init /\ [][Next]_vars

----------------------------------------------------------------------------
\* A visitor never gets half a page, unless two deploys of one file met (publish.ts:10).
WholePages == page = Torn \/ story.torn => story.clashed

\* Every page links the house style, and it is there for whoever comes after the first
\* deploy that was answered (publish.ts:13-16).
StyledPages ==
  /\ page.linked
  /\ \A v \in Visitors : visitor[v].at = "bare" => ~visitor[v].late

\* An agent is told the site is live only when somebody had begun to deploy it
\* (tools.ts:351-353), unless its name is one of the control plane's.
HonestStatus == story.early => ControlPlane

\* Whoever was answered "deployed" has a site with its stylesheet, and the page that is served is
\* the founding's, one the ledger tells of, one whose call still runs, or what a call left behind
\* that failed halfway or could not be logged: two deploys at once change nothing in that
\* (tools.ts:326-338, publish.ts:42-50).
ServedIsTold ==
  /\ story.answered # {} => root /\ css
  /\ page.of \in {0, Torn.of} \cup story.landings \cup events \cup story.failed \cup story.unlogged
                  \cup {job[w].of : w \in Workers}

SiteKept == WholePages /\ StyledPages /\ HonestStatus /\ ServedIsTold
=============================================================================
