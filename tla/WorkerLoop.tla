----------------------------- MODULE WorkerLoop -----------------------------
(***************************************************************************)
(* The workers of one company at work: agentd's loop from one model answer *)
(* to the next, the HTTP client its tool calls go through, and the tools   *)
(* whose handlers do more than one thing at the gateway (mail, the inbox   *)
(* mirror, the browser's sessions).                                        *)
(*                                                                         *)
(* A worker waits for one answer at a time, but a connection that breaks   *)
(* after the request arrived leaves a copy at work behind the retry. The   *)
(* model's answers and the rate limiter's are free; without a model (no    *)
(* LITELLM_URL) a script decides for every worker. All mail goes to one    *)
(* recipient, and the 24 hours of its cap do not pass. What deploy_site    *)
(* does is module Sites.                                                   *)
(***************************************************************************)
EXTENDS Integers, Sequences, FiniteSets, SequencesExt

CONSTANTS
  Workers,       \* one task each
  CallsOf,       \* what the model of a worker may ask for: [tool, args]
  MaxSteps,      \* step budget of a task
  MaxRepeats,    \* identical calls that stop the loop (3), among the Recent (6) last ones
  Recent,
  MaxTries,      \* transport retries of one call (3)
  MailCap,       \* messages per recipient and day (3)
  MaxSessions,   \* browser contexts
  MaxResets, MaxMail   \* bounds of the model: broken connections, inbound messages

Tools == {"send_email", "reply_email", "list_emails", "navigate", "exec", "deploy_site"}
ASSUME WorkerLoopAssumption ==
  /\ \A w \in Workers : \A c \in CallsOf[w] : c.tool \in Tools
  /\ MaxSteps \in Nat \ {0} /\ MaxRepeats \in Nat \ {0} /\ Recent \in Nat /\ MaxTries \in Nat
  /\ MailCap \in Nat \ {0} /\ MaxSessions \in Nat \ {0} /\ MaxResets \in Nat /\ MaxMail \in Nat

VARIABLES
  worker,      \* per worker: the loop's locals
  copies,      \* per worker: the copies of its calls the gateway works on
  companyPaused, \* companies.status
  mailbox,     \* rows: outbound rows; in: inbound messages; mirrored: their rows
  sessions,    \* the browser's map: tasks, the least recently used first
  contexts,    \* per task: browser contexts open
  story        \* history: lost: broken connections; owed: mail calls made, or made again after
               \* a lost answer, not yet delivered or refused; cold: send_email deliveries, less
               \* those not recorded; crossed: what two handlers did together

loopVars == <<worker, copies, companyPaused, mailbox, sessions, contexts, story>>

Ended == {"done", "stopped", "failed"}
NoCall == [tool |-> "none", args |-> 0]
Fresh == [at |-> "think", llm |-> TRUE, script |-> <<>>, step |-> 0, recent |-> <<>>, limited |-> {}, call |-> NoCall, tries |-> 0]
Copy(c) == [at |-> "arrived", call |-> c, awaited |-> TRUE]

\* What the scripted policy does without a model, by the task's title: build a program, open
\* a store and announce it, redeploy the site, or write a report (nothing shared here).
Flows == {<<"exec", "exec", "exec">>, <<"deploy_site", "send_email">>, <<"deploy_site">>, <<>>}
Scripted(flow) == [Fresh EXCEPT !.llm = FALSE, !.script = [i \in DOMAIN flow |-> [tool |-> flow[i], args |-> i]]]

LoopInit ==
  /\ \/ worker = [w \in Workers |-> Fresh]
     \/ worker \in [Workers -> {Scripted(flow) : flow \in Flows}]
  /\ copies = [w \in Workers |-> <<>>]
  /\ companyPaused = FALSE
  /\ mailbox = [rows |-> 0, in |-> 0, mirrored |-> 0]
  /\ sessions = <<>> /\ contexts = [w \in Workers |-> 0]
  /\ story = [lost |-> 0, owed |-> 0, cold |-> 0, crossed |-> {}]

Becomes(w, r) == worker' = [worker EXCEPT ![w] = r]
World == <<mailbox, sessions, contexts>>
OnlyWorker == UNCHANGED <<copies, companyPaused, World, story>>

----------------------------------------------------------------------------
(* runWorkerTask: one answer of the model.                                 *)

Mail(call) == call.tool \in {"send_email", "reply_email"}
Repeats(s, call) == Cardinality({i \in 1..Len(s) : s[i] = call})
LastOnes(s) == IF Len(s) > Recent THEN Tail(s) ELSE s
MayThink(w) == worker[w].at = "think" /\ worker[w].llm /\ worker[w].step < MaxSteps
Thought(w) == [worker[w] EXCEPT !.step = @ + 1]

\* An answer that does not parse is a step, and the model is asked again.
AnswerInvalid(w) == MayThink(w) /\ Becomes(w, Thought(w)) /\ OnlyWorker
AnswerFinal(w) == MayThink(w) /\ Becomes(w, [Fresh EXCEPT !.at = "done"]) /\ OnlyWorker

\* The deadline is past, the model cannot be reached, or the step budget is used up.
GiveUp(w) == worker[w].at = "think" /\ worker[w].llm /\ Becomes(w, [Fresh EXCEPT !.at = "failed"]) /\ OnlyWorker

Owes(call, mails, resets) == [story EXCEPT !.owed = IF Mail(call) THEN @ + mails ELSE @, !.lost = @ + resets]
Sends(r, call) == copies' = [copies EXCEPT ![r] = Append(@, Copy(call))]

AnswerCall(w, call) ==
  /\ MayThink(w)
  /\ LET r == [Thought(w) EXCEPT !.recent = LastOnes(Append(@, call))]
         spins == Repeats(r.recent, call) >= MaxRepeats
     IN IF spins \/ call.tool \in r.limited
        THEN Becomes(w, IF spins THEN [Fresh EXCEPT !.at = "stopped"] ELSE r) /\ UNCHANGED <<copies, story>>
        ELSE Becomes(w, [r EXCEPT !.at = "wait", !.call = call]) /\ Sends(w, call) /\ story' = Owes(call, 1, 0)
  /\ UNCHANGED <<companyPaused, World>>

\* The next call of the script, its end, or a task it is told to fail.
ScriptedCall(w) ==
  /\ worker[w].at = "think" /\ ~worker[w].llm /\ worker[w].script # <<>>
  /\ LET call == Head(worker[w].script)
     IN Becomes(w, [worker[w] EXCEPT !.at = "wait", !.call = call, !.script = Tail(@), !.step = @ + 1])
        /\ Sends(w, call) /\ story' = Owes(call, 1, 0)
  /\ UNCHANGED <<companyPaused, World>>
ScriptedEnd(w) ==
  /\ worker[w].at = "think" /\ ~worker[w].llm /\ worker[w].script = <<>>
  /\ \E at \in {"done"} \cup (IF worker[w].step = 0 THEN {"failed"} ELSE {}) : Becomes(w, [Fresh EXCEPT !.at = at])
  /\ OnlyWorker

----------------------------------------------------------------------------
(* callTool: the request, its retries over broken connections, the answer. *)

Rest(w) == [worker[w] EXCEPT !.at = "think", !.call = NoCall, !.tries = 0]
\* The script goes on whatever became of a message, and fails with a refused build or deploy.
Throws(w, answer) == ~worker[w].llm /\ answer # "ok" /\ worker[w].call.tool # "send_email"
\* What the loop makes of an answer; a code tool now runs in the sandbox.
HeardUnlessLimited(w, answer) ==
  CASE answer = "stop" /\ worker[w].llm -> [Fresh EXCEPT !.at = "stopped"]
    [] answer = "limited" /\ worker[w].llm -> worker[w]
    [] answer = "ok" /\ worker[w].call.tool = "exec" -> [worker[w] EXCEPT !.at = "run"]
    [] Throws(w, answer) -> [Fresh EXCEPT !.at = "failed"]
    [] OTHER -> Rest(w)
Heard(w, answer) ==
  CASE answer = "stop" /\ worker[w].llm -> [Fresh EXCEPT !.at = "stopped"]
    [] answer = "limited" /\ worker[w].llm -> [Rest(w) EXCEPT !.limited = @ \cup {worker[w].call.tool}]
    [] answer = "ok" /\ worker[w].call.tool = "exec" -> [worker[w] EXCEPT !.at = "run"]
    [] Throws(w, answer) -> [Fresh EXCEPT !.at = "failed"]
    [] OTHER -> Rest(w)

Breaks(w) == worker[w].at = "wait" /\ story.lost < MaxResets
MayRetry(w) == worker[w].tries < MaxTries
Retried(w) == IF MayRetry(w) THEN [worker[w] EXCEPT !.tries = @ + 1] ELSE Heard(w, "error")   \* gateway_unreachable
Again(w) == IF MayRetry(w) THEN <<Copy(worker[w].call)>> ELSE <<>>

\* The connection breaks before the request arrives, or while its answer is awaited.
ResetEarly(w) ==
  /\ Breaks(w)
  /\ \E i \in DOMAIN copies[w] :
       /\ copies[w][i].awaited /\ copies[w][i].at = "arrived"
       /\ copies' = [copies EXCEPT ![w] = RemoveAt(@, i) \o Again(w)]
  /\ Becomes(w, Retried(w))
  /\ story' = IF MayRetry(w) THEN [story EXCEPT !.lost = @ + 1] ELSE Owes(worker[w].call, -1, 1)
  /\ UNCHANGED <<companyPaused, World>>
ResetLate(w) ==
  /\ Breaks(w)
  /\ copies' = [copies EXCEPT ![w] = [i \in DOMAIN @ |-> [@[i] EXCEPT !.awaited = FALSE]] \o Again(w)]
  /\ Becomes(w, Retried(w))
  /\ story' = IF MayRetry(w) THEN Owes(worker[w].call, 1, 1) ELSE [story EXCEPT !.lost = @ + 1]
  /\ UNCHANGED <<companyPaused, World>>

\* The gateway answers copy i; nobody hears it when its connection is gone.
AnsweredOrRetried(w, i, answer) ==
  /\ copies' = [copies EXCEPT ![w] = RemoveAt(@, i) \o (IF answer = "error" /\ copies[w][i].awaited THEN Again(w) ELSE <<>>)]
  /\ Becomes(w, IF ~copies[w][i].awaited THEN worker[w] ELSE IF answer = "error" THEN Retried(w) ELSE Heard(w, answer))
CopyAnswered(w, i, answer) ==
  /\ copies' = [copies EXCEPT ![w] = RemoveAt(@, i)]
  /\ Becomes(w, IF copies[w][i].awaited THEN Heard(w, answer) ELSE worker[w])

RunLocally(w) ==
  /\ worker[w].at = "run"
  /\ Becomes(w, Rest(w)) /\ OnlyWorker

----------------------------------------------------------------------------
(* The gateway: before the handlers.                                       *)

At(w, i, at) == i \in DOMAIN copies[w] /\ copies[w][i].at = at
Moves(w, i, at) == copies' = [copies EXCEPT ![w][i].at = at]
Elsewhere(w, i, at) == \E v \in Workers : \E j \in DOMAIN copies[v] :
                         <<v, j>> # <<w, i>> /\ copies[v][j].at \in at
Crossed(now, what) == story' = [story EXCEPT !.crossed = IF now THEN @ \cup {what} ELSE @]
Refused(w, i) == Owes(copies[w][i].call, -1, 0)
Busy == [send_email |-> "count", reply_email |-> "deliver", list_emails |-> "look", navigate |-> "session"]

\* The limiter counts writes; then the input is parsed and the pause read.
RefuseCall(w, i) ==
  /\ At(w, i, "arrived")
  /\ \/ copies[w][i].call.tool \notin {"list_emails", "navigate"} /\ CopyAnswered(w, i, "limited")
     \/ CopyAnswered(w, i, "error")
     \/ companyPaused /\ CopyAnswered(w, i, "stop")
  /\ story' = Refused(w, i)
  /\ UNCHANGED <<companyPaused, World>>
Authorize(w, i) ==
  /\ At(w, i, "arrived") /\ ~companyPaused
  /\ IF copies[w][i].call.tool \in {"exec", "deploy_site"} THEN CopyAnswered(w, i, "ok")
     ELSE Moves(w, i, Busy[copies[w][i].call.tool]) /\ UNCHANGED worker
  /\ UNCHANGED <<companyPaused, World, story>>

----------------------------------------------------------------------------
(* send_email, reply_email.                                                *)

UnderMailCap == mailbox.rows < MailCap
CheckCap(w, i) ==
  /\ At(w, i, "count")
  /\ IF UnderMailCap
     THEN Moves(w, i, "deliver") /\ UNCHANGED worker /\ Crossed(Elsewhere(w, i, {"deliver", "row"}), "mail")
     ELSE CopyAnswered(w, i, "error") /\ story' = Refused(w, i)
  /\ UNCHANGED <<companyPaused, World>>

Cold(w, i) == IF copies[w][i].call.tool = "send_email" THEN 1 ELSE 0
Deliver(w, i) ==
  /\ At(w, i, "deliver") /\ Moves(w, i, "row")
  /\ story' = [story EXCEPT !.owed = @ - 1, !.cold = @ + Cold(w, i)]
  /\ UNCHANGED <<worker, companyPaused, World>>
\* The provider refuses or cannot be reached: send_failed.
NotDelivered(w, i) ==
  /\ At(w, i, "deliver") /\ CopyAnswered(w, i, "error")
  /\ story' = Refused(w, i)
  /\ UNCHANGED <<companyPaused, World>>

RecordRow(w, i) ==
  /\ At(w, i, "row") /\ CopyAnswered(w, i, "ok")
  /\ mailbox' = [mailbox EXCEPT !.rows = @ + 1]
  /\ UNCHANGED <<companyPaused, sessions, contexts, story>>
\* The INSERT throws after the message went out: tool_failed.
RowLost(w, i) ==
  /\ At(w, i, "row") /\ CopyAnswered(w, i, "error")
  /\ story' = [story EXCEPT !.cold = @ - Cold(w, i)]
  /\ UNCHANGED <<companyPaused, World>>

----------------------------------------------------------------------------
(* list_emails: mirrorInbox, for each message not mirrored yet. An INSERT  *)
(* .. WHERE NOT EXISTS looks in its snapshot, so it is two steps here.     *)

LookUpMirror(w, i) ==
  /\ At(w, i, "look")
  /\ IF mailbox.mirrored < mailbox.in THEN Moves(w, i, "mirror") /\ UNCHANGED worker ELSE CopyAnswered(w, i, "ok")
  /\ Crossed(Elsewhere(w, i, {"mirror"}), "inbox")
  /\ UNCHANGED <<companyPaused, World>>
InsertMirror(w, i) ==
  /\ At(w, i, "mirror") /\ Moves(w, i, "look")
  /\ mailbox' = [mailbox EXCEPT !.mirrored = @ + 1]
  /\ UNCHANGED <<worker, companyPaused, sessions, contexts, story>>
\* JMAP or the ledger cannot be reached: the sync is best effort, the read goes on.
SyncFails(w, i) ==
  /\ \E at \in {"look", "mirror"} : At(w, i, at)
  /\ CopyAnswered(w, i, "ok")
  /\ UNCHANGED <<companyPaused, World, story>>

----------------------------------------------------------------------------
(* PlaywrightBrowser: session, closeSession, sweep.                        *)

Used(s, w) == Append(IF Contains(s, w) THEN RemoveAt(s, CHOOSE i \in DOMAIN s : s[i] = w) ELSE s, w)
BrowserFull == Len(sessions) >= MaxSessions
FindSession(w, i) ==
  /\ At(w, i, "session")
  /\ IF Contains(sessions, w)
     THEN sessions' = Used(sessions, w) /\ contexts' = contexts /\ CopyAnswered(w, i, "ok")
     ELSE /\ Moves(w, i, "open") /\ UNCHANGED worker
          /\ IF BrowserFull
             THEN sessions' = Tail(sessions) /\ contexts' = [contexts EXCEPT ![Head(sessions)] = @ - 1]
             ELSE UNCHANGED <<sessions, contexts>>
  /\ Crossed(~Contains(sessions, w) /\ Elsewhere(w, i, {"open"}), "browser")
  /\ UNCHANGED <<companyPaused, mailbox>>
OpenContext(w, i) ==
  /\ At(w, i, "open")
  /\ sessions' = Used(sessions, w) /\ contexts' = [contexts EXCEPT ![w] = @ + 1]
  /\ CopyAnswered(w, i, "ok")
  /\ UNCHANGED <<companyPaused, mailbox, story>>
\* A session nobody used for five minutes.
Sweep ==
  /\ sessions # <<>>
  /\ sessions' = Tail(sessions) /\ contexts' = [contexts EXCEPT ![Head(sessions)] = @ - 1]
  /\ UNCHANGED <<worker, copies, companyPaused, mailbox, story>>

----------------------------------------------------------------------------
(* The owner, and whoever writes to the company.                           *)

PauseCompany == ~companyPaused /\ companyPaused' = TRUE /\ UNCHANGED <<worker, copies, World, story>>
MailArrives ==
  /\ mailbox.in < MaxMail
  /\ mailbox' = [mailbox EXCEPT !.in = @ + 1]
  /\ UNCHANGED <<worker, copies, companyPaused, sessions, contexts, story>>

Loop(w) ==
  \/ AnswerInvalid(w) \/ AnswerFinal(w) \/ GiveUp(w) \/ (\E call \in CallsOf[w] : AnswerCall(w, call))
  \/ RunLocally(w) \/ ScriptedCall(w) \/ ScriptedEnd(w)
Email(w, i) == CheckCap(w, i) \/ Deliver(w, i) \/ NotDelivered(w, i) \/ RecordRow(w, i) \/ RowLost(w, i)
Inbox(w, i) == LookUpMirror(w, i) \/ InsertMirror(w, i) \/ SyncFails(w, i)
Browser(w, i) == FindSession(w, i) \/ OpenContext(w, i)
Handle(w) == \E i \in DOMAIN copies[w] : RefuseCall(w, i) \/ Authorize(w, i) \/ Email(w, i) \/ Inbox(w, i) \/ Browser(w, i)

LoopNext ==
  \/ \E w \in Workers : Loop(w) \/ ResetEarly(w) \/ ResetLate(w) \/ Handle(w)
  \/ Sweep \/ PauseCompany \/ MailArrives
LoopSpec == LoopInit /\ [][LoopNext]_loopVars

\* The model answers or the deadline passes, and the gateway serves what it accepted.
FairLoop == LoopSpec /\ \A w \in Workers : WF_loopVars(Loop(w)) /\ WF_loopVars(Handle(w))

----------------------------------------------------------------------------
(* Properties.                                                             *)

\* The day's messages to a recipient stay under the cap (tools.ts:724-731), beyond it only
\* by what was sent and could not be recorded, unless two handlers were between check and row.
CapHolds == "mail" \in story.crossed \/ story.cold <= MailCap

\* A mail call of the model is carried out at most once; only an answer that was lost, and
\* its call made again, can add a delivery (client.ts:20-35).
SentAsDecided == story.owed >= 0

\* What leaves the company's mailbox, over retries, lost answers and lost rows.
MailKept == CapHolds /\ SentAsDecided

\* Every context is a session's and they stay within the maximum, and every message is
\* mirrored once, unless two calls opened or mirrored together (browser.ts:185-200, mirror.ts:22-33).
SharedToolsKept ==
  /\ "browser" \in story.crossed
     \/ /\ \A w \in Workers : contexts[w] = IF Contains(sessions, w) THEN 1 ELSE 0
        /\ Len(sessions) <= MaxSessions
  /\ "inbox" \in story.crossed \/ mailbox.mirrored <= mailbox.in

\* What the company's workers share stays in order: its mail, its mirror, its browser.
ToolsKept == MailKept /\ SharedToolsKept

\* A worker ends, whatever its model answers and whatever breaks (loop.ts:119-214).
WorkersEnd == \A w \in Workers : <>(worker[w].at \in Ended)
=============================================================================
