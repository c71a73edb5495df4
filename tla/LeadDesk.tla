------------------------------ MODULE LeadDesk ------------------------------
(* An enquiry from the form to the agent's follow-up queue: the forms of the *)
(* public site, the route they post to, lead intake, the WhatsApp            *)
(* acknowledgement that intake does not wait for, and the status changes     *)
(* staff make from the queue.  The contact behind a lead is ContactIdentity. *)
EXTENDS Naturals, Sequences, SequencesExt, FiniteSets

CONSTANTS
    Forms,                 \* forms on open pages, one per visitor
    Calls,                 \* submissions; a stored lead is named by its call
    Contents,              \* bound: some of Content
    Listings,              \* listings that exist; Owner is their organisation
    Owner, Host,           \* the organisation that is, or will be, the host
    Staff, Employer,       \* who works the queue, and for whom
    Statuses,              \* lead_status, NEW included
    Deployments,           \* [enabled, live]: speed-to-lead on, real provider
    OUTBOUND_MAX_ATTEMPTS, \* configuration
    ThrottleLimit,         \* requests per minute and address, POST /leads
    Scenes,                \* bound: who is there, see Scene
    None

(* CreateLeadDto, as far as intake looks at it.  A typo is a number that     *)
(* normalisePhone cannot bring to E.164, or any other detail it refuses.     *)
Phones == {"none", "mobile", "typo"}
CreateLeadDto == [kind : {"tour-request", "home-valuation", "contact", "saved-search"},
                  phone : Phones, optIn : BOOLEAN, listing : Listings \cup {"unknown", None},
                  date : BOOLEAN, message : BOOLEAN, budget : BOOLEAN]

(* What each form of the site can send; the box for WhatsApp is unticked     *)
(* until the visitor ticks it.                                               *)
WhatsAppConsent == BOOLEAN
TourRequestForm == {d \in CreateLeadDto :
    d.kind = "tour-request" /\ d.listing # None /\ ~d.budget /\ d.optIn \in WhatsAppConsent}
ContactForm == {d \in CreateLeadDto :
    d.kind = "contact" /\ d.listing = None /\ ~d.date /\ ~d.budget /\ d.optIn \in WhatsAppConsent}
HomeValuationForm == {d \in CreateLeadDto :
    d.kind = "home-valuation" /\ d.listing = None /\ ~d.date /\ ~d.budget /\ d.optIn \in WhatsAppConsent}
SavedSearchPrompt == {d \in CreateLeadDto :
    d.kind = "saved-search" /\ d.listing = None /\ ~d.date /\ ~d.budget /\ ~d.optIn
        /\ d.phone = "none" /\ d.message}
Content == TourRequestForm \cup ContactForm \cup HomeValuationForm \cup SavedSearchPrompt

(* Which forms are open, who works the queue, which leads were stored before *)
(* the API last started, how many submissions and status changes follow.     *)
Scene == [forms : SUBSET Forms, staff : SUBSET Staff, earlier : SUBSET Calls,
          requests : Nat]

ASSUME LeadAssumption ==
    /\ Contents \subseteq Content /\ Scenes \subseteq Scene
    /\ Owner \in [Listings -> UNION {{Owner[l]} : l \in Listings}]
    /\ "NEW" \in Statuses /\ None \notin Statuses \cup Forms \cup Calls
    /\ Deployments \subseteq [enabled : BOOLEAN, live : BOOLEAN]
    /\ OUTBOUND_MAX_ATTEMPTS \in Nat \ {0}

VARIABLES
    deployment,  \* one of Deployments, fixed when the API boots
    host,        \* the organisation flagged is_host, or None: also fixed
    counted,     \* requests the throttler has counted in this minute
    form,        \* status shown, what is filled in
    call,        \* submissions: where they are, what they carry
    lead,        \* rows of lead
    trail,       \* lead_activity: the outcomes of type WHATSAPP, and the
                 \* statuses of type STATUS_CHANGE, each in order
    ack,         \* acknowledgements under way in the API's memory
    task,        \* a staff member's change under way
    row,         \* the status each staff member's screen shows for a lead
    scene,       \* one of Scenes
    requests,    \* submissions and status changes so far
    delivered,   \* history: messages that reached the person, per call
    muddled,     \* history: leads two changes overlapped on, or one failed
    stale        \* history: screen rows someone else's change made old

leadVars == <<lead, trail>>
webVars  == <<form, call, counted>>
history  == <<delivered, muddled, stale>>
deskVars == <<task, row>>
fixed == <<deployment, host, scene>>
vars == <<fixed, requests, webVars, leadVars, ack, deskVars, history>>

NoCall == [pc |-> "unused", form |-> None, content |-> None, heard |-> FALSE,
           org |-> None, answer |-> None]
NoLead == [org |-> None]
NoAck  == [pc |-> "none", tries |-> 0, outcome |-> None]
Gone(how) == [NoAck EXCEPT !.pc = how]
NoTask == [pc |-> "idle", lead |-> None, patch |-> None, before |-> None, ok |-> TRUE]

Stored == {c \in Calls : lead[c] # NoLead}

(* LeadScoringService.score: what the queue ranks by.                        *)
KindScore == [k \in {"tour-request", "home-valuation", "contact", "saved-search"} |->
    CASE k = "tour-request" -> 40 [] k = "home-valuation" -> 35
      [] k = "contact" -> 20 [] OTHER -> 10]

Points(content) ==
    LET If(b, n) == IF b THEN n ELSE 0 IN
    KindScore[content.kind] + If(content.phone # "none", 25) + If(content.optIn, 10)
        + If(content.listing # None, 10) + If(content.date, 8)
        + If(content.message, 5) + If(content.budget, 7)

Score(content) == IF Points(content) > 100 THEN 100 ELSE Points(content)

-----------------------------------------------------------------------------

Init ==
    /\ deployment \in Deployments
    /\ host \in {Host, None}
    /\ counted = 0
    /\ form \in [Forms -> [status : {"idle"}, content : Contents]]
    /\ scene \in Scenes
    /\ call = [c \in Calls |-> IF c \in scene.earlier
                    THEN [NoCall EXCEPT !.pc = "over", !.answer = "created"] ELSE NoCall]
    /\ \E s \in Staff : lead = [c \in Calls |-> IF c \in scene.earlier
                    THEN [org |-> Employer[s], status |-> "NEW", score |-> 0, listing |-> None]
                    ELSE NoLead]
    /\ trail = [c \in Calls |-> [whatsapp |-> << >>, moves |-> << >>]]
    /\ ack = [c \in Calls |-> IF c \in scene.earlier THEN Gone("lost") ELSE NoAck]
    /\ task = [s \in Staff |-> NoTask]
    /\ row = [s \in Staff |-> [c \in Calls |-> None]]
    /\ requests = 0
    /\ delivered = [c \in Calls |-> 0]
    /\ muddled = {}
    /\ stale = {}

-----------------------------------------------------------------------------
(* The forms and the site's route.                                           *)

(* Mutant: the button stays enabled.                                         *)
SubmittableAlways(f) == form[f].status # "success"

(* handleSubmit: the button is disabled while a submission is under way; one *)
(* that failed may be sent again, with the phone number corrected.           *)
Submittable(f) == form[f].status \in {"idle", "error"}

(* Submissions are named in turn.                                            *)
Unused == {c \in Calls : call[c] = NoCall}
Fresh == IF Unused = {} THEN None ELSE CHOOSE c \in Unused : TRUE

Submit(f, c) ==
    /\ f \in scene.forms /\ Submittable(f)
    /\ c = Fresh
    /\ requests < scene.requests
    /\ requests' = requests + 1
    /\ \E content \in Contents :
        /\ \/ content = form[f].content
           \/ /\ form[f].status = "error"
              /\ content = [form[f].content EXCEPT !.phone = content.phone]
        /\ form' = [form EXCEPT ![f] = [status |-> "submitting", content |-> content]]
        /\ call' = [call EXCEPT ![c] = [NoCall EXCEPT
                !.pc = "route", !.form = f, !.content = content, !.heard = TRUE]]
    /\ UNCHANGED <<fixed, counted, leadVars, ack, deskVars, history>>

Answer(c, answer) ==
    call' = [call EXCEPT ![c].pc = "answer", ![c].answer = answer]

(* POST of the site's route, which hands the form to ApiLeadStore.           *)
Forward(c) ==
    /\ call[c].pc = "route"
    /\ call' = [call EXCEPT ![c].pc = "api"]
    /\ UNCHANGED <<fixed, requests, counted, form, leadVars, ack, deskVars, history>>

(* The throttler's guard counts the request before the body is validated.    *)
(* Every form of the site arrives from the address of the web server.        *)
Arrive(c) ==
    /\ call[c].pc = "api"
    /\ IF counted >= ThrottleLimit
       THEN Answer(c, "throttled") /\ UNCHANGED counted
       ELSE /\ counted' = counted + 1
            /\ IF call[c].content.phone = "typo"
               THEN Answer(c, "invalid")
               ELSE call' = [call EXCEPT ![c].pc = "resolve"]
    /\ UNCHANGED <<fixed, requests, form, leadVars, ack, deskVars, history>>

(* The API is not configured or cannot be reached, or a query throws before  *)
(* the lead is stored.  What is stored and then fails is in Created.         *)
Fail(c) ==
    /\ call[c].pc \in {"api", "resolve", "store"}
    /\ Answer(c, "failed")
    /\ UNCHANGED <<fixed, requests, counted, form, leadVars, ack, deskVars, history>>

(* submitLead: the answer, as the form shows it.                             *)
Receive(c) ==
    /\ call[c].pc = "answer"
    /\ call' = [call EXCEPT ![c].pc = "over"]
    /\ form' = IF call[c].heard
               THEN [form EXCEPT ![call[c].form].status =
                        IF call[c].answer = "created" THEN "success" ELSE "error"]
               ELSE form
    /\ UNCHANGED <<fixed, requests, counted, leadVars, ack, deskVars, history>>

(* The connection drops: the form reports it, the submission goes on.        *)
Disconnect(c) ==
    /\ call[c].pc \notin {"unused", "over"}
    /\ call[c].heard
    /\ call' = [call EXCEPT ![c].heard = FALSE]
    /\ form' = [form EXCEPT ![call[c].form].status = "error"]
    /\ UNCHANGED <<fixed, requests, counted, leadVars, ack, deskVars, history>>

(* The throttler's minute is over.                                           *)
NextMinute ==
    /\ counted > 0
    /\ counted' = 0
    /\ UNCHANGED <<fixed, requests, form, call, leadVars, ack, deskVars, history>>

-----------------------------------------------------------------------------
(* LeadService.create.                                                       *)

Known(content) == content.listing \in Listings

(* Mutant: every enquiry is the host's.                                      *)
DestinationHost(content) == host

Destination(content) == IF Known(content) THEN Owner[content.listing] ELSE host

(* Routing: the listing's owner, else the host, else 503.                    *)
Resolve(c) ==
    /\ call[c].pc = "resolve"
    /\ LET org == Destination(call[c].content) IN
       IF org = None
       THEN Answer(c, "failed")
       ELSE call' = [call EXCEPT ![c].pc = "store", ![c].org = org]
    /\ UNCHANGED <<fixed, requests, counted, form, leadVars, ack, deskVars, history>>

(* The contact is found or made, the lead is inserted with status NEW.       *)
Store(c) ==
    /\ call[c].pc = "store"
    /\ lead' = [lead EXCEPT ![c] =
            [org |-> call[c].org, status |-> "NEW", score |-> Score(call[c].content),
             listing |-> IF Known(call[c].content) THEN call[c].content.listing ELSE None]]
    /\ call' = [call EXCEPT ![c].pc = "stored"]
    /\ UNCHANGED <<fixed, requests, counted, form, trail, ack, deskVars, history>>

(* The acknowledgement is started and not awaited; 201 goes back, or is lost *)
(* between the API and the web server, whose fetch then fails.               *)
Created(c) ==
    /\ call[c].pc = "stored"
    /\ \E answer \in {"created", "failed"} : Answer(c, answer)
    /\ ack' = [ack EXCEPT ![c].pc = "lookup"]
    /\ UNCHANGED <<fixed, requests, counted, form, leadVars, deskVars, history>>

-----------------------------------------------------------------------------
(* SpeedToLeadService.acknowledge and OutboundMessageService.send.           *)

(* Mutant: a phone number is taken for consent.                              *)
SkipWithoutPhone(content) ==
    \/ ~deployment.enabled
    \/ content.phone = "none"

Skip(content) ==
    \/ ~deployment.enabled
    \/ content.phone = "none"
    \/ ~content.optIn

Outcome(c, outcome) ==
    ack' = [ack EXCEPT ![c].pc = "record", ![c].outcome = outcome]

(* Mutant: a message that is not sent leaves no trace.                       *)
DispatchSilently(c) ==
    /\ ack[c].pc = "lookup"
    /\ \/ Skip(call[c].content) /\ ack' = [ack EXCEPT ![c] = Gone("over")]
       \/ ~Skip(call[c].content) /\ ack' = [ack EXCEPT ![c].pc = "send"]
    /\ UNCHANGED <<fixed, requests, webVars, leadVars, deskVars, history>>

(* findOrganizationName, then the reasons to send nothing.  An error here is *)
(* only logged.                                                              *)
Dispatch(c) ==
    /\ ack[c].pc = "lookup"
    /\ \/ Skip(call[c].content) /\ Outcome(c, "skipped")
       \/ ~Skip(call[c].content) /\ ack' = [ack EXCEPT ![c].pc = "send"]
       \/ ack' = [ack EXCEPT ![c] = Gone("lost")]
    /\ UNCHANGED <<fixed, requests, webVars, leadVars, deskVars, history>>

(* Mutant: every taken message is recorded as sent.                          *)
AcceptedAlwaysSent(c) ==
    /\ ack[c].pc = "send"
    /\ ack' = [ack EXCEPT ![c] = [pc |-> "record", tries |-> ack[c].tries + 1,
                                  outcome |-> "sent"]]
    /\ delivered' = [delivered EXCEPT ![c] = IF deployment.live THEN @ + 1 ELSE @]
    /\ UNCHANGED <<fixed, requests, webVars, leadVars, deskVars, muddled, stale>>

(* The provider takes the message.  The logging provider takes every one and *)
(* delivers none.                                                            *)
Accepted(c) ==
    /\ ack[c].pc = "send"
    /\ ack' = [ack EXCEPT ![c] = [pc |-> "record", tries |-> ack[c].tries + 1,
                    outcome |-> IF deployment.live THEN "sent" ELSE "simulated"]]
    /\ delivered' = [delivered EXCEPT ![c] = IF deployment.live THEN @ + 1 ELSE @]
    /\ UNCHANGED <<fixed, requests, webVars, leadVars, deskVars, muddled, stale>>

(* A failure marked as not retryable.                                        *)
Rejected(c) ==
    /\ ack[c].pc = "send" /\ deployment.live
    /\ ack' = [ack EXCEPT ![c] = [pc |-> "record", tries |-> ack[c].tries + 1,
                                  outcome |-> "failed"]]
    /\ UNCHANGED <<fixed, requests, webVars, leadVars, deskVars, history>>

(* A failure worth another attempt; the message may have arrived all the     *)
(* same.                                                                     *)
TimedOut(c) ==
    /\ ack[c].pc = "send" /\ deployment.live
    /\ ack' = [ack EXCEPT ![c] =
            IF ack[c].tries + 1 < OUTBOUND_MAX_ATTEMPTS
            THEN [ack[c] EXCEPT !.tries = ack[c].tries + 1]
            ELSE [pc |-> "record", tries |-> @.tries + 1, outcome |-> "failed"]]
    /\ \E n \in {0, 1} : delivered' = [delivered EXCEPT ![c] = @ + n]
    /\ UNCHANGED <<fixed, requests, webVars, leadVars, deskVars, muddled, stale>>

(* The outcome on the trail; a failure to write it is swallowed.             *)
Record(c) ==
    /\ ack[c].pc = "record"
    /\ \/ /\ trail' = [trail EXCEPT ![c].whatsapp = Append(@, ack[c].outcome)]
          /\ ack' = [ack EXCEPT ![c] = Gone("over")]
       \/ /\ ack' = [ack EXCEPT ![c] = Gone("lost")]
          /\ UNCHANGED trail
    /\ UNCHANGED <<fixed, requests, webVars, lead, deskVars, history>>

-----------------------------------------------------------------------------
(* The follow-up queue.                                                      *)

Visible(s) == {c \in Stored : lead[c].org = Employer[s]}

(* LeadsPage: rows that were on the screen keep the status they show.        *)
Refreshed(s) == [c \in Calls |->
    IF row[s][c] = None /\ c \in Visible(s) THEN lead[c].status ELSE row[s][c]]

(* The page is opened anew.                                                  *)
Load(s) ==
    /\ s \in scene.staff
    /\ task[s].pc = "idle"
    /\ row' = [row EXCEPT ![s] = [c \in Calls |->
                    IF c \in Visible(s) THEN lead[c].status ELSE None]]
    /\ stale' = {p \in stale : p[1] # s}
    /\ UNCHANGED <<fixed, requests, webVars, leadVars, ack, task, delivered, muddled>>

WorkingOn(c) == {s \in Staff : task[s].pc # "idle" /\ task[s].lead = c}

(* LeadRow.change: the select shows the new status at once.                  *)
Change(s, c) ==
    /\ task[s].pc = "idle"
    /\ row[s][c] # None
    /\ requests < scene.requests
    /\ requests' = requests + 1
    /\ \E patch \in Statuses \ {row[s][c]} :
        /\ task' = [task EXCEPT ![s] = [pc |-> "update", lead |-> c, patch |-> patch,
                                        before |-> row[s][c], ok |-> TRUE]]
        /\ row' = [row EXCEPT ![s][c] = patch]
    /\ muddled' = IF WorkingOn(c) = {} THEN muddled ELSE muddled \cup {c}
    /\ UNCHANGED <<fixed, webVars, leadVars, ack, delivered, stale>>

(* Mutant: coalesce(status, patch), which never changes anything.            *)
UpdateStatusNever(s) ==
    /\ task[s].pc = "update"
    /\ task' = [task EXCEPT ![s].pc = "trail"]
    /\ stale' = stale \cup {<<s2, task[s].lead>> : s2 \in Staff \ {s}}
    /\ UNCHANGED <<fixed, requests, webVars, leadVars, ack, row, delivered, muddled>>

(* LeadRepository.updateStatus.                                              *)
UpdateStatus(s) ==
    LET t == task[s] IN
    /\ t.pc = "update"
    /\ lead' = [lead EXCEPT ![t.lead].status = t.patch]
    /\ task' = [task EXCEPT ![s].pc = "trail"]
    /\ stale' = stale \cup {<<s2, t.lead>> : s2 \in Staff \ {s}}
    /\ UNCHANGED <<fixed, requests, webVars, trail, ack, row, delivered, muddled>>

(* recordActivity, in a transaction of its own.                              *)
RecordActivity(s) ==
    LET t == task[s] IN
    /\ t.pc = "trail"
    /\ trail' = [trail EXCEPT ![t.lead].moves = Append(@, t.patch)]
    /\ task' = [task EXCEPT ![s].pc = "answer"]
    /\ UNCHANGED <<fixed, requests, webVars, lead, ack, row, history>>

(* What an error does to a change: what was committed stays.                 *)
Broken(t) == [t EXCEPT !.pc = "answer", !.ok = FALSE]
Halved(S) == {task[s].lead : s \in {x \in S : task[x].pc = "trail"}}
Misreported(S) == {<<s, task[s].lead>> : s \in {x \in S : task[x].pc \in {"trail", "answer"}}}

(* A query throws, or the answer is lost.                                    *)
ChangeFails(s) ==
    /\ task[s].pc # "idle" /\ task[s].ok
    /\ task' = [task EXCEPT ![s] = Broken(@)]
    /\ muddled' = muddled \cup Halved({s})
    /\ stale' = stale \cup Misreported({s})
    /\ UNCHANGED <<fixed, requests, webVars, leadVars, ack, row, delivered>>

(* Mutant: a failed change stays on the screen.                              *)
ShownAnyway(t) == t.patch

ShownAfter(t) == IF t.ok THEN t.patch ELSE t.before

(* The answer: the row reverts if it was refused; revalidatePath adds rows.  *)
Settle(s) ==
    LET t == task[s] IN
    /\ t.pc = "answer"
    /\ task' = [task EXCEPT ![s] = NoTask]
    /\ row' = [row EXCEPT ![s] = [Refreshed(s) EXCEPT ![t.lead] = ShownAfter(t)]]
    /\ UNCHANGED <<fixed, requests, webVars, leadVars, ack, history>>

-----------------------------------------------------------------------------
(* The API process dies, with every request and acknowledgement in it.       *)

InApi == {c \in Calls : call[c].pc \in {"resolve", "store", "stored"}}

Crash ==
    LET busy == {s \in Staff : task[s].pc \in {"update", "trail"}} IN
    /\ \/ InApi # {} \/ busy # {}
       \/ \E c \in Calls : ack[c].pc \in {"lookup", "send", "record"}
    /\ call' = [c \in Calls |-> IF c \in InApi
            THEN [call[c] EXCEPT !.pc = "answer", !.answer = "failed"] ELSE call[c]]
    /\ ack' = [c \in Calls |->
            IF call[c].pc = "stored" \/ ack[c].pc \in {"lookup", "send", "record"}
            THEN Gone("lost") ELSE ack[c]]
    /\ task' = [s \in Staff |-> IF s \in busy THEN Broken(task[s]) ELSE task[s]]
    /\ muddled' = muddled \cup Halved(busy)
    /\ stale' = stale \cup Misreported(busy)
    /\ UNCHANGED <<fixed, requests, counted, form, leadVars, row, delivered>>

Serve(c) == Forward(c) \/ Arrive(c) \/ Resolve(c) \/ Store(c) \/ Created(c) \/ Receive(c)

Acknowledge(c) == Dispatch(c) \/ Accepted(c) \/ Rejected(c) \/ TimedOut(c) \/ Record(c)

Next ==
    \/ \E f \in Forms, c \in Calls : Submit(f, c)
    \/ \E c \in Calls : Serve(c) \/ Acknowledge(c) \/ Fail(c) \/ Disconnect(c)
    \/ \E s \in Staff, c \in Calls : Change(s, c)
    \/ \E s \in Staff :
        Load(s) \/ UpdateStatus(s) \/ RecordActivity(s) \/ ChangeFails(s) \/ Settle(s)
    \/ NextMinute \/ Crash

Spec == Init /\ [][Next]_vars

(* The API's event loop gets to every request and acknowledgement it holds.  *)
FairSpec == Spec /\ \A c \in Calls : WF_vars(Serve(c)) /\ WF_vars(Acknowledge(c))

-----------------------------------------------------------------------------
(* Properties.                                                               *)

(* A form thanks its visitor only for an enquiry that is in the table, in    *)
(* the organisation it is meant for, and about the listing it was sent from. *)
ThanksMeansStored ==
    \A f \in Forms : form[f].status = "success" =>
        \E c \in Stored :
            /\ call[c].form = f /\ call[c].content = form[f].content
            /\ lead[c].org = IF Known(form[f].content)
                             THEN Owner[form[f].content.listing] ELSE Host
            /\ lead[c].listing = IF Known(form[f].content)
                                 THEN form[f].content.listing ELSE None

(* One form stores two leads only if it had reported the first one as        *)
(* failed: its connection dropped, or the API died after the INSERT.         *)
DuplicatesWereReportedLost ==
    \A c, d \in Stored : c # d /\ call[c].form = call[d].form =>
        \E e \in {c, d} : ~call[e].heard \/ call[e].answer = "failed"

(* No message reaches anyone but for a stored enquiry that left a mobile     *)
(* number and ticked the box on that very submission.                        *)
NoMessageWithoutConsent ==
    \A c \in Calls : delivered[c] > 0 =>
        /\ c \in Stored
        /\ call[c].content.optIn /\ call[c].content.phone = "mobile"
        /\ deployment.enabled

(* The trail has at most one outcome for an acknowledgement, says sent only  *)
(* of a message that reached the person, and skipped or simulated only where *)
(* none did.                                                                 *)
TrailIsHonest ==
    \A c \in Calls :
        /\ Len(trail[c].whatsapp) <= 1
        /\ \A i \in DOMAIN trail[c].whatsapp :
            /\ trail[c].whatsapp[i] = "sent" => delivered[c] > 0
            /\ trail[c].whatsapp[i] \in {"skipped", "simulated"} => delivered[c] = 0

LastStatus(c) == IF trail[c].moves = << >> THEN "NEW" ELSE Last(trail[c].moves)

(* The last status change on a lead's trail is the lead's status, once no    *)
(* change is under way, unless two overlapped or one was cut off halfway.    *)
TrailMatchesStatus ==
    \A c \in Stored : WorkingOn(c) = {} /\ c \notin muddled => LastStatus(c) = lead[c].status

(* A row on a staff member's screen shows the status the lead has, unless    *)
(* its own change is under way, a colleague has changed the lead since, or a *)
(* change was reported as failed that had been committed.                    *)
RowsShowTheLead ==
    \A s \in Staff, c \in Calls :
        row[s][c] # None /\ s \notin WorkingOn(c) /\ <<s, c>> \notin stale =>
            row[s][c] = lead[c].status

Settled(c) == trail[c].whatsapp # << >> \/ ack[c].pc = "lost"

(* Every submission is answered, and every stored lead gets the outcome of   *)
(* its acknowledgement on its trail, unless the API dies or cannot write it. *)
EnquiriesSettle ==
    /\ \A f \in Forms : form[f].status = "submitting" ~> form[f].status # "submitting"
    /\ \A c \in Calls : c \in Stored ~> Settled(c)

=============================================================================
