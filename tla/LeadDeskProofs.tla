--------------------------- MODULE LeadDeskProofs ---------------------------
(* The properties of LeadDesk for every set of forms, listings, submissions *)
(* and staff, and every deployment, with their proofs.                      *)
EXTENDS TLAPS, LeadDesk

Orgs == {Host, None} \cup {Owner[l] : l \in Listings} \cup {Employer[s] : s \in Staff}

Waiting == {"route", "api", "resolve", "store", "stored", "answer"}

Call == [pc      : Waiting \cup {"unused", "over"},
         form    : Forms \cup {None},
         content : Content \cup {None},
         heard   : BOOLEAN,
         org     : Orgs,
         answer  : {None, "created", "failed", "throttled", "invalid"}]

LeadRow == [org : Orgs, status : Statuses, score : Nat, listing : Listings \cup {None}]

Outcomes == {"skipped", "sent", "simulated", "failed"}

Ack == [pc : {"none", "lookup", "send", "record", "over", "lost"},
        tries : Nat, outcome : Outcomes \cup {None}]

Task == [pc : {"idle", "update", "trail", "answer"}, lead : Calls \cup {None},
         patch : Statuses \cup {None}, before : Statuses \cup {None}, ok : BOOLEAN]

(* Submissions, rows, trails and screens are of their types.                *)
TypeInv ==
    /\ deployment \in [enabled : BOOLEAN, live : BOOLEAN]
    /\ host \in {Host, None}
    /\ form \in [Forms -> [status : {"idle", "submitting", "success", "error"},
                           content : Content]]
    /\ call \in [Calls -> Call]
    /\ lead \in [Calls -> LeadRow \cup {NoLead}]
    /\ trail \in [Calls -> [whatsapp : Seq(Outcomes), moves : Seq(Statuses)]]
    /\ ack \in [Calls -> Ack]
    /\ task \in [Staff -> Task]
    /\ row \in [Staff -> [Calls -> Statuses \cup {None}]]
    /\ delivered \in [Calls -> Nat]
    /\ muddled \subseteq Calls
    /\ stale \subseteq Staff \X Calls

(* What has become of a submission, and of its lead.                        *)
Order(c) ==
    /\ call[c].heard => call[c].form \in Forms
    /\ call[c].pc = "unused" => ~call[c].heard
    /\ call[c].pc \in Waiting => call[c].form \in Forms
    /\ call[c].form \in Forms => call[c].content \in Content
    /\ call[c].pc \in {"unused", "route", "api", "resolve", "store"} =>
            lead[c] = NoLead /\ ack[c].pc = "none" /\ call[c].answer = None
    /\ call[c].pc \in {"resolve", "store", "stored"} => call[c].content.phone # "typo"
    /\ call[c].pc \in {"store", "stored"} =>
            call[c].org = Destination(call[c].content) /\ call[c].org # None
    /\ call[c].pc = "stored" => lead[c] # NoLead /\ ack[c].pc = "none" /\ call[c].answer = None
    /\ call[c].pc \in {"answer", "over"} =>
        /\ call[c].answer = "created" => lead[c] # NoLead
        /\ lead[c] # NoLead => call[c].answer \in {"created", "failed"}
    /\ lead[c] # NoLead /\ call[c].form \in Forms =>
        /\ lead[c].org = Destination(call[c].content) /\ lead[c].org # None
        /\ lead[c].listing = IF Known(call[c].content) THEN call[c].content.listing ELSE None

(* What an acknowledgement has sent, and what its trail says of it.         *)
Message(c) ==
    /\ ack[c].pc \in {"lookup", "send", "record"} =>
            /\ lead[c] # NoLead
            /\ call[c].content \in Content /\ call[c].content.phone # "typo"
    /\ ack[c].pc = "send" => ~Skip(call[c].content)
    /\ ack[c].pc \in {"none", "lookup"} => delivered[c] = 0
    /\ ack[c].pc = "send" /\ ~deployment.live => delivered[c] = 0
    /\ ack[c].pc = "record" =>
        /\ ack[c].outcome \in Outcomes
        /\ ack[c].outcome = "sent" => delivered[c] > 0
        /\ ack[c].outcome \in {"skipped", "simulated"} => delivered[c] = 0
    /\ ack[c].pc # "over" => trail[c].whatsapp = << >>
    /\ delivered[c] > 0 =>
        /\ lead[c] # NoLead /\ deployment.enabled
        /\ call[c].content.optIn /\ call[c].content.phone = "mobile"
    /\ Len(trail[c].whatsapp) <= 1
    /\ \A i \in DOMAIN trail[c].whatsapp :
        /\ trail[c].whatsapp[i] = "sent" => delivered[c] > 0
        /\ trail[c].whatsapp[i] \in {"skipped", "simulated"} => delivered[c] = 0

EnquiryInv == \A c \in Calls : Order(c) /\ Message(c)

(* The submission a form waits for, or has thanked its visitor for.         *)
Holds(c) ==
    /\ call[c].heard
    /\ call[c].pc # "over" \/ call[c].answer = "created"

FormInv ==
    /\ \A c \in Calls : Holds(c) =>
        /\ form[call[c].form].status = IF call[c].pc = "over" THEN "success" ELSE "submitting"
        /\ form[call[c].form].content = call[c].content
    /\ \A c, d \in Calls : Holds(c) /\ Holds(d) /\ call[c].form = call[d].form => c = d
    /\ \A f \in Forms : form[f].status = "success" =>
        \E c \in Calls : Holds(c) /\ call[c].pc = "over" /\ call[c].form = f

(* A change under way is one of a stored lead.                              *)
TasksInOrder ==
    /\ \A s \in Staff : task[s].pc # "idle" =>
        /\ task[s].lead \in Stored /\ task[s].patch \in Statuses /\ task[s].before \in Statuses
        /\ ~task[s].ok => task[s].pc = "answer"
    /\ \A s \in Staff, c \in Calls : row[s][c] # None => c \in Stored
    /\ \A c \in Calls \ Stored : trail[c].moves = << >>

(* The trail and the status of a lead whose changes never overlapped.       *)
InStep(c) ==
    /\ \A s, o \in WorkingOn(c) : s = o
    /\ \A s \in WorkingOn(c) : task[s].pc = "trail" => lead[c].status = task[s].patch
    /\ (\A s \in WorkingOn(c) : task[s].pc # "trail") => LastStatus(c) = lead[c].status

(* What a screen that is not stale shows, and will show when its change is  *)
(* over.                                                                    *)
UpToDate(s, c) ==
    /\ s \notin WorkingOn(c) /\ row[s][c] # None => row[s][c] = lead[c].status
    /\ s \in WorkingOn(c) =>
        lead[c].status = IF task[s].pc = "update" \/ ~task[s].ok THEN task[s].before
                                                               ELSE task[s].patch

DeskInv ==
    /\ TasksInOrder
    /\ \A c \in Stored \ muddled : InStep(c)
    /\ \A s \in Staff, c \in Calls : <<s, c>> \notin stale => UpToDate(s, c)

LeadDeskInv == TypeInv /\ EnquiryInv /\ FormInv /\ DeskInv

-----------------------------------------------------------------------------
(* A row of lead is not the absence of one.                                 *)
LEMMA RowIsARow ==
    ASSUME NEW r \in LeadRow
    PROVE  r # NoLead
<1>1. DOMAIN r = {"org", "status", "score", "listing"}
  BY DEF LeadRow
<1>2. DOMAIN NoLead = {"org"}
  BY DEF NoLead
<1>3. "status" # "org"
  OBVIOUS
<1>4. QED
  BY <1>1, <1>2, <1>3

(* The score the queue ranks by is at most a hundred.                       *)
LEMMA ScoreInRange ==
    ASSUME NEW content \in Content
    PROVE  Score(content) \in 0 .. 100
<1>1. content \in CreateLeadDto
  BY DEF Content, TourRequestForm, ContactForm, HomeValuationForm, SavedSearchPrompt
<1>2. content.kind \in {"tour-request", "home-valuation", "contact", "saved-search"}
  BY <1>1 DEF CreateLeadDto
<1>3. KindScore[content.kind] \in 0 .. 40
  BY <1>2 DEF KindScore
<1>4. Points(content) \in Nat
  BY <1>3 DEF Points
<1>5. QED
  BY <1>4 DEF Score

(* Nobody has asked anything: the leads there are came before.              *)
LEMMA LeadDeskInit == Init => LeadDeskInv
<1> SUFFICES ASSUME Init PROVE LeadDeskInv
  OBVIOUS
<1>1. PICK s \in Staff : lead = [c \in Calls |-> IF c \in scene.earlier
                    THEN [org |-> Employer[s], status |-> "NEW", score |-> 0, listing |-> None]
                    ELSE NoLead]
  BY DEF Init
<1>2. [org |-> Employer[s], status |-> "NEW", score |-> 0, listing |-> None] \in LeadRow
  BY LeadAssumption DEF LeadRow, Orgs
<1>3. [org |-> Employer[s], status |-> "NEW", score |-> 0, listing |-> None] # NoLead
  BY <1>2, RowIsARow
<1>4. NoCall \in Call /\ NoCall.pc = "unused" /\ ~NoCall.heard /\ NoCall.answer = None
      /\ NoCall.form = None
  BY DEF NoCall, Call, Waiting, Orgs
<1> DEFINE Earlier == [NoCall EXCEPT !.pc = "over", !.answer = "created"]
<1>5. Earlier \in Call /\ Earlier.pc = "over" /\ Earlier.answer = "created"
      /\ ~Earlier.heard /\ Earlier.form = None
  BY DEF NoCall, Call, Waiting, Orgs
<1>6. \A c \in Calls : call[c] = IF c \in scene.earlier THEN Earlier ELSE NoCall
  BY DEF Init
<1> HIDE DEF Earlier
<1>7. /\ NoAck \in Ack /\ NoAck.pc = "none" /\ Gone("lost") \in Ack /\ Gone("lost").pc = "lost"
      /\ NoTask \in Task /\ NoTask.pc = "idle"
  BY DEF NoAck, Gone, Ack, NoTask, Task
<1>8. \A c \in Calls : /\ ack[c] = IF c \in scene.earlier THEN Gone("lost") ELSE NoAck
                       /\ lead[c] # NoLead <=> c \in scene.earlier
                       /\ lead[c] # NoLead => lead[c].status = "NEW"
                       /\ trail[c].whatsapp = << >> /\ trail[c].moves = << >>
                       /\ delivered[c] = 0
  BY <1>1, <1>3 DEF Init
<1>9. TypeInv
  <2>1. [whatsapp |-> << >>, moves |-> << >>] \in [whatsapp : Seq(Outcomes), moves : Seq(Statuses)]
    OBVIOUS
  <2>2. call \in [Calls -> Call] /\ ack \in [Calls -> Ack]
    BY <1>4, <1>5, <1>6, <1>7, <1>8 DEF Init
  <2>3. lead \in [Calls -> LeadRow \cup {NoLead}]
    BY <1>1, <1>2
  <2>4. form \in [Forms -> [status : {"idle", "submitting", "success", "error"},
                            content : Content]]
    BY LeadAssumption DEF Init
  <2>5. QED
    BY <1>7, <2>1, <2>2, <2>3, <2>4, LeadAssumption DEF Init, TypeInv
<1>10. EnquiryInv
  <2>1. ASSUME NEW c \in Calls PROVE Order(c) /\ Message(c)
    BY <1>4, <1>5, <1>6, <1>7, <1>8, LeadAssumption DEF Order, Message, Waiting
  <2>2. QED
    BY <2>1 DEF EnquiryInv
<1>11. FormInv
  BY <1>4, <1>5, <1>6 DEF FormInv, Holds, Init
<1>12. DeskInv
  <2>1. \A s2 \in Staff : task[s2].pc = "idle" /\ \A c \in Calls : row[s2][c] = None
    BY <1>7 DEF Init
  <2>2. QED
    BY <1>8, <2>1 DEF DeskInv, TasksInOrder, InStep, UpToDate, WorkingOn, LastStatus, Stored
<1>13. QED
  BY <1>9, <1>10, <1>11, <1>12 DEF LeadDeskInv

-----------------------------------------------------------------------------
(* What a step leaves alone.                                                *)
SameDesk == row' = row /\ task' = task /\ muddled' = muddled /\ stale' = stale

SameMail == ack' = ack /\ delivered' = delivered /\ trail' = trail

SameDeployment == deployment' = deployment /\ host' = host

(* A submission that nothing happens to, and its message.                   *)
LEMMA EnquiryKept ==
    ASSUME NEW c \in Calls, Order(c), Message(c), SameDeployment,
           call'[c] = call[c], ack'[c] = ack[c], delivered'[c] = delivered[c],
           trail'[c].whatsapp = trail[c].whatsapp,
           lead'[c] = NoLead <=> lead[c] = NoLead,
           lead'[c].org = lead[c].org, lead'[c].listing = lead[c].listing
    PROVE  Order(c)' /\ Message(c)'
<1>1. Order(c)'
  BY DEF Order, SameDeployment, Destination, Known
<1>2. Message(c)'
  BY DEF Message, SameDeployment, Skip
<1>3. QED
  BY <1>1, <1>2

(* No form learns anything.                                                 *)
LEMMA FormKept ==
    ASSUME FormInv, form' = form,
           \A c \in Calls : /\ call'[c].heard = call[c].heard
                            /\ call'[c].form = call[c].form
                            /\ call'[c].content = call[c].content
                            /\ call'[c].pc = "over" <=> call[c].pc = "over"
                            /\ call[c].pc = "over" => call'[c].answer = call[c].answer
    PROVE  FormInv'
  BY DEF FormInv, Holds

(* The queue is as it was.                                                  *)
LEMMA DeskKept ==
    ASSUME DeskInv, SameDesk,
           \A c \in Calls : /\ lead'[c] = NoLead <=> lead[c] = NoLead
                            /\ lead'[c].status = lead[c].status
                            /\ trail'[c].moves = trail[c].moves
    PROVE  DeskInv'
<1>1. Stored' = Stored /\ \A c \in Calls : WorkingOn(c)' = WorkingOn(c)
  BY DEF Stored, WorkingOn, SameDesk
<1>2. TasksInOrder'
  BY <1>1 DEF DeskInv, TasksInOrder, SameDesk, Stored
<1>3. \A c \in Stored' \ muddled' : InStep(c)'
  BY <1>1 DEF DeskInv, InStep, SameDesk, LastStatus, WorkingOn, Stored
<1>4. \A s \in Staff, c \in Calls : <<s, c>> \notin stale' => UpToDate(s, c)'
  BY <1>1 DEF DeskInv, UpToDate, SameDesk, WorkingOn, Stored
<1>5. QED
  BY <1>2, <1>3, <1>4 DEF DeskInv

-----------------------------------------------------------------------------
(* Submissions.                                                             *)

(* A submission moves on.                                                   *)
Advanced(c, pc, org, answer, heard) ==
    /\ call' \in [Calls -> Call]
    /\ call'[c].pc = pc /\ call'[c].org = org /\ call'[c].answer = answer
    /\ call'[c].heard = heard
    /\ call'[c].form = call[c].form /\ call'[c].content = call[c].content
    /\ \A d \in Calls : d # c => call'[d] = call[d]

(* An answer leaves everything else of a submission as it is.               *)
LEMMA AnswerFacts ==
    ASSUME TypeInv, NEW c \in Calls, NEW answer \in {"created", "failed", "throttled", "invalid"},
           Answer(c, answer)
    PROVE  Advanced(c, "answer", call[c].org, answer, call[c].heard)
<1>1. call' = [call EXCEPT ![c].pc = "answer", ![c].answer = answer] /\ call[c] \in Call
  BY DEF Answer, TypeInv
<1>2. QED
  BY <1>1 DEF Advanced, TypeInv, Call, Waiting

(* Steps that only move a submission on, and not out of the form's sight.   *)
LEMMA AdvanceInv ==
    ASSUME LeadDeskInv, NEW c \in Calls, NEW pc, NEW org, NEW answer,
           Advanced(c, pc, org, answer, call[c].heard),
           call[c].pc # "over", pc # "over", call[c].pc # "unused", pc # "unused",
           SameDeployment, SameDesk, SameMail, form' = form, lead' = lead, Order(c)'
    PROVE  LeadDeskInv'
<1> USE DEF LeadDeskInv
<1>1. TypeInv'
  BY DEF TypeInv, Advanced, SameDeployment, SameDesk, SameMail
<1>2. EnquiryInv'
  <2>1. ASSUME NEW d \in Calls
        PROVE  Order(d)' /\ Message(d)'
    <3>1. CASE d = c
      <4>1. Message(c)'
        BY DEF EnquiryInv, Message, Advanced, SameDeployment, SameMail, Skip
      <4>2. QED
        BY <3>1, <4>1
    <3>2. CASE d # c
      BY <3>2, EnquiryKept DEF EnquiryInv, Advanced, SameMail
    <3>3. QED
      BY <3>1, <3>2
  <2>2. QED
    BY <2>1 DEF EnquiryInv
<1>3. FormInv'
  <2>1. ASSUME NEW d \in Calls
        PROVE  /\ call'[d].heard = call[d].heard
               /\ call'[d].form = call[d].form
               /\ call'[d].content = call[d].content
               /\ call'[d].pc = "over" <=> call[d].pc = "over"
               /\ call[d].pc = "over" => call'[d].answer = call[d].answer
    BY DEF Advanced
  <2>2. QED
    BY <2>1, FormKept
<1>4. DeskInv'
  BY DeskKept DEF SameMail
<1>5. QED
  BY <1>1, <1>2, <1>3, <1>4

(* A submission on its way through the route, the guards and the routing of *)
(* leads, or given up there.                                                *)
LEMMA TransitInv ==
    ASSUME LeadDeskInv, NEW c \in Calls, Forward(c) \/ Arrive(c) \/ Resolve(c) \/ Fail(c)
    PROVE  LeadDeskInv'
<1>1. /\ SameDeployment /\ SameDesk /\ SameMail /\ form' = form /\ lead' = lead
      /\ call[c].pc \in {"route", "api", "resolve", "store"}
  BY DEF Forward, Arrive, Resolve, Fail, fixed, leadVars, deskVars, history,
         SameDeployment, SameDesk, SameMail
<1>2. /\ Order(c) /\ call[c] \in Call /\ TypeInv
      /\ lead[c] = NoLead /\ ack[c].pc = "none" /\ call[c].answer = None
  BY <1>1 DEF LeadDeskInv, TypeInv, EnquiryInv, Order
<1>3. CASE Forward(c)
  <2>1. call' = [call EXCEPT ![c].pc = "api"] /\ call[c].pc = "route"
    BY <1>3 DEF Forward
  <2>2. Advanced(c, "api", call[c].org, call[c].answer, call[c].heard)
    BY <1>2, <2>1 DEF Advanced, TypeInv, Call, Waiting
  <2>3. Order(c)'
    BY <1>1, <1>2, <2>1, <2>2 DEF Order, Advanced, SameMail, Waiting
  <2>4. QED
    BY <1>1, <2>1, <2>2, <2>3, AdvanceInv
<1>4. ASSUME NEW a \in {"failed", "throttled", "invalid"}, Answer(c, a)
      PROVE  LeadDeskInv'
  <2>1. Advanced(c, "answer", call[c].org, a, call[c].heard)
    BY <1>2, <1>4, AnswerFacts
  <2>2. Order(c)'
    BY <1>1, <1>2, <2>1 DEF Order, Advanced, SameMail, Waiting
  <2>3. QED
    BY <1>1, <2>1, <2>2, AdvanceInv
<1>5. CASE Arrive(c)
  <2>1. CASE counted >= ThrottleLimit \/ call[c].content.phone = "typo"
    BY <1>4, <1>5, <2>1 DEF Arrive
  <2>2. CASE ~(counted >= ThrottleLimit \/ call[c].content.phone = "typo")
    <3>1. /\ call' = [call EXCEPT ![c].pc = "resolve"] /\ call[c].pc = "api"
          /\ call[c].content.phone # "typo"
      BY <1>5, <2>2 DEF Arrive
    <3>2. Advanced(c, "resolve", call[c].org, call[c].answer, call[c].heard)
      BY <1>2, <3>1 DEF Advanced, TypeInv, Call, Waiting
    <3>3. Order(c)'
      BY <1>1, <1>2, <3>1, <3>2 DEF Order, Advanced, SameMail, Waiting
    <3>4. QED
      BY <1>1, <3>1, <3>2, <3>3, AdvanceInv
  <2>3. QED
    BY <2>1, <2>2
<1>6. CASE Resolve(c)
  <2>1. CASE Destination(call[c].content) = None
    BY <1>4, <1>6, <2>1 DEF Resolve
  <2>2. CASE Destination(call[c].content) # None
    <3> DEFINE org == Destination(call[c].content)
    <3>1. /\ call' = [call EXCEPT ![c].pc = "store", ![c].org = org]
          /\ call[c].pc = "resolve"
      BY <1>6, <2>2 DEF Resolve
    <3>2. org \in Orgs
      BY <1>2 DEF Destination, Known, Orgs, TypeInv
    <3> HIDE DEF org
    <3>3. Advanced(c, "store", org, call[c].answer, call[c].heard)
      BY <1>2, <3>1, <3>2 DEF Advanced, TypeInv, Call, Waiting
    <3>4. Destination(call[c].content)' = org
      BY <1>1, <3>3 DEF org, Advanced, Destination, Known, SameDeployment
    <3>5. Order(c)'
      BY <1>1, <1>2, <2>2, <3>1, <3>3, <3>4 DEF Order, Advanced, SameMail, Waiting, org
    <3>6. QED
      BY <1>1, <3>1, <3>3, <3>5, AdvanceInv
  <2>3. QED
    BY <2>1, <2>2
<1>7. CASE Fail(c)
  BY <1>4, <1>7 DEF Fail
<1>8. QED
  BY <1>3, <1>5, <1>6, <1>7

(* A lead is stored, by the one submission that is at it.                   *)
LEMMA StoreInv ==
    ASSUME LeadDeskInv, NEW c \in Calls, Store(c)
    PROVE  LeadDeskInv'
<1> DEFINE new == [org |-> call[c].org, status |-> "NEW", score |-> Score(call[c].content),
                   listing |-> IF Known(call[c].content) THEN call[c].content.listing ELSE None]
<1>1. /\ call[c].pc = "store" /\ lead' = [lead EXCEPT ![c] = new]
      /\ call' = [call EXCEPT ![c].pc = "stored"]
      /\ SameDeployment /\ SameDesk /\ SameMail /\ form' = form
  BY DEF Store, fixed, deskVars, history, SameDeployment, SameDesk, SameMail
<1>2. /\ TypeInv /\ Order(c) /\ Message(c) /\ call[c] \in Call
      /\ lead[c] = NoLead /\ ack[c].pc = "none" /\ call[c].answer = None
      /\ call[c].content \in Content
  BY <1>1 DEF LeadDeskInv, TypeInv, EnquiryInv, Order, Waiting
<1>3. /\ new.org = call[c].org /\ new.status = "NEW"
      /\ new.listing = IF Known(call[c].content) THEN call[c].content.listing ELSE None
      /\ new \in LeadRow
  <2>1. Score(call[c].content) \in Nat
    BY <1>2, ScoreInRange
  <2>2. call[c].org \in Orgs
    BY <1>2 DEF Call
  <2>3. QED
    BY <2>1, <2>2, LeadAssumption DEF LeadRow, Known
<1>4. new # NoLead
  BY <1>3, RowIsARow
<1> HIDE DEF new
<1>5. /\ lead'[c] = new /\ \A d \in Calls : d # c => lead'[d] = lead[d]
      /\ lead' \in [Calls -> LeadRow \cup {NoLead}]
  BY <1>1, <1>2, <1>3 DEF TypeInv
<1>6. Advanced(c, "stored", call[c].org, None, call[c].heard)
  BY <1>1, <1>2 DEF Advanced, TypeInv, Call, Waiting
<1>7. TypeInv'
  BY <1>1, <1>2, <1>5, <1>6 DEF TypeInv, Advanced, SameDeployment, SameDesk, SameMail
<1>8. EnquiryInv'
  <2>1. ASSUME NEW d \in Calls, d # c
        PROVE  Order(d)' /\ Message(d)'
    BY <1>1, <1>5, <1>6, <2>1, EnquiryKept DEF LeadDeskInv, EnquiryInv, Advanced, SameMail
  <2>2. Order(c)'
    BY <1>1, <1>2, <1>3, <1>4, <1>5, <1>6
    DEF Order, Advanced, SameMail, SameDeployment, Waiting, Destination, Known
  <2>3. Message(c)'
    BY <1>1, <1>2, <1>5, <1>6 DEF Message, Advanced, SameMail, SameDeployment, Skip
  <2>4. QED
    BY <2>1, <2>2, <2>3 DEF EnquiryInv
<1>9. FormInv'
  <2>1. \A d \in Calls : /\ call'[d].heard = call[d].heard
                         /\ call'[d].form = call[d].form
                         /\ call'[d].content = call[d].content
                         /\ call'[d].pc = "over" <=> call[d].pc = "over"
                         /\ call[d].pc = "over" => call'[d].answer = call[d].answer
    BY <1>1, <1>6 DEF Advanced
  <2>2. QED
    BY <1>1, <2>1, FormKept DEF LeadDeskInv
<1>10. DeskInv'
  <2>1. TasksInOrder
    BY DEF LeadDeskInv, DeskInv
  <2>2. /\ \A s \in Staff : row[s][c] = None /\ ~(task[s].pc # "idle" /\ task[s].lead = c)
        /\ trail[c].moves = << >> /\ c \notin Stored
    BY <1>2, <2>1 DEF TasksInOrder, Stored
  <2>3. Stored' = Stored \cup {c} /\ \A d \in Calls : WorkingOn(d)' = WorkingOn(d)
    BY <1>1, <1>4, <1>5 DEF Stored, WorkingOn, SameDesk
  <2>4. TasksInOrder'
    BY <1>1, <2>1, <2>3 DEF TasksInOrder, SameDesk, SameMail, Stored
  <2>5. ASSUME NEW d \in Stored' \ muddled'
        PROVE  InStep(d)'
    <3>1. CASE d = c
      BY <1>1, <1>3, <1>5, <2>2, <3>1 DEF InStep, LastStatus, WorkingOn, SameDesk, SameMail
    <3>2. CASE d # c
      <4>1. d \in Calls /\ lead'[d] = lead[d] /\ InStep(d)
        BY <1>1, <1>5, <2>3, <2>5, <3>2 DEF LeadDeskInv, DeskInv, SameDesk, Stored
      <4>2. QED
        BY <1>1, <4>1 DEF InStep, LastStatus, WorkingOn, SameDesk, SameMail
    <3>3. QED
      BY <3>1, <3>2
  <2>6. ASSUME NEW s \in Staff, NEW d \in Calls, <<s, d>> \notin stale'
        PROVE  UpToDate(s, d)'
    <3>1. CASE d = c
      BY <1>1, <2>2, <3>1 DEF UpToDate, WorkingOn, SameDesk
    <3>2. CASE d # c
      <4>1. lead'[d] = lead[d] /\ UpToDate(s, d)
        BY <1>1, <1>5, <2>6, <3>2 DEF LeadDeskInv, DeskInv, SameDesk
      <4>2. QED
        BY <1>1, <4>1 DEF UpToDate, WorkingOn, SameDesk
    <3>3. QED
      BY <3>1, <3>2
  <2>7. QED
    BY <2>4, <2>5, <2>6 DEF DeskInv
<1>11. QED
  BY <1>7, <1>8, <1>9, <1>10 DEF LeadDeskInv

(* The 201 goes back, or gets lost, and an acknowledgement is started.      *)
LEMMA CreatedInv ==
    ASSUME LeadDeskInv, NEW c \in Calls, Created(c)
    PROVE  LeadDeskInv'
<1>1. PICK answer \in {"created", "failed"} :
      /\ call[c].pc = "stored" /\ Answer(c, answer)
      /\ ack' = [ack EXCEPT ![c].pc = "lookup"]
      /\ SameDeployment /\ SameDesk /\ form' = form /\ lead' = lead
      /\ delivered' = delivered /\ trail' = trail
  BY DEF Created, fixed, leadVars, deskVars, history, SameDeployment, SameDesk
<1>2. /\ TypeInv /\ Order(c) /\ Message(c) /\ call[c] \in Call /\ ack[c] \in Ack
      /\ lead[c] # NoLead /\ ack[c].pc = "none" /\ call[c].content.phone # "typo"
      /\ call[c].content \in Content
  BY <1>1 DEF LeadDeskInv, TypeInv, EnquiryInv, Order, Waiting
<1>3. Advanced(c, "answer", call[c].org, answer, call[c].heard)
  BY <1>1, <1>2, AnswerFacts
<1>4. /\ ack'[c].pc = "lookup" /\ ack' \in [Calls -> Ack]
      /\ \A d \in Calls : d # c => ack'[d] = ack[d]
  BY <1>1, <1>2 DEF TypeInv, Ack
<1>5. TypeInv'
  BY <1>1, <1>2, <1>3, <1>4 DEF TypeInv, Advanced, SameDeployment, SameDesk
<1>6. EnquiryInv'
  <2>1. ASSUME NEW d \in Calls, d # c
        PROVE  Order(d)' /\ Message(d)'
    BY <1>1, <1>3, <1>4, <2>1, EnquiryKept DEF LeadDeskInv, EnquiryInv, Advanced
  <2>2. Order(c)'
    BY <1>1, <1>2, <1>3, <1>4
    DEF Order, Advanced, SameDeployment, Waiting, Destination, Known
  <2>3. Message(c)'
    BY <1>1, <1>2, <1>3, <1>4 DEF Message, Advanced, SameDeployment
  <2>4. QED
    BY <2>1, <2>2, <2>3 DEF EnquiryInv
<1>7. FormInv'
  <2>1. \A d \in Calls : /\ call'[d].heard = call[d].heard
                         /\ call'[d].form = call[d].form
                         /\ call'[d].content = call[d].content
                         /\ call'[d].pc = "over" <=> call[d].pc = "over"
                         /\ call[d].pc = "over" => call'[d].answer = call[d].answer
    BY <1>1, <1>3 DEF Advanced
  <2>2. QED
    BY <1>1, <2>1, FormKept DEF LeadDeskInv
<1>8. DeskInv'
  BY <1>1, DeskKept DEF LeadDeskInv
<1>9. QED
  BY <1>5, <1>6, <1>7, <1>8 DEF LeadDeskInv

(* The answer arrives, or the connection is lost: the form that waits for   *)
(* it is told.                                                              *)
LEMMA HearInv ==
    ASSUME LeadDeskInv, NEW c \in Calls, Receive(c) \/ Disconnect(c)
    PROVE  LeadDeskInv'
<1>1. /\ TypeInv /\ call[c] \in Call /\ Order(c) /\ Message(c)
      /\ SameDeployment /\ SameDesk /\ SameMail /\ lead' = lead
  BY DEF Receive, Disconnect, fixed, leadVars, deskVars, history,
         SameDeployment, SameDesk, SameMail, LeadDeskInv, TypeInv, EnquiryInv
<1>2. /\ \A d \in Calls : Holds(d) =>
            /\ call[d].form \in Forms /\ call[d].content \in Content
            /\ form[call[d].form].status = IF call[d].pc = "over" THEN "success" ELSE "submitting"
            /\ form[call[d].form].content = call[d].content
      /\ \A d, e \in Calls : Holds(d) /\ Holds(e) /\ call[d].form = call[e].form => d = e
  BY DEF LeadDeskInv, FormInv, EnquiryInv, Order, Holds
<1>3. PICK heard \in BOOLEAN, pc \in {"unused", "over"} \cup Waiting :
        /\ Advanced(c, pc, call[c].org, call[c].answer, heard)
        /\ call[c].pc \notin {"unused", "over"} /\ pc # "unused"
        /\ heard => call[c].heard /\ pc = "over" /\ call[c].pc = "answer"
        /\ pc = "over" => call[c].pc = "answer" /\ heard = call[c].heard
        /\ pc # "over" => pc = call[c].pc /\ call[c].heard
        /\ form' = IF call[c].heard
                   THEN [form EXCEPT ![call[c].form].status =
                            IF heard /\ call[c].answer = "created" THEN "success" ELSE "error"]
                   ELSE form
  <2>1. CASE Receive(c)
    <3>1. /\ call' = [call EXCEPT ![c].pc = "over"] /\ call[c].pc = "answer"
          /\ form' = IF call[c].heard
                     THEN [form EXCEPT ![call[c].form].status =
                            IF call[c].answer = "created" THEN "success" ELSE "error"]
                     ELSE form
      BY <2>1 DEF Receive
    <3>2. Advanced(c, "over", call[c].org, call[c].answer, call[c].heard)
      BY <1>1, <3>1 DEF Advanced, TypeInv, Call, Waiting
    <3>3. call[c].heard \in BOOLEAN
      BY <1>1 DEF Call
    <3>4. CASE call[c].heard
      BY <3>1, <3>2, <3>3, <3>4
    <3>5. CASE ~call[c].heard
      BY <3>1, <3>2, <3>3, <3>5
    <3>6. QED
      BY <3>4, <3>5
  <2>2. CASE Disconnect(c)
    <3>1. /\ call' = [call EXCEPT ![c].heard = FALSE] /\ call[c].heard
          /\ form' = [form EXCEPT ![call[c].form].status = "error"]
          /\ call[c].pc \notin {"unused", "over"}
      BY <2>2 DEF Disconnect
    <3>2. Advanced(c, call[c].pc, call[c].org, call[c].answer, FALSE)
      BY <1>1, <3>1 DEF Advanced, TypeInv, Call, Waiting
    <3>3. call[c].pc \in {"unused", "over"} \cup Waiting
      BY <1>1 DEF Call
    <3>4. QED
      BY <3>1, <3>2, <3>3
  <2>3. QED
    BY <2>1, <2>2
<1>4. /\ call[c].heard => call[c].form \in Forms
      /\ form' \in [Forms -> [status : {"idle", "submitting", "success", "error"},
                              content : Content]]
      /\ \A f \in Forms : /\ form'[f].content = form[f].content
                          /\ ~call[c].heard \/ f # call[c].form =>
                                form'[f].status = form[f].status
      /\ call[c].heard => form'[call[c].form].status =
                IF heard /\ call[c].answer = "created" THEN "success" ELSE "error"
  <2>1. call[c].heard => call[c].form \in Forms
    BY <1>1 DEF Order
  <2>2. CASE call[c].heard
    <3>1. PICK shown \in {"success", "error"} :
            /\ shown = IF heard /\ call[c].answer = "created" THEN "success" ELSE "error"
            /\ form' = [form EXCEPT ![call[c].form].status = shown]
      BY <1>3, <2>2
    <3>2. call[c].form \in Forms
      BY <2>1, <2>2
    <3>3. /\ form' \in [Forms -> [status : {"idle", "submitting", "success", "error"},
                                  content : Content]]
          /\ \A f \in Forms : /\ form'[f].content = form[f].content
                              /\ f # call[c].form => form'[f].status = form[f].status
          /\ form'[call[c].form].status = shown
      <4>1. form \in [Forms -> [status : {"idle", "submitting", "success", "error"},
                                content : Content]]
        BY <1>1 DEF TypeInv
      <4>2. PICK f \in Forms : f = call[c].form
        BY <3>2
      <4>3. form' = [form EXCEPT ![f].status = shown]
        BY <3>1, <4>2, Zenon
      <4>4. shown \in {"idle", "submitting", "success", "error"}
        BY <3>1
      <4> QED
        BY <4>1, <4>2, <4>3, <4>4
    <3>4. QED
      BY <2>1, <2>2, <3>1, <3>3
  <2>3. CASE ~call[c].heard
    BY <1>1, <1>3, <2>1, <2>3 DEF TypeInv
  <2>4. QED
    BY <2>2, <2>3
<1>5. TypeInv'
  BY <1>1, <1>3, <1>4 DEF TypeInv, Advanced, SameDeployment, SameDesk, SameMail
<1>6. EnquiryInv'
  <2>1. ASSUME NEW d \in Calls, d # c
        PROVE  Order(d)' /\ Message(d)'
    BY <1>1, <1>3, <2>1, EnquiryKept DEF LeadDeskInv, EnquiryInv, Advanced, SameMail
  <2>2. Order(c)'
    BY <1>1, <1>3
    DEF Order, Advanced, SameMail, SameDeployment, Waiting, Destination, Known
  <2>3. Message(c)'
    BY <1>1, <1>3 DEF Message, Advanced, SameMail, SameDeployment, Skip
  <2>4. QED
    BY <2>1, <2>2, <2>3 DEF EnquiryInv
<1>7. FormInv'
  <2>1. ASSUME NEW d \in Calls
        PROVE  /\ Holds(d)' => Holds(d)
               /\ call'[d].form = call[d].form /\ call'[d].content = call[d].content
               /\ d # c => call'[d] = call[d] /\ (Holds(d) => Holds(d)')
    BY <1>3 DEF Holds, Advanced
  <2>2. call[c].heard => Holds(c)
    BY <1>3 DEF Holds
  <2>3. ASSUME NEW d \in Calls, Holds(d)'
        PROVE  /\ form'[call'[d].form].status =
                        IF call'[d].pc = "over" THEN "success" ELSE "submitting"
               /\ form'[call'[d].form].content = call'[d].content
    <3>1. CASE d = c
      <4>1. call[c].heard /\ heard /\ pc = "over" /\ call[c].answer = "created"
        BY <1>3, <2>3, <3>1 DEF Holds, Advanced
      <4>2. QED
        BY <1>2, <1>3, <1>4, <2>1, <2>2, <3>1, <4>1 DEF Advanced
    <3>2. CASE d # c
      <4>1. Holds(d) /\ call'[d] = call[d] /\ call[d].form \in Forms
        BY <1>2, <2>1, <2>3, <3>2
      <4>2. ~call[c].heard \/ call[d].form # call[c].form
        BY <1>2, <2>2, <3>2, <4>1
      <4>3. QED
        BY <1>2, <1>4, <4>1, <4>2
    <3>3. QED
      BY <3>1, <3>2
  <2>4. \A d, e \in Calls : Holds(d)' /\ Holds(e)' /\ call'[d].form = call'[e].form => d = e
    BY <1>2, <2>1
  <2>5. ASSUME NEW f \in Forms, form'[f].status = "success"
        PROVE  \E d \in Calls : Holds(d)' /\ call'[d].pc = "over" /\ call'[d].form = f
    <3>1. CASE call[c].heard /\ f = call[c].form
      <4>1. heard /\ call[c].answer = "created" /\ pc = "over"
        BY <1>3, <1>4, <2>5, <3>1
      <4>2. Holds(c)' /\ call'[c].pc = "over" /\ call'[c].form = f
        BY <1>3, <3>1, <4>1 DEF Holds, Advanced
      <4>3. QED
        BY <4>2
    <3>2. CASE ~(call[c].heard /\ f = call[c].form)
      <4>1. PICK d \in Calls : Holds(d) /\ call[d].pc = "over" /\ call[d].form = f
        BY <1>4, <2>5, <3>2 DEF LeadDeskInv, FormInv
      <4>2. d # c
        BY <1>3, <4>1
      <4>3. Holds(d)' /\ call'[d].pc = "over" /\ call'[d].form = f
        BY <2>1, <4>1, <4>2
      <4>4. QED
        BY <4>3
    <3>3. QED
      BY <3>1, <3>2
  <2>6. QED
    BY <2>3, <2>4, <2>5 DEF FormInv, Holds
<1>8. DeskInv'
  BY <1>1, DeskKept DEF LeadDeskInv, SameMail
<1>9. QED
  BY <1>5, <1>6, <1>7, <1>8 DEF LeadDeskInv

(* A form that waits for nothing is sent, under a name never used before.   *)
LEMMA SubmitInv ==
    ASSUME LeadDeskInv, NEW f \in Forms, NEW c \in Calls, Submit(f, c)
    PROVE  LeadDeskInv'
<1>1. /\ SameDeployment /\ SameDesk /\ SameMail /\ lead' = lead
      /\ form[f].status \in {"idle", "error"} /\ TypeInv
  BY DEF Submit, Submittable, fixed, leadVars, deskVars, history,
         SameDeployment, SameDesk, SameMail, LeadDeskInv
<1>2. call[c] = NoCall
  <2>1. c # None /\ c = Fresh
    BY LeadAssumption DEF Submit
  <2>2. Fresh \in Unused
    BY <2>1 DEF Fresh
  <2>3. QED
    BY <2>1, <2>2 DEF Unused
<1>3. PICK content \in Content :
        /\ form' = [form EXCEPT ![f] = [status |-> "submitting", content |-> content]]
        /\ call' = [call EXCEPT ![c] = [NoCall EXCEPT
                !.pc = "route", !.form = f, !.content = content, !.heard = TRUE]]
  BY LeadAssumption DEF Submit
<1>4. /\ call'[c] \in Call /\ call'[c].pc = "route" /\ call'[c].form = f
      /\ call'[c].content = content /\ call'[c].heard /\ call'[c].answer = None
      /\ call' \in [Calls -> Call] /\ \A d \in Calls : d # c => call'[d] = call[d]
  <2>1. NoCall \in Call
    BY <1>1, <1>2 DEF TypeInv
  <2>2. NoCall.answer = None
    BY DEF NoCall
  <2>3. call'[c] = [NoCall EXCEPT !.pc = "route", !.form = f, !.content = content, !.heard = TRUE]
    BY <1>1, <1>3 DEF TypeInv
  <2>4. /\ call'[c] \in Call /\ call'[c].pc = "route" /\ call'[c].form = f
        /\ call'[c].content = content /\ call'[c].heard /\ call'[c].answer = None
    BY <2>1, <2>2, <2>3 DEF Call, Waiting
  <2>5. QED
    BY <1>1, <1>3, <2>4 DEF TypeInv
<1>5. /\ form'[f].status = "submitting" /\ form'[f].content = content
      /\ \A g \in Forms : g # f => form'[g] = form[g]
      /\ form' \in [Forms -> [status : {"idle", "submitting", "success", "error"},
                              content : Content]]
  BY <1>1, <1>3 DEF TypeInv
<1>6. /\ lead[c] = NoLead /\ ack[c].pc = "none" /\ call[c].pc = "unused" /\ ~call[c].heard
      /\ Message(c)
  BY <1>2 DEF LeadDeskInv, EnquiryInv, Order, NoCall
<1>7. TypeInv'
  BY <1>1, <1>4, <1>5 DEF TypeInv, SameDeployment, SameDesk, SameMail
<1>8. EnquiryInv'
  <2>1. ASSUME NEW d \in Calls, d # c
        PROVE  Order(d)' /\ Message(d)'
    BY <1>1, <1>4, <2>1, EnquiryKept DEF LeadDeskInv, EnquiryInv, SameMail
  <2>2. Order(c)'
    BY <1>1, <1>4, <1>6 DEF Order, SameMail, Waiting
  <2>3. Message(c)'
    BY <1>1, <1>4, <1>6 DEF Message, SameMail, SameDeployment
  <2>4. QED
    BY <2>1, <2>2, <2>3 DEF EnquiryInv
<1>9. FormInv'
  <2>1. \A d \in Calls : Holds(d) => call[d].form # f /\ call[d].form \in Forms
    BY <1>1 DEF LeadDeskInv, FormInv, EnquiryInv, Order, Holds
  <2>2. \A d \in Calls : d # c => (Holds(d)' <=> Holds(d)) /\ call'[d] = call[d]
    BY <1>4 DEF Holds
  <2>3. ASSUME NEW d \in Calls, Holds(d)'
        PROVE  /\ form'[call'[d].form].status =
                        IF call'[d].pc = "over" THEN "success" ELSE "submitting"
               /\ form'[call'[d].form].content = call'[d].content
    BY <1>4, <1>5, <2>1, <2>2, <2>3 DEF LeadDeskInv, FormInv
  <2>4. \A d, e \in Calls : Holds(d)' /\ Holds(e)' /\ call'[d].form = call'[e].form => d = e
    BY <1>4, <2>1, <2>2 DEF LeadDeskInv, FormInv
  <2>5. ASSUME NEW g \in Forms, form'[g].status = "success"
        PROVE  \E d \in Calls : Holds(d)' /\ call'[d].pc = "over" /\ call'[d].form = g
    <3>1. g # f /\ form[g].status = "success"
      BY <1>5, <2>5
    <3>2. PICK d \in Calls : Holds(d) /\ call[d].pc = "over" /\ call[d].form = g
      BY <3>1 DEF LeadDeskInv, FormInv
    <3>3. d # c
      BY <1>6, <3>2
    <3>4. Holds(d)' /\ call'[d].pc = "over" /\ call'[d].form = g
      BY <2>2, <3>2, <3>3
    <3>5. QED
      BY <3>4
  <2>6. QED
    BY <2>3, <2>4, <2>5 DEF FormInv, Holds
<1>10. DeskInv'
  BY <1>1, DeskKept DEF LeadDeskInv, SameMail
<1>11. QED
  BY <1>7, <1>8, <1>9, <1>10 DEF LeadDeskInv

-----------------------------------------------------------------------------
(* Acknowledgements.                                                        *)

(* The message of one submission moves on.                                  *)
LEMMA MailInv ==
    ASSUME LeadDeskInv, NEW c \in Calls, ack[c].pc \in {"lookup", "send", "record"},
           SameDeployment, SameDesk, form' = form, call' = call, lead' = lead,
           ack' \in [Calls -> Ack], ack'[c].pc # "none",
           delivered' \in [Calls -> Nat],
           trail' \in [Calls -> [whatsapp : Seq(Outcomes), moves : Seq(Statuses)]],
           trail'[c].moves = trail[c].moves,
           \A d \in Calls : d # c => /\ ack'[d] = ack[d] /\ delivered'[d] = delivered[d]
                                     /\ trail'[d] = trail[d],
           Message(c)'
    PROVE  LeadDeskInv'
<1>1. TypeInv'
  BY DEF LeadDeskInv, TypeInv, SameDeployment, SameDesk
<1>2. EnquiryInv'
  <2>1. ASSUME NEW d \in Calls, d # c
        PROVE  Order(d)' /\ Message(d)'
    BY <2>1, EnquiryKept DEF LeadDeskInv, EnquiryInv
  <2>2. Order(c)'
    BY DEF LeadDeskInv, EnquiryInv, Order, SameDeployment, Destination, Known
  <2>3. QED
    BY <2>1, <2>2 DEF EnquiryInv
<1>3. FormInv'
  BY FormKept DEF LeadDeskInv
<1>4. DeskInv'
  BY DeskKept DEF LeadDeskInv
<1>5. QED
  BY <1>1, <1>2, <1>3, <1>4 DEF LeadDeskInv

(* The reasons to send nothing are looked at, or the lookup fails.          *)
LEMMA DispatchInv ==
    ASSUME LeadDeskInv, NEW c \in Calls, Dispatch(c)
    PROVE  LeadDeskInv'
<1>1. /\ ack[c].pc = "lookup" /\ ack[c] \in Ack /\ TypeInv /\ Message(c)
      /\ SameDeployment /\ SameDesk /\ form' = form /\ call' = call /\ lead' = lead
      /\ delivered' = delivered /\ trail' = trail
  BY DEF Dispatch, fixed, webVars, leadVars, deskVars, history, SameDeployment, SameDesk,
         LeadDeskInv, TypeInv, EnquiryInv
<1>2. PICK pc \in {"record", "send", "lost"} :
        /\ ack' \in [Calls -> Ack] /\ ack'[c].pc = pc
        /\ \A d \in Calls : d # c => ack'[d] = ack[d]
        /\ pc = "record" => ack'[c].outcome = "skipped"
        /\ pc = "send" => ~Skip(call[c].content)
  <2>1. CASE Skip(call[c].content) /\ Outcome(c, "skipped")
    <3>1. ack' = [ack EXCEPT ![c].pc = "record", ![c].outcome = "skipped"]
      BY <2>1 DEF Outcome
    <3>2. QED
      BY <1>1, <3>1 DEF TypeInv, Ack, Outcomes
  <2>2. CASE ~Skip(call[c].content) /\ ack' = [ack EXCEPT ![c].pc = "send"]
    BY <1>1, <2>2 DEF TypeInv, Ack
  <2>3. CASE ack' = [ack EXCEPT ![c] = Gone("lost")]
    <3>1. Gone("lost") \in Ack /\ Gone("lost").pc = "lost"
      BY DEF Gone, NoAck, Ack
    <3>2. QED
      BY <1>1, <2>3, <3>1 DEF TypeInv
  <2>4. QED
    BY <2>1, <2>2, <2>3 DEF Dispatch
<1>3. Message(c)'
  BY <1>1, <1>2 DEF Message, SameDeployment, Skip, Outcomes
<1>4. trail' \in [Calls -> [whatsapp : Seq(Outcomes), moves : Seq(Statuses)]]
      /\ delivered' \in [Calls -> Nat]
  BY <1>1 DEF TypeInv
<1>5. QED
  BY <1>1, <1>2, <1>3, <1>4, MailInv

(* An attempt to send: what it comes to, and whether the message arrived.   *)
LEMMA AttemptInv ==
    ASSUME LeadDeskInv, NEW c \in Calls, Accepted(c) \/ Rejected(c) \/ TimedOut(c)
    PROVE  LeadDeskInv'
<1>1. /\ ack[c].pc = "send" /\ ack[c] \in Ack /\ TypeInv /\ Message(c)
      /\ SameDeployment /\ SameDesk /\ form' = form /\ call' = call /\ lead' = lead
      /\ trail' = trail
      /\ delivered[c] \in Nat
  BY DEF Accepted, Rejected, TimedOut, fixed, webVars, leadVars, deskVars, history,
         SameDeployment, SameDesk, LeadDeskInv, TypeInv, EnquiryInv
<1>2. PICK pc \in {"send", "record"}, outcome \in Outcomes \cup {None}, n \in {0, 1} :
        /\ ack' \in [Calls -> Ack] /\ ack'[c].pc = pc /\ ack'[c].outcome = outcome
        /\ \A d \in Calls : d # c => ack'[d] = ack[d]
        /\ delivered' = [delivered EXCEPT ![c] = delivered[c] + n]
        /\ n > 0 => deployment.live
        /\ pc = "record" => /\ outcome \in Outcomes \ {"skipped"}
                            /\ outcome = "sent" => n = 1
                            /\ outcome = "simulated" => ~deployment.live
  <2>1. ack[c].tries + 1 \in Nat
    BY <1>1 DEF Ack
  <2>2. CASE Accepted(c)
    <3>1. PICK outcome \in {"sent", "simulated"} :
            /\ outcome = IF deployment.live THEN "sent" ELSE "simulated"
            /\ ack' = [ack EXCEPT ![c] = [pc |-> "record", tries |-> ack[c].tries + 1,
                                          outcome |-> outcome]]
      BY <2>2 DEF Accepted
    <3>2. [pc |-> "record", tries |-> ack[c].tries + 1, outcome |-> outcome] \in Ack
      BY <2>1 DEF Ack, Outcomes
    <3>3. PICK n \in {0, 1} :
            /\ n = IF deployment.live THEN 1 ELSE 0
            /\ delivered' = [delivered EXCEPT ![c] = delivered[c] + n]
      <4>1. CASE deployment.live
        BY <2>2, <4>1 DEF Accepted
      <4>2. CASE ~deployment.live
        <5>1. delivered' = [delivered EXCEPT ![c] = delivered[c]] /\ delivered[c] = delivered[c] + 0
          BY <1>1, <2>2, <4>2 DEF Accepted
        <5>2. QED
          BY <4>2, <5>1
      <4>3. QED
        BY <4>1, <4>2
    <3>4. /\ ack' \in [Calls -> Ack] /\ ack'[c].pc = "record" /\ ack'[c].outcome = outcome
          /\ \A d \in Calls : d # c => ack'[d] = ack[d]
      BY <1>1, <3>1, <3>2 DEF TypeInv
    <3>5. /\ outcome \in Outcomes \ {"skipped"}
          /\ outcome = "sent" => n = 1
          /\ outcome = "simulated" => ~deployment.live
      BY <3>1, <3>3 DEF Outcomes
    <3>6. delivered' = [delivered EXCEPT ![c] = delivered[c] + n] /\ (n > 0 => deployment.live)
      BY <3>3
    <3>7. "record" \in {"send", "record"} /\ outcome \in Outcomes \cup {None}
      BY <3>5
    <3>8. /\ ack' \in [Calls -> Ack] /\ ack'[c].pc = "record" /\ ack'[c].outcome = outcome
          /\ \A d \in Calls : d # c => ack'[d] = ack[d]
          /\ delivered' = [delivered EXCEPT ![c] = delivered[c] + n]
          /\ n > 0 => deployment.live
          /\ "record" = "record" => /\ outcome \in Outcomes \ {"skipped"}
                                    /\ outcome = "sent" => n = 1
                                    /\ outcome = "simulated" => ~deployment.live
      BY <3>4, <3>5, <3>6
    <3>9. QED
      BY <3>7, <3>8
  <2>3. CASE Rejected(c)
    <3>1. [pc |-> "record", tries |-> ack[c].tries + 1, outcome |-> "failed"] \in Ack
      BY <2>1 DEF Ack, Outcomes
    <3>2. /\ ack' \in [Calls -> Ack] /\ ack'[c].pc = "record" /\ ack'[c].outcome = "failed"
          /\ \A d \in Calls : d # c => ack'[d] = ack[d]
      BY <1>1, <2>3, <3>1 DEF TypeInv, Rejected
    <3>3. delivered' = [delivered EXCEPT ![c] = delivered[c] + 0]
      BY <1>1, <2>3 DEF Rejected, history, TypeInv
    <3>4. QED
      BY <3>2, <3>3 DEF Outcomes
  <2>4. CASE TimedOut(c)
    <3>1. PICK n \in {0, 1} : delivered' = [delivered EXCEPT ![c] = delivered[c] + n]
      BY <2>4 DEF TimedOut
    <3>2. CASE ack[c].tries + 1 < OUTBOUND_MAX_ATTEMPTS
      <4>1. ack' = [ack EXCEPT ![c] = [ack[c] EXCEPT !.tries = ack[c].tries + 1]]
        <5>1. ack' = [ack EXCEPT ![c] =
                        IF ack[c].tries + 1 < OUTBOUND_MAX_ATTEMPTS
                        THEN [ack[c] EXCEPT !.tries = ack[c].tries + 1]
                        ELSE [pc |-> "record", tries |-> ack[c].tries + 1, outcome |-> "failed"]]
          BY <2>4 DEF TimedOut
        <5>2. QED
          BY <3>2, <5>1
      <4>2. ack'[c].pc = "send" /\ ack'[c] \in Ack /\ ack' \in [Calls -> Ack]
            /\ ack'[c].outcome \in Outcomes \cup {None}
            /\ \A d \in Calls : d # c => ack'[d] = ack[d]
        BY <1>1, <2>1, <4>1 DEF TypeInv, Ack
      <4>3. QED
        BY <2>4, <3>1, <4>2 DEF TimedOut
    <3>3. CASE ~(ack[c].tries + 1 < OUTBOUND_MAX_ATTEMPTS)
      <4>1. ack' = [ack EXCEPT ![c] =
                        [pc |-> "record", tries |-> ack[c].tries + 1, outcome |-> "failed"]]
        BY <2>4, <3>3 DEF TimedOut
      <4>2. [pc |-> "record", tries |-> ack[c].tries + 1, outcome |-> "failed"] \in Ack
        BY <2>1 DEF Ack, Outcomes
      <4>3. /\ ack' \in [Calls -> Ack] /\ ack'[c].pc = "record" /\ ack'[c].outcome = "failed"
            /\ \A d \in Calls : d # c => ack'[d] = ack[d]
        BY <1>1, <4>1, <4>2 DEF TypeInv
      <4>4. QED
        BY <2>4, <3>1, <4>3 DEF TimedOut, Outcomes
    <3>4. QED
      BY <3>2, <3>3
  <2>5. QED
    BY <2>2, <2>3, <2>4
<1>3. /\ delivered'[c] = delivered[c] + n /\ delivered' \in [Calls -> Nat]
      /\ \A d \in Calls : d # c => delivered'[d] = delivered[d]
  BY <1>1, <1>2 DEF TypeInv
<1>4. /\ call[c].content \in Content /\ lead[c] # NoLead
      /\ deployment.enabled /\ call[c].content.optIn /\ call[c].content.phone = "mobile"
  <2>1. /\ call[c].content \in Content /\ lead[c] # NoLead /\ call[c].content.phone # "typo"
        /\ ~Skip(call[c].content)
    BY <1>1 DEF Message
  <2>2. call[c].content.phone \in {"none", "mobile", "typo"}
    BY <2>1 DEF Content, TourRequestForm, ContactForm, HomeValuationForm, SavedSearchPrompt,
                CreateLeadDto, Phones
  <2>3. QED
    BY <2>1, <2>2 DEF Skip
<1>5. Message(c)'
  <2>1. ~deployment.live => delivered[c] = 0 /\ n = 0
    BY <1>1, <1>2 DEF Message
  <2>2. /\ deployment' = deployment /\ call' = call /\ lead' = lead
        /\ trail'[c].whatsapp = << >> /\ Skip(call[c].content)' = Skip(call[c].content)
        /\ ~Skip(call[c].content)
    BY <1>1 DEF Message, SameDeployment, Skip
  <2>3. ack'[c].pc = "send" /\ ~deployment.live => delivered'[c] = 0
    BY <1>1, <1>3, <2>1
  <2>4. ack'[c].pc = "record" =>
            /\ ack'[c].outcome \in Outcomes
            /\ ack'[c].outcome = "sent" => delivered'[c] > 0
            /\ ack'[c].outcome \in {"skipped", "simulated"} => delivered'[c] = 0
    BY <1>1, <1>2, <1>3, <2>1
  <2>5. ack'[c].pc \in {"send", "record"}
    BY <1>2
  <2>6. call[c].content.phone # "typo"
    BY <1>4
  <2>7. QED
    BY <1>4, <2>2, <2>3, <2>4, <2>5, <2>6 DEF Message
<1>6. trail' \in [Calls -> [whatsapp : Seq(Outcomes), moves : Seq(Statuses)]]
  BY <1>1 DEF TypeInv
<1>7. QED
  BY <1>1, <1>2, <1>3, <1>5, <1>6, MailInv

(* The one outcome of an acknowledgement is put on the trail, or lost.      *)
LEMMA RecordInv ==
    ASSUME LeadDeskInv, NEW c \in Calls, Record(c)
    PROVE  LeadDeskInv'
<1>1. /\ ack[c].pc = "record" /\ TypeInv /\ Message(c)
      /\ SameDeployment /\ SameDesk /\ form' = form /\ call' = call /\ lead' = lead
      /\ delivered' = delivered /\ delivered' \in [Calls -> Nat]
  BY DEF Record, fixed, webVars, deskVars, history, SameDeployment, SameDesk,
         LeadDeskInv, TypeInv, EnquiryInv
<1>2. /\ trail[c].whatsapp = << >> /\ ack[c].outcome \in Outcomes
      /\ Gone("over") \in Ack /\ Gone("over").pc = "over"
      /\ Gone("lost") \in Ack /\ Gone("lost").pc = "lost"
  BY <1>1 DEF Message, Gone, NoAck, Ack
<1>3. CASE /\ trail' = [trail EXCEPT ![c].whatsapp = Append(trail[c].whatsapp, ack[c].outcome)]
           /\ ack' = [ack EXCEPT ![c] = Gone("over")]
  <2>1. trail' = [trail EXCEPT ![c].whatsapp = << ack[c].outcome >>]
    BY <1>2, <1>3
  <2>2. /\ trail' \in [Calls -> [whatsapp : Seq(Outcomes), moves : Seq(Statuses)]]
        /\ trail'[c].whatsapp = << ack[c].outcome >> /\ trail'[c].moves = trail[c].moves
        /\ \A d \in Calls : d # c => trail'[d] = trail[d]
    <3>1. trail[c] \in [whatsapp : Seq(Outcomes), moves : Seq(Statuses)]
      BY <1>1 DEF TypeInv
    <3>2. << ack[c].outcome >> \in Seq(Outcomes)
      BY <1>2
    <3>3. PICK said \in Seq(Outcomes) : said = << ack[c].outcome >>
      BY <3>2
    <3>4. trail' = [trail EXCEPT ![c].whatsapp = said]
      BY <2>1, <3>3
    <3>5. /\ trail' \in [Calls -> [whatsapp : Seq(Outcomes), moves : Seq(Statuses)]]
          /\ trail'[c].whatsapp = said /\ trail'[c].moves = trail[c].moves
          /\ \A d \in Calls : d # c => trail'[d] = trail[d]
      BY <1>1, <3>1, <3>4 DEF TypeInv
    <3>6. QED
      BY <3>3, <3>5
  <2>3. /\ ack' \in [Calls -> Ack] /\ ack'[c].pc = "over"
        /\ \A d \in Calls : d # c => ack'[d] = ack[d]
    BY <1>1, <1>2, <1>3 DEF TypeInv
  <2>4. /\ Len(trail'[c].whatsapp) <= 1
        /\ \A i \in DOMAIN trail'[c].whatsapp : trail'[c].whatsapp[i] = ack[c].outcome
    BY <2>2
  <2>5. Message(c)'
    BY <1>1, <2>3, <2>4 DEF Message, SameDeployment
  <2>6. QED
    BY <1>1, <2>2, <2>3, <2>5, MailInv
<1>4. CASE ack' = [ack EXCEPT ![c] = Gone("lost")] /\ trail' = trail
  <2>1. /\ ack' \in [Calls -> Ack] /\ ack'[c].pc = "lost"
        /\ \A d \in Calls : d # c => ack'[d] = ack[d]
    BY <1>1, <1>2, <1>4 DEF TypeInv
  <2>2. Message(c)'
    BY <1>1, <1>4, <2>1 DEF Message, SameDeployment
  <2>3. trail' \in [Calls -> [whatsapp : Seq(Outcomes), moves : Seq(Statuses)]]
    BY <1>1, <1>4 DEF TypeInv
  <2>4. QED
    BY <1>1, <1>4, <2>1, <2>2, <2>3, MailInv
<1>5. QED
  BY <1>3, <1>4 DEF Record

-----------------------------------------------------------------------------
(* The queue.                                                               *)

(* A step of the queue leaves enquiries as they are.                        *)
LEMMA QueueInv ==
    ASSUME LeadDeskInv, SameDeployment, form' = form, call' = call, ack' = ack,
           delivered' = delivered, TypeInv', DeskInv',
           \A c \in Calls : /\ lead'[c] = NoLead <=> lead[c] = NoLead
                            /\ lead'[c].org = lead[c].org /\ lead'[c].listing = lead[c].listing
                            /\ trail'[c].whatsapp = trail[c].whatsapp
    PROVE  LeadDeskInv'
<1>1. EnquiryInv'
  <2>1. ASSUME NEW c \in Calls
        PROVE  Order(c)' /\ Message(c)'
    BY EnquiryKept DEF LeadDeskInv, EnquiryInv
  <2>2. QED
    BY <2>1 DEF EnquiryInv
<1>2. FormInv'
  BY FormKept DEF LeadDeskInv
<1>3. QED
  BY <1>1, <1>2 DEF LeadDeskInv

(* A change under way is complete, and of a lead that is there.             *)
LEMMA UnderWay ==
    ASSUME LeadDeskInv, NEW s \in Staff, task[s].pc # "idle"
    PROVE  /\ task[s] \in Task /\ task[s].ok \in BOOLEAN
           /\ task[s].lead \in Stored /\ task[s].lead \in Calls
           /\ lead[task[s].lead] \in LeadRow
           /\ task[s].patch \in Statuses /\ task[s].before \in Statuses
           /\ ~task[s].ok => task[s].pc = "answer"
<1>1. TypeInv /\ TasksInOrder
  BY DEF LeadDeskInv, DeskInv
<1>2. task[s] \in Task /\ task[s].lead \in Stored
  BY <1>1 DEF TypeInv, TasksInOrder
<1>3. QED
  BY <1>1, <1>2 DEF TypeInv, TasksInOrder, Task, Stored

(* What is on a screen is the status of a lead.                             *)
LEMMA OnScreen ==
    ASSUME LeadDeskInv, NEW s \in Staff, NEW c \in Calls
    PROVE  /\ c \in Visible(s) => c \in Stored /\ lead[c].status \in Statuses
           /\ row[s] \in [Calls -> Statuses \cup {None}]
           /\ row[s][c] # None => c \in Stored /\ row[s][c] \in Statuses
<1>1. TypeInv /\ TasksInOrder
  BY DEF LeadDeskInv, DeskInv
<1>2. row[s] \in [Calls -> Statuses \cup {None}]
  BY <1>1 DEF TypeInv
<1>3. c \in Stored => lead[c] \in LeadRow
  BY <1>1 DEF Stored, TypeInv
<1>4. c \in Visible(s) => c \in Stored /\ lead[c].status \in Statuses
  BY <1>3 DEF Visible, LeadRow
<1>5. QED
  BY <1>1, <1>2, <1>4 DEF TasksInOrder

(* The page is opened anew: every row of it is up to date.                  *)
LEMMA LoadInv ==
    ASSUME LeadDeskInv, NEW s \in Staff, Load(s)
    PROVE  LeadDeskInv'
<1> DEFINE screen == [c \in Calls |-> IF c \in Visible(s) THEN lead[c].status ELSE None]
<1>1. /\ task[s].pc = "idle" /\ row' = [row EXCEPT ![s] = screen]
      /\ stale' = {p \in stale : p[1] # s}
      /\ SameDeployment /\ form' = form /\ call' = call /\ ack' = ack /\ delivered' = delivered
      /\ lead' = lead /\ trail' = trail /\ task' = task /\ muddled' = muddled
  BY DEF Load, fixed, webVars, leadVars, SameDeployment
<1>2. TypeInv /\ DeskInv
  BY DEF LeadDeskInv
<1>3. /\ screen \in [Calls -> Statuses \cup {None}]
      /\ \A c \in Calls : screen[c] # None => c \in Stored /\ screen[c] = lead[c].status
  BY OnScreen
<1> HIDE DEF screen
<1>4. /\ row' \in [Staff -> [Calls -> Statuses \cup {None}]]
      /\ row'[s] = screen /\ \A x \in Staff : x # s => row'[x] = row[x]
  BY <1>1, <1>2, <1>3 DEF TypeInv
<1>5. TypeInv'
  BY <1>1, <1>2, <1>4 DEF TypeInv, SameDeployment
<1>6. Stored' = Stored /\ \A c \in Calls : WorkingOn(c)' = WorkingOn(c)
  BY <1>1 DEF Stored, WorkingOn
<1>7. TasksInOrder'
  BY <1>1, <1>2, <1>3, <1>4, <1>6 DEF DeskInv, TasksInOrder
<1>8. ASSUME NEW c \in Stored' \ muddled'
      PROVE  InStep(c)'
  BY <1>1, <1>2, <1>6, <1>8 DEF DeskInv, InStep, LastStatus, WorkingOn, Stored
<1>9. ASSUME NEW x \in Staff, NEW c \in Calls, <<x, c>> \notin stale'
      PROVE  UpToDate(x, c)'
  <2>1. CASE x = s
    BY <1>1, <1>3, <1>4, <2>1 DEF UpToDate, WorkingOn
  <2>2. CASE x # s
    <3>1. <<x, c>> \notin stale
      BY <1>1, <1>9, <2>2
    <3>2. UpToDate(x, c)
      BY <1>2, <3>1 DEF DeskInv
    <3>3. QED
      BY <1>1, <1>4, <2>2, <3>2 DEF UpToDate, WorkingOn
  <2>3. QED
    BY <2>1, <2>2
<1>10. DeskInv'
  BY <1>7, <1>8, <1>9 DEF DeskInv
<1>11. QED
  BY <1>1, <1>5, <1>10, QueueInv

(* A status is chosen in a row: the screen shows it at once.                *)
LEMMA ChangeInv ==
    ASSUME LeadDeskInv, NEW s \in Staff, NEW c \in Calls, Change(s, c)
    PROVE  LeadDeskInv'
<1>1. /\ task[s].pc = "idle" /\ row[s][c] # None
      /\ muddled' = IF WorkingOn(c) = {} THEN muddled ELSE muddled \cup {c}
      /\ SameDeployment /\ form' = form /\ call' = call /\ ack' = ack /\ delivered' = delivered
      /\ lead' = lead /\ trail' = trail /\ stale' = stale
  BY DEF Change, fixed, webVars, leadVars, SameDeployment
<1>2. PICK patch \in Statuses :
        /\ task' = [task EXCEPT ![s] = [pc |-> "update", lead |-> c, patch |-> patch,
                                        before |-> row[s][c], ok |-> TRUE]]
        /\ row' = [row EXCEPT ![s][c] = patch]
  BY DEF Change
<1>3. TypeInv /\ DeskInv
  BY DEF LeadDeskInv
<1>4. /\ c \in Stored /\ row[s][c] \in Statuses
      /\ row[s] \in [Calls -> Statuses \cup {None}]
  BY <1>1, OnScreen
<1>5. /\ task' \in [Staff -> Task] /\ \A x \in Staff : x # s => task'[x] = task[x]
      /\ task'[s].pc = "update" /\ task'[s].lead = c /\ task'[s].patch = patch
      /\ task'[s].before = row[s][c] /\ task'[s].ok
  <2>1. [pc |-> "update", lead |-> c, patch |-> patch, before |-> row[s][c], ok |-> TRUE] \in Task
    BY <1>4 DEF Task
  <2>2. QED
    BY <1>2, <1>3, <2>1 DEF TypeInv
<1>6. /\ row' \in [Staff -> [Calls -> Statuses \cup {None}]] /\ row'[s][c] = patch
      /\ \A x \in Staff, d \in Calls : x # s \/ d # c => row'[x][d] = row[x][d]
  BY <1>2, <1>3, <1>4 DEF TypeInv
<1>7. TypeInv'
  BY <1>1, <1>3, <1>5, <1>6 DEF TypeInv, SameDeployment
<1>8. /\ Stored' = Stored /\ WorkingOn(c)' = WorkingOn(c) \cup {s}
      /\ \A d \in Calls : d # c => WorkingOn(d)' = WorkingOn(d)
      /\ \A d \in Calls : s \notin WorkingOn(d)
  BY <1>1, <1>5 DEF Stored, WorkingOn
<1>9. TasksInOrder'
  BY <1>1, <1>3, <1>4, <1>5, <1>6, <1>8 DEF DeskInv, TasksInOrder
<1>10. ASSUME NEW d \in Stored' \ muddled'
       PROVE  InStep(d)'
  <2>1. d \in Calls /\ InStep(d) /\ (d = c => WorkingOn(c) = {})
    BY <1>1, <1>3, <1>8, <1>10 DEF DeskInv, Stored
  <2>2. LastStatus(d)' = LastStatus(d)
    BY <1>1 DEF LastStatus
  <2>3. CASE d = c
    <3>1. WorkingOn(d)' = {s} /\ LastStatus(d) = lead[d].status
      BY <1>8, <2>1, <2>3 DEF InStep
    <3>2. QED
      BY <1>1, <1>5, <2>2, <3>1 DEF InStep
  <2>4. CASE d # c
    <3>1. \A x \in WorkingOn(d) : x \in Staff /\ x # s
      BY <1>8, <2>1 DEF WorkingOn
    <3>2. QED
      BY <1>1, <1>5, <1>8, <2>1, <2>2, <2>4, <3>1 DEF InStep
  <2>5. QED
    BY <2>3, <2>4
<1>11. ASSUME NEW x \in Staff, NEW d \in Calls, <<x, d>> \notin stale'
       PROVE  UpToDate(x, d)'
  <2>1. UpToDate(x, d)
    BY <1>1, <1>3, <1>11 DEF DeskInv
  <2>2. QED
    BY <1>1, <1>5, <1>6, <1>8, <2>1 DEF UpToDate, WorkingOn
<1>12. DeskInv'
  BY <1>9, <1>10, <1>11 DEF DeskInv
<1>13. QED
  BY <1>1, <1>7, <1>12, QueueInv

(* The status is written: the screens of all colleagues are stale.          *)
LEMMA UpdateStatusInv ==
    ASSUME LeadDeskInv, NEW s \in Staff, UpdateStatus(s)
    PROVE  LeadDeskInv'
<1> DEFINE c == task[s].lead
           patch == task[s].patch
<1>1. /\ task[s].pc = "update"
      /\ lead' = [lead EXCEPT ![c].status = patch] /\ task' = [task EXCEPT ![s].pc = "trail"]
      /\ stale' = stale \cup {<<x, c>> : x \in Staff \ {s}}
      /\ SameDeployment /\ form' = form /\ call' = call /\ ack' = ack /\ delivered' = delivered
      /\ trail' = trail /\ row' = row /\ muddled' = muddled
  BY DEF UpdateStatus, fixed, webVars, SameDeployment
<1>2. TypeInv /\ DeskInv
  BY DEF LeadDeskInv
<1>3. /\ task[s] \in Task /\ task[s].ok \in BOOLEAN /\ task[s].ok
      /\ c \in Stored /\ c \in Calls /\ lead[c] \in LeadRow /\ patch \in Statuses
  BY <1>1, UnderWay
<1> HIDE DEF c, patch
<1>4. /\ task' \in [Staff -> Task] /\ \A x \in Staff : x # s => task'[x] = task[x]
      /\ task'[s].pc = "trail" /\ task'[s].lead = c /\ task'[s].patch = patch
      /\ task'[s].before = task[s].before /\ task'[s].ok
  BY <1>1, <1>2, <1>3 DEF TypeInv, Task, c, patch
<1>5. /\ lead' \in [Calls -> LeadRow \cup {NoLead}] /\ lead'[c] \in LeadRow
      /\ lead'[c].status = patch /\ lead'[c].org = lead[c].org
      /\ lead'[c].listing = lead[c].listing
      /\ \A d \in Calls : d # c => lead'[d] = lead[d]
  <2>1. [lead[c] EXCEPT !.status = patch] \in LeadRow
    BY <1>3 DEF LeadRow
  <2>2. lead' = [lead EXCEPT ![c] = [lead[c] EXCEPT !.status = patch]]
    BY <1>1
  <2>3. [lead[c] EXCEPT !.status = patch].status = patch
    BY <1>3 DEF LeadRow
  <2>4. QED
    BY <1>2, <1>3, <2>1, <2>2, <2>3 DEF TypeInv, LeadRow
<1>6. stale' \subseteq Staff \X Calls
  BY <1>1, <1>2, <1>3 DEF TypeInv
<1>7. TypeInv'
  BY <1>1, <1>2, <1>4, <1>5, <1>6 DEF TypeInv, SameDeployment
<1>8. lead[c] # NoLead /\ lead'[c] # NoLead
  BY <1>3, <1>5, RowIsARow
<1>9. Stored' = Stored /\ \A d \in Calls : WorkingOn(d)' = WorkingOn(d)
  BY <1>1, <1>4, <1>5, <1>8 DEF Stored, WorkingOn, c
<1>10. s \in WorkingOn(c) /\ \A d \in Calls : d # c => s \notin WorkingOn(d)
  BY <1>1 DEF WorkingOn, c
<1>11. TasksInOrder'
  <2>1. ASSUME NEW x \in Staff, task'[x].pc # "idle"
        PROVE  /\ task'[x].lead \in Stored /\ task'[x].patch \in Statuses
               /\ task'[x].before \in Statuses /\ ~task'[x].ok => task'[x].pc = "answer"
    <3>1. task[x].pc # "idle"
      BY <1>1, <1>4, <2>1
    <3>2. QED
      BY <1>1, <1>3, <1>4, <2>1, <3>1, UnderWay DEF c, patch
  <2>2. QED
    BY <1>1, <1>2, <1>9, <2>1 DEF DeskInv, TasksInOrder
<1>12. ASSUME NEW d \in Stored' \ muddled'
       PROVE  InStep(d)'
  <2>1. d \in Calls /\ InStep(d)
    BY <1>1, <1>2, <1>9, <1>12 DEF DeskInv, Stored
  <2>2. \A x \in WorkingOn(d) : x \in Staff
    BY DEF WorkingOn
  <2>3. CASE d = c
    <3>1. \A x \in WorkingOn(c) : x = s
      BY <1>10, <2>1, <2>3 DEF InStep
    <3>2. QED
      BY <1>4, <1>5, <1>9, <1>10, <2>1, <2>3, <3>1 DEF InStep
  <2>4. CASE d # c
    <3>1. lead'[d] = lead[d] /\ LastStatus(d)' = LastStatus(d)
      BY <1>1, <1>5, <2>1, <2>4 DEF LastStatus
    <3>2. \A x \in WorkingOn(d) : task'[x] = task[x]
      BY <1>4, <1>10, <2>1, <2>2, <2>4
    <3>3. QED
      BY <1>9, <2>1, <3>1, <3>2 DEF InStep
  <2>5. QED
    BY <2>3, <2>4
<1>13. ASSUME NEW x \in Staff, NEW d \in Calls, <<x, d>> \notin stale'
       PROVE  UpToDate(x, d)'
  <2>1. UpToDate(x, d) /\ (d = c => x = s)
    BY <1>1, <1>2, <1>13 DEF DeskInv
  <2>2. CASE d = c
    BY <1>1, <1>4, <1>5, <1>9, <1>10, <2>1, <2>2 DEF UpToDate
  <2>3. CASE d # c
    <3>1. x \in WorkingOn(d) => task'[x] = task[x]
      BY <1>4, <1>10, <2>3
    <3>2. QED
      BY <1>1, <1>5, <1>9, <2>1, <2>3, <3>1 DEF UpToDate
  <2>4. QED
    BY <2>2, <2>3
<1>14. DeskInv'
  BY <1>11, <1>12, <1>13 DEF DeskInv
<1>15. \A d \in Calls : /\ lead'[d] = NoLead <=> lead[d] = NoLead
                        /\ lead'[d].org = lead[d].org /\ lead'[d].listing = lead[d].listing
                        /\ trail'[d].whatsapp = trail[d].whatsapp
  BY <1>1, <1>5, <1>8
<1>16. QED
  BY <1>1, <1>7, <1>14, <1>15, QueueInv

(* What is appended is what is last.                                        *)
LEMMA Appended ==
    ASSUME NEW S, NEW q \in Seq(S), NEW x \in S
    PROVE  \E p \in Seq(S) : p = Append(q, x) /\ p # << >> /\ p[Len(p)] = x
<1>1. Append(q, x) \in Seq(S) /\ Len(Append(q, x)) = Len(q) + 1 /\ Len(q) \in Nat
  OBVIOUS
<1>2. Append(q, x)[Len(q) + 1] = x
  OBVIOUS
<1>3. Append(q, x) # << >>
  BY <1>1
<1>4. QED
  BY <1>1, <1>2, <1>3

(* The change goes on the trail.                                            *)
LEMMA RecordActivityInv ==
    ASSUME LeadDeskInv, NEW s \in Staff, RecordActivity(s)
    PROVE  LeadDeskInv'
<1> DEFINE c == task[s].lead
           patch == task[s].patch
<1>1. /\ task[s].pc = "trail"
      /\ trail' = [trail EXCEPT ![c].moves = Append(trail[c].moves, patch)]
      /\ task' = [task EXCEPT ![s].pc = "answer"]
      /\ SameDeployment /\ form' = form /\ call' = call /\ ack' = ack /\ delivered' = delivered
      /\ lead' = lead /\ row' = row /\ muddled' = muddled /\ stale' = stale
  BY DEF RecordActivity, fixed, webVars, history, SameDeployment
<1>2. TypeInv /\ DeskInv
  BY DEF LeadDeskInv
<1>3. /\ task[s] \in Task /\ task[s].ok \in BOOLEAN /\ task[s].ok
      /\ c \in Stored /\ c \in Calls /\ patch \in Statuses
      /\ trail[c] \in [whatsapp : Seq(Outcomes), moves : Seq(Statuses)]
  <2>1. trail \in [Calls -> [whatsapp : Seq(Outcomes), moves : Seq(Statuses)]]
    BY <1>2 DEF TypeInv
  <2>2. QED
    BY <1>1, <2>1, UnderWay
<1> HIDE DEF c, patch
<1>4. /\ task' \in [Staff -> Task] /\ \A x \in Staff : x # s => task'[x] = task[x]
      /\ task'[s].pc = "answer" /\ task'[s].lead = c /\ task'[s].patch = patch
      /\ task'[s].before = task[s].before /\ task'[s].ok
  BY <1>1, <1>2, <1>3 DEF TypeInv, Task, c, patch
<1>5. PICK moves \in Seq(Statuses) :
        moves = Append(trail[c].moves, patch) /\ moves # << >> /\ moves[Len(moves)] = patch
  <2>1. trail[c].moves \in Seq(Statuses)
    BY <1>3
  <2>2. QED
    BY <1>3, <2>1, Appended
<1>6. /\ trail' \in [Calls -> [whatsapp : Seq(Outcomes), moves : Seq(Statuses)]]
      /\ trail'[c].moves = moves
      /\ trail'[c].whatsapp = trail[c].whatsapp
      /\ \A d \in Calls : d # c => trail'[d] = trail[d]
  <2>1. trail' = [trail EXCEPT ![c].moves = moves]
    BY <1>1, <1>5
  <2>2. trail \in [Calls -> [whatsapp : Seq(Outcomes), moves : Seq(Statuses)]]
    BY <1>2 DEF TypeInv
  <2>3. QED
    BY <1>3, <2>1, <2>2
<1>7. TypeInv'
  BY <1>1, <1>2, <1>4, <1>6 DEF TypeInv, SameDeployment
<1>8. Stored' = Stored /\ \A d \in Calls : WorkingOn(d)' = WorkingOn(d)
  BY <1>1, <1>4 DEF Stored, WorkingOn, c
<1>9. s \in WorkingOn(c) /\ \A d \in Calls : d # c => s \notin WorkingOn(d)
  BY <1>1 DEF WorkingOn, c
<1>10. ASSUME NEW d \in Calls
       PROVE  LastStatus(d)' = IF d = c THEN patch ELSE LastStatus(d)
  <2>1. Last(moves) = patch
    BY <1>5 DEF Last
  <2>2. QED
    BY <1>5, <1>6, <2>1 DEF LastStatus
<1>11. TasksInOrder'
  <2>1. ASSUME NEW x \in Staff, task'[x].pc # "idle"
        PROVE  /\ task'[x].lead \in Stored /\ task'[x].patch \in Statuses
               /\ task'[x].before \in Statuses /\ ~task'[x].ok => task'[x].pc = "answer"
    <3>1. task[x].pc # "idle"
      BY <1>1, <1>4, <2>1
    <3>2. QED
      BY <1>1, <1>3, <1>4, <2>1, <3>1, UnderWay DEF c, patch
  <2>2. \A d \in Calls \ Stored : trail'[d].moves = << >>
    BY <1>2, <1>3, <1>6 DEF DeskInv, TasksInOrder
  <2>3. QED
    BY <1>1, <1>2, <1>8, <2>1, <2>2 DEF DeskInv, TasksInOrder
<1>12. ASSUME NEW d \in Stored' \ muddled'
       PROVE  InStep(d)'
  <2>1. d \in Calls /\ InStep(d)
    BY <1>1, <1>2, <1>8, <1>12 DEF DeskInv, Stored
  <2>2. \A x \in WorkingOn(d) : x \in Staff
    BY DEF WorkingOn
  <2>3. CASE d = c
    <3>1. (\A x \in WorkingOn(c) : x = s) /\ lead[c].status = patch
      BY <1>1, <1>9, <2>1, <2>3 DEF InStep, patch
    <3>2. QED
      BY <1>1, <1>4, <1>8, <1>10, <2>1, <2>3, <3>1 DEF InStep
  <2>4. CASE d # c
    <3>1. \A x \in WorkingOn(d) : task'[x] = task[x]
      BY <1>4, <1>9, <2>1, <2>2, <2>4
    <3>2. QED
      BY <1>1, <1>8, <1>10, <2>1, <2>4, <3>1 DEF InStep
  <2>5. QED
    BY <2>3, <2>4
<1>13. ASSUME NEW x \in Staff, NEW d \in Calls, <<x, d>> \notin stale'
       PROVE  UpToDate(x, d)'
  <2>1. UpToDate(x, d)
    BY <1>1, <1>2, <1>13 DEF DeskInv
  <2>2. CASE x = s
    BY <1>1, <1>3, <1>4, <1>8, <2>1, <2>2 DEF UpToDate, patch
  <2>3. CASE x # s
    BY <1>1, <1>4, <1>8, <2>1, <2>3 DEF UpToDate
  <2>4. QED
    BY <2>2, <2>3
<1>14. DeskInv'
  BY <1>11, <1>12, <1>13 DEF DeskInv
<1>15. \A d \in Calls : /\ lead'[d] = NoLead <=> lead[d] = NoLead
                        /\ lead'[d].org = lead[d].org /\ lead'[d].listing = lead[d].listing
                        /\ trail'[d].whatsapp = trail[d].whatsapp
  BY <1>1, <1>6
<1>16. QED
  BY <1>1, <1>7, <1>14, <1>15, QueueInv

(* Changes that an error cuts off, or that only seem to have failed.        *)
LEMMA BrokenInv ==
    ASSUME LeadDeskInv, NEW S \in SUBSET Staff,
           \A s \in S : task[s].pc # "idle" /\ task[s].ok,
           task' = [s \in Staff |-> IF s \in S THEN Broken(task[s]) ELSE task[s]],
           muddled' = muddled \cup Halved(S), stale' = stale \cup Misreported(S),
           row' = row, lead' = lead, trail' = trail
    PROVE  /\ DeskInv' /\ task' \in [Staff -> Task]
           /\ muddled' \subseteq Calls /\ stale' \subseteq Staff \X Calls
<1>1. TypeInv /\ DeskInv
  BY DEF LeadDeskInv
<1>2. ASSUME NEW s \in S
      PROVE  /\ task[s] \in Task /\ task[s].lead \in Stored /\ task[s].lead \in Calls
             /\ task[s].patch \in Statuses /\ task[s].before \in Statuses
  BY UnderWay
<1>3. ASSUME NEW s \in S
      PROVE  /\ task'[s] \in Task /\ task'[s].pc = "answer" /\ ~task'[s].ok
             /\ task'[s].lead = task[s].lead /\ task'[s].patch = task[s].patch
             /\ task'[s].before = task[s].before
  <2>1. task'[s] = Broken(task[s]) /\ task[s] \in Task
    BY <1>2
  <2>2. QED
    BY <2>1 DEF Broken, Task
<1>4. \A s \in Staff : s \notin S => task'[s] = task[s]
  OBVIOUS
<1>5. task' \in [Staff -> Task]
  <2>1. \A s \in Staff : task'[s] \in Task
    BY <1>1, <1>3, <1>4 DEF TypeInv
  <2>2. QED
    BY <2>1
<1>6. muddled' \subseteq Calls /\ stale' \subseteq Staff \X Calls
  <2>1. Halved(S) \subseteq Calls
    BY <1>2 DEF Halved
  <2>2. Misreported(S) \subseteq Staff \X Calls
    BY <1>2 DEF Misreported
  <2>3. QED
    BY <1>1, <2>1, <2>2 DEF TypeInv
<1>7. Stored' = Stored /\ \A c \in Calls : WorkingOn(c)' = WorkingOn(c)
  BY <1>3, <1>4 DEF Stored, WorkingOn
<1>8. TasksInOrder'
  <2>1. ASSUME NEW s \in Staff, task'[s].pc # "idle"
        PROVE  /\ task'[s].lead \in Stored /\ task'[s].patch \in Statuses
               /\ task'[s].before \in Statuses
               /\ ~task'[s].ok => task'[s].pc = "answer"
    <3>1. CASE s \in S
      BY <1>2, <1>3, <3>1
    <3>2. CASE s \notin S
      BY <1>1, <1>4, <2>1, <3>2 DEF DeskInv, TasksInOrder
    <3>3. QED
      BY <3>1, <3>2
  <2>2. QED
    BY <1>1, <1>7, <2>1 DEF DeskInv, TasksInOrder
<1>9. ASSUME NEW c \in Stored' \ muddled'
      PROVE  InStep(c)'
  <2>1. c \in Calls /\ InStep(c) /\ c \notin Halved(S)
    BY <1>1, <1>7, <1>9 DEF DeskInv, Stored
  <2>2. \A x \in WorkingOn(c) : /\ x \in Staff /\ task[x].lead = c
                                /\ x \in S => task[x].pc # "trail"
    BY <2>1 DEF WorkingOn, Halved
  <2>3. \A x \in WorkingOn(c) : /\ task'[x].pc = "trail" <=> task[x].pc = "trail"
                                /\ task'[x].patch = task[x].patch
    BY <1>3, <1>4, <2>2
  <2>4. LastStatus(c)' = LastStatus(c)
    BY DEF LastStatus
  <2>5. QED
    BY <1>7, <2>1, <2>3, <2>4 DEF InStep
<1>10. ASSUME NEW s \in Staff, NEW c \in Calls, <<s, c>> \notin stale'
       PROVE  UpToDate(s, c)'
  <2>1. UpToDate(s, c) /\ <<s, c>> \notin Misreported(S)
    BY <1>1, <1>10 DEF DeskInv
  <2>2. CASE s \in S /\ s \in WorkingOn(c)
    <3>1. task[s] \in Task /\ task[s].pc # "idle" /\ task[s].lead = c
      BY <1>2, <2>2 DEF WorkingOn
    <3>2. task[s].pc = "update"
      BY <2>1, <2>2, <3>1 DEF Misreported, Task
    <3>3. QED
      BY <1>3, <1>7, <2>1, <2>2, <3>2 DEF UpToDate
  <2>3. CASE s \notin S \/ s \notin WorkingOn(c)
    BY <1>4, <1>7, <2>1, <2>3 DEF UpToDate
  <2>4. QED
    BY <2>2, <2>3
<1>11. QED
  BY <1>5, <1>6, <1>8, <1>9, <1>10 DEF DeskInv

(* A change fails by itself.                                                *)
LEMMA ChangeFailsInv ==
    ASSUME LeadDeskInv, NEW s \in Staff, ChangeFails(s)
    PROVE  LeadDeskInv'
<1>1. /\ task[s].pc # "idle" /\ task[s].ok
      /\ task' = [task EXCEPT ![s] = Broken(task[s])]
      /\ muddled' = muddled \cup Halved({s}) /\ stale' = stale \cup Misreported({s})
      /\ SameDeployment /\ form' = form /\ call' = call /\ ack' = ack /\ delivered' = delivered
      /\ lead' = lead /\ trail' = trail /\ row' = row
  BY DEF ChangeFails, fixed, webVars, leadVars, SameDeployment
<1>2. TypeInv
  BY DEF LeadDeskInv
<1>3. task' = [x \in Staff |-> IF x \in {s} THEN Broken(task[x]) ELSE task[x]]
  BY <1>1, <1>2 DEF TypeInv
<1>4. /\ DeskInv' /\ task' \in [Staff -> Task]
      /\ muddled' \subseteq Calls /\ stale' \subseteq Staff \X Calls
  <2>1. {s} \in SUBSET Staff /\ \A x \in {s} : task[x].pc # "idle" /\ task[x].ok
    BY <1>1
  <2>2. QED
    BY <1>1, <1>3, <2>1, BrokenInv
<1>5. TypeInv'
  BY <1>1, <1>2, <1>4 DEF TypeInv, SameDeployment
<1>6. QED
  BY <1>1, <1>4, <1>5, QueueInv

(* The answer: the row reverts, or stays, and new leads appear.             *)
LEMMA SettleInv ==
    ASSUME LeadDeskInv, NEW s \in Staff, Settle(s)
    PROVE  LeadDeskInv'
<1> DEFINE fresh == Refreshed(s)
<1>1. /\ task[s].pc = "answer" /\ task' = [task EXCEPT ![s] = NoTask]
      /\ row' = [row EXCEPT ![s] = [fresh EXCEPT ![task[s].lead] = ShownAfter(task[s])]]
      /\ SameDeployment /\ form' = form /\ call' = call /\ ack' = ack /\ delivered' = delivered
      /\ lead' = lead /\ trail' = trail /\ muddled' = muddled /\ stale' = stale
  BY DEF Settle, fixed, webVars, leadVars, history, SameDeployment
<1>2. TypeInv /\ DeskInv
  BY DEF LeadDeskInv
<1>3. PICK c \in Calls, shown \in Statuses :
        /\ task[s].lead = c /\ c \in Stored /\ shown = ShownAfter(task[s])
        /\ shown = IF task[s].ok THEN task[s].patch ELSE task[s].before
  BY <1>1, UnderWay DEF ShownAfter
<1>4. /\ fresh \in [Calls -> Statuses \cup {None}]
      /\ \A d \in Calls : /\ fresh[d] # None => d \in Stored
                          /\ fresh[d] = row[s][d] \/ fresh[d] = lead[d].status
  BY OnScreen DEF Refreshed
<1> HIDE DEF fresh
<1>5. /\ row' \in [Staff -> [Calls -> Statuses \cup {None}]]
      /\ row'[s][c] = shown
      /\ \A d \in Calls : d # c => row'[s][d] = fresh[d]
      /\ \A x \in Staff : x # s => row'[x] = row[x]
  <2>1. row' = [row EXCEPT ![s] = [fresh EXCEPT ![c] = shown]]
    BY <1>1, <1>3
  <2>2. QED
    BY <1>2, <1>4, <2>1 DEF TypeInv
<1>6. /\ task' \in [Staff -> Task] /\ task'[s].pc = "idle"
      /\ \A x \in Staff : x # s => task'[x] = task[x]
  <2>1. NoTask \in Task /\ NoTask.pc = "idle"
    BY DEF NoTask, Task
  <2>2. QED
    BY <1>1, <1>2, <2>1 DEF TypeInv
<1>7. TypeInv'
  BY <1>1, <1>2, <1>5, <1>6 DEF TypeInv, SameDeployment
<1>8. Stored' = Stored /\ \A d \in Calls : WorkingOn(d)' = WorkingOn(d) \ {s}
  BY <1>1, <1>6 DEF Stored, WorkingOn
<1>9. s \in WorkingOn(c) /\ \A d \in Calls : d # c => s \notin WorkingOn(d)
  BY <1>1, <1>3 DEF WorkingOn
<1>10. TasksInOrder'
  <2>1. ASSUME NEW x \in Staff, NEW d \in Calls, row'[x][d] # None
        PROVE  d \in Stored
    BY <1>2, <1>3, <1>4, <1>5, <2>1 DEF DeskInv, TasksInOrder
  <2>2. ASSUME NEW x \in Staff, task'[x].pc # "idle"
        PROVE  /\ task'[x].lead \in Stored /\ task'[x].patch \in Statuses
               /\ task'[x].before \in Statuses
               /\ ~task'[x].ok => task'[x].pc = "answer"
    BY <1>2, <1>6, <2>2 DEF DeskInv, TasksInOrder
  <2>3. QED
    BY <1>1, <1>2, <1>8, <2>1, <2>2 DEF DeskInv, TasksInOrder
<1>11. ASSUME NEW d \in Stored' \ muddled'
       PROVE  InStep(d)'
  <2>1. d \in Calls /\ InStep(d)
    BY <1>1, <1>2, <1>8, <1>11 DEF DeskInv, Stored
  <2>2. LastStatus(d)' = LastStatus(d)
    BY <1>1 DEF LastStatus
  <2>3. \A x \in WorkingOn(d) : x \in Staff /\ (x # s => task'[x] = task[x])
    BY <1>6 DEF WorkingOn
  <2>4. (\A x \in WorkingOn(d) \ {s} : task'[x].pc # "trail") =>
            \A x \in WorkingOn(d) : task[x].pc # "trail"
    BY <1>1, <2>3
  <2>5. QED
    BY <1>1, <1>8, <2>1, <2>2, <2>3, <2>4 DEF InStep
<1>12. ASSUME NEW x \in Staff, NEW d \in Calls, <<x, d>> \notin stale'
       PROVE  UpToDate(x, d)'
  <2>1. UpToDate(x, d)
    BY <1>1, <1>2, <1>12 DEF DeskInv
  <2>2. CASE x # s
    BY <1>1, <1>5, <1>6, <1>8, <2>1, <2>2 DEF UpToDate
  <2>3. CASE x = s /\ d = c
    BY <1>1, <1>3, <1>5, <1>8, <1>9, <2>1, <2>3 DEF UpToDate
  <2>4. CASE x = s /\ d # c
    <3>1. s \notin WorkingOn(d) /\ row'[s][d] = fresh[d]
      BY <1>5, <1>9, <2>4
    <3>2. row'[s][d] # None => row'[s][d] = lead[d].status
      BY <1>4, <2>1, <2>4, <3>1 DEF UpToDate
    <3>3. QED
      BY <1>1, <1>8, <2>4, <3>2 DEF UpToDate
  <2>5. QED
    BY <2>2, <2>3, <2>4
<1>13. DeskInv'
  BY <1>10, <1>11, <1>12 DEF DeskInv
<1>14. QED
  BY <1>1, <1>7, <1>13, QueueInv

-----------------------------------------------------------------------------
(* The API process dies.                                                    *)

(* What the crash makes of one submission and of its acknowledgement.       *)
LEMMA CrashedEnquiry ==
    ASSUME LeadDeskInv, NEW c \in Calls, Crash
    PROVE  /\ call'[c] \in Call /\ ack'[c] \in Ack
           /\ call'[c].heard = call[c].heard /\ call'[c].form = call[c].form
           /\ call'[c].content = call[c].content
           /\ call'[c].pc = "over" <=> call[c].pc = "over"
           /\ call[c].pc = "over" => call'[c].answer = call[c].answer
           /\ Order(c)' /\ Message(c)'
<1>1. /\ SameDeployment /\ lead' = lead /\ trail' = trail /\ delivered' = delivered
      /\ call'[c] = IF c \in InApi THEN [call[c] EXCEPT !.pc = "answer", !.answer = "failed"]
                                   ELSE call[c]
      /\ ack'[c] = IF call[c].pc = "stored" \/ ack[c].pc \in {"lookup", "send", "record"}
                   THEN Gone("lost") ELSE ack[c]
  BY DEF Crash, fixed, leadVars, SameDeployment
<1>2. call[c] \in Call /\ ack[c] \in Ack /\ Order(c) /\ Message(c)
  BY DEF LeadDeskInv, TypeInv, EnquiryInv
<1>3. Gone("lost") \in Ack /\ Gone("lost").pc = "lost"
  BY DEF Gone, NoAck, Ack
<1>4. /\ ack'[c] \in Ack
      /\ ack'[c].pc = "lost" \/ (ack'[c] = ack[c] /\ call[c].pc # "stored")
      /\ ack'[c].pc \notin {"lookup", "send", "record"}
      /\ ack[c].pc = "none" /\ call[c].pc # "stored" => ack'[c] = ack[c]
      /\ ack[c].pc = "over" /\ call[c].pc # "stored" => ack'[c] = ack[c]
  BY <1>1, <1>2, <1>3
<1>5. CASE c \in InApi
  <2>1. /\ call'[c] \in Call /\ call'[c].pc = "answer" /\ call'[c].answer = "failed"
        /\ call'[c].heard = call[c].heard /\ call'[c].form = call[c].form
        /\ call'[c].content = call[c].content /\ call'[c].org = call[c].org
        /\ call[c].pc \in {"resolve", "store", "stored"}
    <3>1. call'[c] = [call[c] EXCEPT !.pc = "answer", !.answer = "failed"]
      BY <1>1, <1>5
    <3>2. QED
      BY <1>2, <1>5, <3>1 DEF Call, Waiting, InApi
  <2>2. Order(c)'
    BY <1>1, <1>2, <2>1 DEF Order, SameDeployment, Waiting, Destination, Known
  <2>3. Message(c)'
    BY <1>1, <1>2, <1>4, <2>1 DEF Order, Message, SameDeployment
  <2>4. QED
    BY <1>4, <2>1, <2>2, <2>3
<1>6. CASE c \notin InApi
  <2>1. call'[c] = call[c] /\ call[c].pc \notin {"resolve", "store", "stored"}
    BY <1>1, <1>6 DEF InApi
  <2>2. Order(c)'
    BY <1>1, <1>2, <1>4, <2>1 DEF Order, SameDeployment, Destination, Known
  <2>3. Message(c)'
    BY <1>1, <1>2, <1>4, <2>1 DEF Message, SameDeployment
  <2>4. QED
    BY <1>2, <1>4, <2>1, <2>2, <2>3
<1>7. QED
  BY <1>5, <1>6

(* Requests and acknowledgements are gone; what was committed stays.        *)
LEMMA CrashInv ==
    ASSUME LeadDeskInv, Crash
    PROVE  LeadDeskInv'
<1> DEFINE busy == {s \in Staff : task[s].pc \in {"update", "trail"}}
<1>1. /\ SameDeployment /\ form' = form /\ lead' = lead /\ trail' = trail /\ row' = row
      /\ delivered' = delivered
      /\ call' = [c \in Calls |-> IF c \in InApi
                THEN [call[c] EXCEPT !.pc = "answer", !.answer = "failed"] ELSE call[c]]
      /\ ack' = [c \in Calls |->
                IF call[c].pc = "stored" \/ ack[c].pc \in {"lookup", "send", "record"}
                THEN Gone("lost") ELSE ack[c]]
      /\ task' = [s \in Staff |-> IF s \in busy THEN Broken(task[s]) ELSE task[s]]
      /\ muddled' = muddled \cup Halved(busy) /\ stale' = stale \cup Misreported(busy)
  BY DEF Crash, fixed, leadVars, SameDeployment
<1>2. TypeInv
  BY DEF LeadDeskInv
<1>3. busy \in SUBSET Staff /\ \A s \in busy : task[s].pc # "idle" /\ task[s].ok
  <2>1. \A s \in busy : s \in Staff /\ task[s].pc # "idle" /\ task[s].pc # "answer"
    OBVIOUS
  <2>2. QED
    BY <2>1, UnderWay
<1> HIDE DEF busy
<1>4. /\ DeskInv' /\ task' \in [Staff -> Task]
      /\ muddled' \subseteq Calls /\ stale' \subseteq Staff \X Calls
  BY <1>1, <1>3, BrokenInv
<1>5. call' \in [Calls -> Call] /\ ack' \in [Calls -> Ack]
  <2>1. \A c \in Calls : call'[c] \in Call /\ ack'[c] \in Ack
    BY CrashedEnquiry
  <2>2. QED
    BY <1>1, <2>1, Zenon
<1>6. TypeInv'
  BY <1>1, <1>2, <1>4, <1>5, Zenon DEF TypeInv, SameDeployment
<1>7. EnquiryInv'
  BY CrashedEnquiry DEF EnquiryInv
<1>8. FormInv'
  <2>1. \A c \in Calls : /\ call'[c].heard = call[c].heard
                         /\ call'[c].form = call[c].form
                         /\ call'[c].content = call[c].content
                         /\ call'[c].pc = "over" <=> call[c].pc = "over"
                         /\ call[c].pc = "over" => call'[c].answer = call[c].answer
    BY CrashedEnquiry
  <2>2. QED
    BY <1>1, <2>1, FormKept DEF LeadDeskInv
<1>9. QED
  BY <1>4, <1>6, <1>7, <1>8 DEF LeadDeskInv

-----------------------------------------------------------------------------
(* A minute of the throttler ends, or nothing happens.                      *)
LEMMA NothingInv ==
    ASSUME LeadDeskInv, NextMinute \/ UNCHANGED vars
    PROVE  LeadDeskInv'
<1>1. /\ SameDeployment /\ SameDesk /\ SameMail
      /\ form' = form /\ call' = call /\ lead' = lead
  BY DEF NextMinute, vars, fixed, webVars, leadVars, deskVars, history,
         SameDeployment, SameDesk, SameMail
<1>2. TypeInv'
  BY <1>1 DEF LeadDeskInv, TypeInv, SameDeployment, SameDesk, SameMail
<1>3. DeskInv'
  BY <1>1, DeskKept DEF LeadDeskInv, SameMail
<1>4. QED
  BY <1>1, <1>2, <1>3, QueueInv DEF SameMail

(* Whatever anyone does, enquiries, forms and the queue stay in order.      *)
LEMMA LeadDeskStep == LeadDeskInv /\ [Next]_vars => LeadDeskInv'
<1> SUFFICES ASSUME LeadDeskInv, [Next]_vars PROVE LeadDeskInv'
  OBVIOUS
<1>1. ASSUME NEW f \in Forms, NEW c \in Calls, Submit(f, c) PROVE LeadDeskInv'
  BY <1>1, SubmitInv
<1>2. ASSUME NEW c \in Calls, Serve(c) \/ Fail(c) \/ Disconnect(c) PROVE LeadDeskInv'
  <2>1. CASE Forward(c) \/ Arrive(c) \/ Resolve(c) \/ Fail(c)
    BY <2>1, TransitInv
  <2>2. CASE Store(c)
    BY <2>2, StoreInv
  <2>3. CASE Created(c)
    BY <2>3, CreatedInv
  <2>4. CASE Receive(c) \/ Disconnect(c)
    BY <2>4, HearInv
  <2>5. QED
    BY <1>2, <2>1, <2>2, <2>3, <2>4 DEF Serve
<1>3. ASSUME NEW c \in Calls, Acknowledge(c) PROVE LeadDeskInv'
  <2>1. CASE Dispatch(c)
    BY <2>1, DispatchInv
  <2>2. CASE Accepted(c) \/ Rejected(c) \/ TimedOut(c)
    BY <2>2, AttemptInv
  <2>3. CASE Record(c)
    BY <2>3, RecordInv
  <2>4. QED
    BY <1>3, <2>1, <2>2, <2>3 DEF Acknowledge
<1>4. ASSUME NEW s \in Staff, NEW c \in Calls, Change(s, c) PROVE LeadDeskInv'
  BY <1>4, ChangeInv
<1>5. ASSUME NEW s \in Staff,
             Load(s) \/ UpdateStatus(s) \/ RecordActivity(s) \/ ChangeFails(s) \/ Settle(s)
      PROVE  LeadDeskInv'
  BY <1>5, LoadInv, UpdateStatusInv, RecordActivityInv, ChangeFailsInv, SettleInv
<1>6. CASE Crash
  BY <1>6, CrashInv
<1>7. CASE NextMinute \/ UNCHANGED vars
  BY <1>7, NothingInv
<1>8. QED
  BY <1>1, <1>2, <1>3, <1>4, <1>5, <1>6, <1>7 DEF Next

(* The invariant holds in every state the system reaches.                   *)
THEOREM LeadDeskInvariant == Spec => []LeadDeskInv
<1>1. QED
  BY LeadDeskInit, LeadDeskStep, PTL DEF Spec

-----------------------------------------------------------------------------
(* A form thanks its visitor only for an enquiry that is in the table, in   *)
(* the organisation it is meant for and about the listing it was sent from: *)
(* the answer of intake reaches the form that sent the submission, and no   *)
(* step in between changes where the lead belongs.                          *)
THEOREM ThanksAreForStoredLeads == Spec => []ThanksMeansStored
<1>1. LeadDeskInv => ThanksMeansStored
  <2> SUFFICES ASSUME LeadDeskInv, NEW f \in Forms, form[f].status = "success"
               PROVE  \E c \in Stored :
                        /\ call[c].form = f /\ call[c].content = form[f].content
                        /\ lead[c].org = IF Known(form[f].content)
                                         THEN Owner[form[f].content.listing] ELSE Host
                        /\ lead[c].listing = IF Known(form[f].content)
                                             THEN form[f].content.listing ELSE None
    BY DEF ThanksMeansStored
  <2>1. PICK c \in Calls : Holds(c) /\ call[c].pc = "over" /\ call[c].form = f
    BY DEF LeadDeskInv, FormInv
  <2>2. call[c].content = form[f].content /\ Order(c)
    BY <2>1 DEF LeadDeskInv, FormInv, EnquiryInv
  <2>3. lead[c] # NoLead
    BY <2>1, <2>2 DEF Holds, Order
  <2>4. /\ lead[c].org = Destination(call[c].content) /\ lead[c].org # None
        /\ lead[c].listing = IF Known(call[c].content) THEN call[c].content.listing ELSE None
    BY <2>1, <2>2, <2>3 DEF Order
  <2>5. ~Known(call[c].content) => lead[c].org = Host
    BY <2>4 DEF Destination, LeadDeskInv, TypeInv
  <2>6. c \in Stored
    BY <2>3 DEF Stored
  <2>7. QED
    BY <2>1, <2>2, <2>4, <2>5, <2>6 DEF Destination
<1>2. QED
  BY <1>1, LeadDeskInvariant, PTL

(* One form stores two leads only if it had reported the first as failed:   *)
(* the connection was lost, or the API died after the INSERT.  The disabled *)
(* button is all that stands against duplicates.                            *)
THEOREM DuplicatesWereLost == Spec => []DuplicatesWereReportedLost
<1>1. LeadDeskInv => DuplicatesWereReportedLost
  <2> SUFFICES ASSUME LeadDeskInv
               PROVE  DuplicatesWereReportedLost
    OBVIOUS
  <2>0. ASSUME NEW e \in Stored PROVE call[e].heard \in BOOLEAN
    <3>1. e \in Calls /\ call[e] \in Call
      BY DEF Stored, LeadDeskInv, TypeInv
    <3> QED
      BY <3>1 DEF Call
  <2> SUFFICES ASSUME NEW c \in Stored, NEW d \in Stored, c # d,
                      call[c].form = call[d].form,
                      \A e \in {c, d} : call[e].heard /\ call[e].answer # "failed"
               PROVE  FALSE
    BY <2>0, Zenon DEF DuplicatesWereReportedLost
  <2>1. ASSUME NEW e \in {c, d}
        PROVE  e \in Calls /\ Holds(e)
    <3>1. e \in Calls /\ lead[e] # NoLead /\ Order(e) /\ call[e] \in Call
      BY DEF Stored, LeadDeskInv, TypeInv, EnquiryInv
    <3>2. call[e].pc = "over" => call[e].answer = "created"
      BY <3>1 DEF Order
    <3>3. QED
      BY <3>1, <3>2 DEF Holds
  <2>2. QED
    BY <2>1 DEF LeadDeskInv, FormInv
<1>2. QED
  BY <1>1, LeadDeskInvariant, PTL

(* No message reaches anyone but for a stored enquiry that left a mobile    *)
(* number and ticked the box on that very submission.                       *)
THEOREM MessagesNeedConsent == Spec => []NoMessageWithoutConsent
<1>1. LeadDeskInv => NoMessageWithoutConsent
  BY DEF LeadDeskInv, EnquiryInv, Message, NoMessageWithoutConsent, Stored
<1>2. QED
  BY <1>1, LeadDeskInvariant, PTL

(* A trail has at most one outcome of an acknowledgement, which says sent   *)
(* only of a message that arrived, and skipped or simulated where none did. *)
THEOREM TrailsAreHonest == Spec => []TrailIsHonest
<1>1. LeadDeskInv => TrailIsHonest
  BY DEF LeadDeskInv, EnquiryInv, Message, TrailIsHonest
<1>2. QED
  BY <1>1, LeadDeskInvariant, PTL

(* Once no change is under way, the last status on a lead's trail is the    *)
(* lead's, unless two changes overlapped or one was cut off halfway.        *)
THEOREM TrailsMatchTheLead == Spec => []TrailMatchesStatus
<1>1. LeadDeskInv => TrailMatchesStatus
  BY DEF LeadDeskInv, DeskInv, InStep, TrailMatchesStatus
<1>2. QED
  BY <1>1, LeadDeskInvariant, PTL

(* A row that no colleague's change or misreported failure has made old     *)
(* shows the status its lead has, once its own change is over.              *)
THEOREM RowsAreCurrent == Spec => []RowsShowTheLead
<1>1. LeadDeskInv => RowsShowTheLead
  BY DEF LeadDeskInv, DeskInv, UpToDate, RowsShowTheLead
<1>2. QED
  BY <1>1, LeadDeskInvariant, PTL

=============================================================================
