---------------------------- MODULE ContactProofs ----------------------------
(* The properties of ContactIdentity for every set of phones, addresses,    *)
(* contacts and requests, with their proofs.                                *)
EXTENDS TLAPS, ContactIdentity

Pcs == {"idle", "by phone", "by email", "insert", "file", "sign up", "link"}

Lead == [form : Form, contact : Contacts]

(* Columns, identities and requests refer to what there can be.             *)
TypeInv ==
    /\ contacts \subseteq Contacts
    /\ primary_phone \in [Contacts -> Phones \cup {None}]
    /\ primary_email \in [Contacts -> Emails \cup {None}]
    /\ phone_otp \in [Phones -> contacts \cup {None}]
    /\ password \in [Emails -> Contacts \cup {None}]
    /\ secret \in [Emails -> Contacts \cup {None}]
    /\ signed_in \subseteq contacts
    /\ filed \subseteq Lead
    /\ contested \subseteq Emails
    /\ pc \in [Requests -> Pcs]
    /\ req \in [Requests -> Request]

(* Only a row has a phone or an address.                                    *)
OnlyRowsHaveColumns ==
    \A c \in Contacts \ contacts : primary_phone[c] = None /\ primary_email[c] = None

(* A contact with these columns has the phone or the address on a form.     *)
AnswersIn(phones, emails, c, form) ==
    \/ form.phone # None /\ phones[c] = form.phone
    \/ emails[c] = form.email

Answers(c, form) == AnswersIn(primary_phone, primary_email, c, form)

Answered(c, form) == AnswersIn(primary_phone', primary_email', c, form)

(* What each request needs of its form, and the contact found for a lead.   *)
FormsInOrder ==
    \A r \in Requests :
        /\ pc[r] \in {"by phone", "by email", "insert", "file"} => req[r].form.email \in Emails
        /\ pc[r] = "sign up" => req[r].form.phone \in Phones
        /\ pc[r] = "file" => req[r].contact \in Contacts /\ Answers(req[r].contact, req[r].form)
        /\ pc[r] = "link" => req[r].form.email \in Emails /\ req[r].contact \in contacts

FiledAnswers ==
    \A f \in filed : f.form.email \in Emails /\ Answers(f.contact, f.form)

(* As long as nobody else was linking the address, the one request that is  *)
(* finds it free or its own contact's, as it was when it looked.            *)
LinksAlone ==
    \A r \in Requests :
        pc[r] = "link" /\ req[r].form.email \notin contested =>
            /\ NotTaken(req[r].form.email, req[r].contact)
            /\ \A q \in Requests :
                pc[q] = "link" /\ req[q].form.email = req[r].form.email => q = r

PersonInv ==
    /\ TypeInv /\ OnlyRowsHaveColumns /\ FormsInOrder /\ FiledAnswers /\ LinksAlone
    /\ IdentityIsItsContact /\ PasswordIsItsOwners

(* A phone or an address, once set, is never another.                       *)
ColumnsKept ==
    \A c \in Contacts :
        /\ primary_phone[c] # None => primary_phone'[c] = primary_phone[c]
        /\ primary_email[c] # None => primary_email'[c] = primary_email[c]

(* The record of a request that is over.                                    *)
LEMMA NoRequestType == NoRequest \in Request
  BY DEF NoRequest, Request, Form

(* At the start there is no contact and no request.                         *)
LEMMA PersonInit == Init => PersonInv
<1>1. Init => TypeInv
  BY NoRequestType DEF Init, TypeInv, Pcs
<1>2. Init => OnlyRowsHaveColumns /\ FormsInOrder /\ FiledAnswers /\ LinksAlone
  BY DEF Init, OnlyRowsHaveColumns, FormsInOrder, FiledAnswers, LinksAlone
<1>3. Init => IdentityIsItsContact /\ PasswordIsItsOwners
  BY DEF Init, IdentityIsItsContact, PasswordIsItsOwners
<1>4. QED
  BY <1>1, <1>2, <1>3 DEF PersonInv

(* COALESCE fills what is empty and leaves the rest.                        *)
LEMMA BackfillKeeps ==
    ASSUME PersonInv, NEW c \in Contacts, NEW form \in Form, Backfill(c, form)
    PROVE  /\ primary_phone' \in [Contacts -> Phones \cup {None}]
           /\ primary_email' \in [Contacts -> Emails \cup {None}]
           /\ ColumnsKept
           /\ \A d \in Contacts : d # c => primary_phone'[d] = primary_phone[d]
                                           /\ primary_email'[d] = primary_email[d]
           /\ primary_phone[c] = None => primary_phone'[c] = form.phone
           /\ primary_email[c] = None => primary_email'[c] = form.email
<1> USE DEF PersonInv, TypeInv
<1>1. form.phone \in Phones \cup {None} /\ form.email \in Emails \cup {None}
  BY DEF Form
<1>2. /\ primary_phone' = [primary_phone EXCEPT ![c] = Coalesce(primary_phone[c], form.phone)]
      /\ primary_email' = [primary_email EXCEPT ![c] = Coalesce(primary_email[c], form.email)]
  BY DEF Backfill
<1>3. /\ Coalesce(primary_phone[c], form.phone) \in Phones \cup {None}
      /\ Coalesce(primary_email[c], form.email) \in Emails \cup {None}
      /\ primary_phone[c] # None => Coalesce(primary_phone[c], form.phone) = primary_phone[c]
      /\ primary_email[c] # None => Coalesce(primary_email[c], form.email) = primary_email[c]
      /\ primary_phone[c] = None => Coalesce(primary_phone[c], form.phone) = form.phone
      /\ primary_email[c] = None => Coalesce(primary_email[c], form.email) = form.email
  BY <1>1 DEF Coalesce
<1>4. QED
  BY <1>2, <1>3 DEF ColumnsKept

(* Whoever answered a form goes on answering it.                            *)
LEMMA AnswersKept ==
    ASSUME PersonInv, ColumnsKept, NEW c \in Contacts, NEW form,
           form.email \in Emails, Answers(c, form)
    PROVE  Answered(c, form)
  BY ContactAssumption DEF ColumnsKept, Answers, Answered, AnswersIn

(* A step of one request that empties no column and gives no identity a     *)
(* phone that its contact does not have: the parts about forms and phones.  *)
LEMMA FormsKept ==
    ASSUME PersonInv, NEW r \in Requests, ColumnsKept, contacts \subseteq contacts',
           \A p \in Phones : phone_otp'[p] = phone_otp[p]
                             \/ (phone_otp'[p] # None /\ primary_phone'[phone_otp'[p]] = p),
           \A f \in filed' : f \in filed \/ (f.form.email \in Emails /\ Answered(f.contact, f.form)),
           \A q \in Requests : q # r => req'[q] = req[q] /\ pc'[q] = pc[q],
           pc'[r] \in {"by phone", "by email", "insert", "file"} => req'[r].form.email \in Emails,
           pc'[r] = "sign up" => req'[r].form.phone \in Phones,
           pc'[r] = "file" => req'[r].contact \in Contacts
                              /\ Answered(req'[r].contact, req'[r].form),
           pc'[r] = "link" => req'[r].form.email \in Emails /\ req'[r].contact \in contacts'
    PROVE  FormsInOrder' /\ FiledAnswers' /\ IdentityIsItsContact'
<1> USE ContactAssumption DEF PersonInv
<1>1. FormsInOrder'
  <2>1. ASSUME NEW q \in Requests, q # r, pc[q] = "file"
        PROVE  Answered(req[q].contact, req[q].form)
    <3>1. /\ req[q].contact \in Contacts /\ req[q].form.email \in Emails
          /\ Answers(req[q].contact, req[q].form)
      BY <2>1 DEF FormsInOrder
    <3>2. QED
      BY <3>1, AnswersKept
  <2>2. ASSUME NEW q \in Requests
        PROVE  /\ pc'[q] \in {"by phone", "by email", "insert", "file"} =>
                    req'[q].form.email \in Emails
               /\ pc'[q] = "sign up" => req'[q].form.phone \in Phones
               /\ pc'[q] = "file" => req'[q].contact \in Contacts
                                     /\ Answered(req'[q].contact, req'[q].form)
               /\ pc'[q] = "link" => req'[q].form.email \in Emails
                                     /\ req'[q].contact \in contacts'
    <3>1. CASE q = r
      BY <3>1
    <3>2. CASE q # r
      BY <2>1, <3>2 DEF FormsInOrder
    <3>3. QED
      BY <3>1, <3>2
  <2>3. QED
    BY <2>2 DEF FormsInOrder, Answers, Answered
<1>2. FiledAnswers'
  <2>1. ASSUME NEW f \in filed
        PROVE  f.form.email \in Emails /\ Answered(f.contact, f.form)
    <3>1. /\ f.contact \in Contacts /\ f.form.email \in Emails
          /\ Answers(f.contact, f.form)
      BY DEF FiledAnswers, TypeInv, Lead
    <3>2. QED
      BY <3>1, AnswersKept
  <2>2. QED
    BY <2>1 DEF FiledAnswers, Answers, Answered
<1>3. IdentityIsItsContact'
  <2>1. ASSUME NEW p \in Phones, phone_otp[p] # None, phone_otp'[p] = phone_otp[p]
        PROVE  primary_phone'[phone_otp'[p]] = p
    <3>1. phone_otp[p] \in Contacts /\ primary_phone[phone_otp[p]] = p /\ p # None
      <4>1. phone_otp \in [Phones -> Contacts \cup {None}]
        BY DEF TypeInv
      <4>2. phone_otp[p] \in Contacts
        BY <2>1, <4>1
      <4>3. primary_phone[phone_otp[p]] = p
        BY <2>1 DEF IdentityIsItsContact
      <4>4. p # None
        BY ContactAssumption
      <4>5. QED
        BY <4>2, <4>3, <4>4
    <3>2. QED
      BY <2>1, <3>1 DEF ColumnsKept
  <2>2. QED
    BY <2>1 DEF IdentityIsItsContact
<1>4. QED
  BY <1>1, <1>2, <1>3

(* Such a step, when it neither links nor starts to.                        *)
LEMMA PersonKept ==
    ASSUME PersonInv, NEW r \in Requests, ColumnsKept, contacts \subseteq contacts',
           TypeInv', OnlyRowsHaveColumns',
           UNCHANGED <<password, secret, contested>>,
           \A p \in Phones : phone_otp'[p] = phone_otp[p]
                             \/ (phone_otp'[p] # None /\ primary_phone'[phone_otp'[p]] = p),
           \A f \in filed' : f \in filed \/ (f.form.email \in Emails /\ Answered(f.contact, f.form)),
           \A q \in Requests : q # r => req'[q] = req[q] /\ pc'[q] = pc[q],
           pc'[r] \in {"by phone", "by email", "insert", "file"} => req'[r].form.email \in Emails,
           pc'[r] = "sign up" => req'[r].form.phone \in Phones,
           pc'[r] = "file" => req'[r].contact \in Contacts
                              /\ Answered(req'[r].contact, req'[r].form),
           pc'[r] # "link"
    PROVE  PersonInv'
<1> USE DEF PersonInv
<1>1. FormsInOrder' /\ FiledAnswers' /\ IdentityIsItsContact'
  BY FormsKept
<1>2. LinksAlone'
  <2>1. ASSUME NEW q \in Requests, pc'[q] = "link"
        PROVE  q # r /\ pc[q] = "link" /\ req'[q] = req[q]
    BY <2>1
  <2>2. ASSUME NEW q \in Requests, pc'[q] = "link", req'[q].form.email \notin contested
        PROVE  /\ password'[req'[q].form.email] \in {None, req'[q].contact}
               /\ \A o \in Requests :
                    pc'[o] = "link" /\ req'[o].form.email = req'[q].form.email => o = q
    <3>1. q # r /\ pc[q] = "link" /\ req'[q] = req[q]
      BY <2>1, <2>2
    <3>2. /\ password[req[q].form.email] \in {None, req[q].contact}
          /\ \A o \in Requests :
               pc[o] = "link" /\ req[o].form.email = req[q].form.email => o = q
      BY <3>1, <2>2 DEF LinksAlone, NotTaken
    <3>3. password' = password
      OBVIOUS
    <3>4. QED
      BY <2>1, <3>1, <3>2, <3>3
  <2>3. QED
    BY <2>2 DEF LinksAlone, NotTaken
<1>3. PasswordIsItsOwners'
  BY DEF PasswordIsItsOwners
<1>4. QED
  BY <1>1, <1>2, <1>3

-----------------------------------------------------------------------------
(* The contacts a SELECT finds are rows.                                    *)
LEMMA FoundRow ==
    ASSUME PersonInv, NEW c, NEW x, c \in HasPhone(x) \/ c \in HasEmail(x)
    PROVE  c \in contacts /\ c \in Contacts
  BY DEF PersonInv, TypeInv, HasPhone, HasEmail

(* A request that ends without having written.                              *)
LEMMA GivesUp ==
    ASSUME PersonInv, NEW r \in Requests, Done(r),
           UNCHANGED <<contacts, columns, identities, signed_in, filed, contested>>
    PROVE  PersonInv'
<1>1. /\ pc' = [pc EXCEPT ![r] = "idle"]
      /\ req' = [req EXCEPT ![r] = NoRequest]
      /\ UNCHANGED <<contacts, primary_phone, primary_email, phone_otp, password, secret,
                     signed_in, filed, contested>>
  BY DEF Done, columns, identities
<1>2. TypeInv' /\ OnlyRowsHaveColumns' /\ ColumnsKept
  BY <1>1, NoRequestType DEF PersonInv, TypeInv, OnlyRowsHaveColumns, ColumnsKept, Pcs
<1>3. /\ \A q \in Requests : q # r => req'[q] = req[q] /\ pc'[q] = pc[q]
      /\ pc'[r] = "idle"
  BY <1>1 DEF PersonInv, TypeInv
<1>4. QED
  BY <1>1, <1>2, <1>3, PersonKept

(* The contact is found, or inserted, and given what the form adds.         *)
LEMMA Matched ==
    ASSUME PersonInv, NEW r \in Requests, NEW c \in Contacts, NEW form \in Form,
           form = req[r].form, form.email \in Emails,
           primary_email[c] = None \/ Answers(c, form),
           Backfill(c, form),
           pc' = [pc EXCEPT ![r] = "file"],
           req' = [req EXCEPT ![r].contact = c],
           contacts \subseteq contacts', contacts' \subseteq Contacts, c \in contacts',
           UNCHANGED <<identities, signed_in, filed, contested>>
    PROVE  PersonInv'
<1>1. UNCHANGED <<phone_otp, password, secret, signed_in, filed, contested>>
  BY DEF identities
<1>2. /\ req'[r] = [req[r] EXCEPT !.contact = c]
      /\ req'[r] \in Request /\ req'[r].form = form /\ req'[r].contact = c
      /\ req' \in [Requests -> Request]
  BY DEF PersonInv, TypeInv, Request
<1>3. /\ pc' \in [Requests -> Pcs] /\ pc'[r] = "file"
      /\ \A q \in Requests : q # r => req'[q] = req[q] /\ pc'[q] = pc[q]
  BY DEF PersonInv, TypeInv, Pcs
<1>4. /\ primary_phone' \in [Contacts -> Phones \cup {None}]
      /\ primary_email' \in [Contacts -> Emails \cup {None}]
      /\ ColumnsKept
      /\ \A d \in Contacts : d # c => primary_phone'[d] = primary_phone[d]
                                      /\ primary_email'[d] = primary_email[d]
      /\ primary_email[c] = None => primary_email'[c] = form.email
  BY BackfillKeeps
<1>5. TypeInv'
  BY <1>1, <1>2, <1>3, <1>4 DEF PersonInv, TypeInv
<1>6. OnlyRowsHaveColumns'
  BY <1>4 DEF PersonInv, TypeInv, OnlyRowsHaveColumns
<1>7. Answered(c, form)
  <2>1. CASE primary_email[c] = None
    BY <1>4, <2>1 DEF Answered, AnswersIn
  <2>2. CASE Answers(c, form)
    BY <1>4, <2>2, AnswersKept
  <2>3. QED
    BY <2>1, <2>2
<1>8. /\ \A p \in Phones : phone_otp'[p] = phone_otp[p]
      /\ \A f \in filed' : f \in filed
      /\ UNCHANGED <<password, secret, contested>>
  BY <1>1
<1>9. /\ req'[r].form.email \in Emails /\ req'[r].contact \in Contacts
      /\ Answered(req'[r].contact, req'[r].form)
  BY <1>2, <1>7
<1>10. QED
  BY <1>3, <1>4, <1>5, <1>6, <1>8, <1>9, PersonKept

-----------------------------------------------------------------------------
(* An enquiry that arrives changes no contact.                              *)
LEMMA LeadArrivesPerson ==
    ASSUME PersonInv, NEW r \in Requests, LeadArrives(r)
    PROVE  PersonInv'
<1>1. PICK p \in Phones \cup {None}, e \in Emails, opt \in BOOLEAN :
        req' = [req EXCEPT ![r].form = [phone |-> p, email |-> e, opt |-> opt]]
  BY DEF LeadArrives
<1>2. /\ pc' = [pc EXCEPT ![r] = "by phone"]
      /\ UNCHANGED <<contacts, primary_phone, primary_email, phone_otp, password, secret,
                     signed_in, filed, contested>>
  BY DEF LeadArrives, columns, identities
<1>3. req[r] \in Request
  BY DEF PersonInv, TypeInv
<1>4. req'[r] \in Request /\ req'[r].form.email \in Emails /\ req' \in [Requests -> Request]
  BY <1>1, <1>3 DEF PersonInv, TypeInv, Request, Form
<1>5. /\ pc' \in [Requests -> Pcs] /\ pc'[r] = "by phone"
      /\ \A q \in Requests : q # r => req'[q] = req[q] /\ pc'[q] = pc[q]
  BY <1>1, <1>2 DEF PersonInv, TypeInv, Pcs
<1>6. TypeInv' /\ OnlyRowsHaveColumns' /\ ColumnsKept
  BY <1>2, <1>4, <1>5 DEF PersonInv, TypeInv, OnlyRowsHaveColumns, ColumnsKept
<1>7. QED
  BY <1>2, <1>4, <1>5, <1>6, PersonKept

(* Nothing was found: the request goes on to its next look.                 *)
LEMMA LooksOn ==
    ASSUME PersonInv, NEW r \in Requests, NEW label \in {"by email", "insert"},
           req[r].form.email \in Emails, Goto(r, label),
           UNCHANGED <<contacts, columns, identities, signed_in, filed, contested>>
    PROVE  PersonInv'
<1>1. /\ pc' = [pc EXCEPT ![r] = label] /\ req' = req
      /\ UNCHANGED <<contacts, primary_phone, primary_email, phone_otp, password, secret,
                     signed_in, filed, contested>>
  BY DEF Goto, columns, identities
<1>2. TypeInv' /\ OnlyRowsHaveColumns' /\ ColumnsKept
  BY <1>1 DEF PersonInv, TypeInv, OnlyRowsHaveColumns, ColumnsKept, Pcs
<1>3. /\ \A q \in Requests : q # r => req'[q] = req[q] /\ pc'[q] = pc[q]
      /\ pc'[r] = label
  BY <1>1 DEF PersonInv, TypeInv
<1>4. QED
  BY <1>1, <1>2, <1>3, PersonKept

(* MatchOn, for a contact that was found or is being inserted.              *)
LEMMA MatchOnPerson ==
    ASSUME PersonInv, NEW r \in Requests, NEW c \in Contacts,
           req[r].form.email \in Emails, MatchOn(r, c, req[r].form),
           primary_email[c] = None \/ Answers(c, req[r].form),
           contacts' = IF Clashes(c, req[r].form) THEN contacts ELSE contacts \cup {c},
           UNCHANGED <<identities, signed_in, filed, contested>>
    PROVE  PersonInv'
<1>1. req[r].form \in Form
  BY DEF PersonInv, TypeInv, Request
<1>2. CASE Clashes(c, req[r].form)
  BY <1>2, GivesUp DEF MatchOn
<1>3. CASE ~Clashes(c, req[r].form)
  <2>1. /\ Backfill(c, req[r].form)
        /\ pc' = [pc EXCEPT ![r] = "file"]
        /\ req' = [req EXCEPT ![r].contact = c]
    BY <1>3 DEF MatchOn
  <2>2. contacts \subseteq contacts' /\ contacts' \subseteq Contacts /\ c \in contacts'
    BY <1>3 DEF PersonInv, TypeInv
  <2>3. QED
    BY <1>1, <2>1, <2>2, Matched
<1>4. QED
  BY <1>2, <1>3

(* The contact found by phone gains the email, and keeps who it is.         *)
LEMMA FindByPhonePerson ==
    ASSUME PersonInv, NEW r \in Requests, FindByPhone(r)
    PROVE  PersonInv'
<1>1. /\ pc[r] = "by phone"
      /\ UNCHANGED <<contacts, identities, signed_in, filed, contested>>
      /\ \/ \E c \in HasPhone(req[r].form.phone) : MatchOn(r, c, req[r].form)
         \/ Goto(r, "by email") /\ UNCHANGED columns
  BY DEF FindByPhone
<1>2. req[r].form.email \in Emails
  BY <1>1 DEF PersonInv, FormsInOrder
<1>3. CASE \E c \in HasPhone(req[r].form.phone) : MatchOn(r, c, req[r].form)
  <2>1. PICK c \in HasPhone(req[r].form.phone) : MatchOn(r, c, req[r].form)
    BY <1>3
  <2>2. c \in contacts /\ c \in Contacts
    BY FoundRow
  <2>3. Answers(c, req[r].form)
    BY DEF HasPhone, Answers, AnswersIn
  <2>4. contacts' = IF Clashes(c, req[r].form) THEN contacts ELSE contacts \cup {c}
    BY <1>1, <2>2
  <2>5. QED
    BY <1>1, <1>2, <2>1, <2>2, <2>3, <2>4, MatchOnPerson
<1>4. CASE Goto(r, "by email") /\ UNCHANGED columns
  BY <1>1, <1>2, <1>4, LooksOn
<1>5. QED
  BY <1>1, <1>3, <1>4

(* The contact found by email gains the phone, and keeps who it is.         *)
LEMMA FindByEmailPerson ==
    ASSUME PersonInv, NEW r \in Requests, FindByEmail(r)
    PROVE  PersonInv'
<1>1. /\ pc[r] = "by email"
      /\ UNCHANGED <<contacts, identities, signed_in, filed, contested>>
      /\ \/ \E c \in HasEmail(req[r].form.email) : MatchOn(r, c, req[r].form)
         \/ Goto(r, "insert") /\ UNCHANGED columns
  BY DEF FindByEmail
<1>2. req[r].form.email \in Emails
  BY <1>1 DEF PersonInv, FormsInOrder
<1>3. CASE \E c \in HasEmail(req[r].form.email) : MatchOn(r, c, req[r].form)
  <2>1. PICK c \in HasEmail(req[r].form.email) : MatchOn(r, c, req[r].form)
    BY <1>3
  <2>2. c \in contacts /\ c \in Contacts
    BY FoundRow
  <2>3. Answers(c, req[r].form)
    BY DEF HasEmail, Answers, AnswersIn
  <2>4. contacts' = IF Clashes(c, req[r].form) THEN contacts ELSE contacts \cup {c}
    BY <1>1, <2>2
  <2>5. QED
    BY <1>1, <1>2, <2>1, <2>2, <2>3, <2>4, MatchOnPerson
<1>4. CASE Goto(r, "insert") /\ UNCHANGED columns
  BY <1>1, <1>2, <1>4, LooksOn
<1>5. QED
  BY <1>1, <1>3, <1>4

(* A contact made for an enquiry has the details of that enquiry.           *)
LEMMA InsertContactPerson ==
    ASSUME PersonInv, NEW r \in Requests, InsertContact(r)
    PROVE  PersonInv'
<1>1. PICK c \in Contacts \ contacts :
        /\ MatchOn(r, c, req[r].form)
        /\ contacts' = IF Clashes(c, req[r].form) THEN contacts ELSE contacts \cup {c}
  BY DEF InsertContact
<1>2. /\ pc[r] = "insert"
      /\ UNCHANGED <<identities, signed_in, filed, contested>>
  BY DEF InsertContact
<1>3. req[r].form.email \in Emails /\ primary_email[c] = None
  BY <1>2 DEF PersonInv, FormsInOrder, OnlyRowsHaveColumns
<1>4. QED
  BY <1>1, <1>2, <1>3, MatchOnPerson

(* The lead hangs from the contact that was found or made for it.           *)
LEMMA FileLeadPerson ==
    ASSUME PersonInv, NEW r \in Requests, FileLead(r)
    PROVE  PersonInv'
<1>1. /\ pc[r] = "file"
      /\ filed' = filed \cup {[form |-> req[r].form, contact |-> req[r].contact]}
      /\ pc' = [pc EXCEPT ![r] = "idle"]
      /\ req' = [req EXCEPT ![r] = NoRequest]
      /\ UNCHANGED <<contacts, primary_phone, primary_email, phone_otp, password, secret,
                     signed_in, contested>>
  BY DEF FileLead, Done, columns, identities
<1>2. /\ req[r].form \in Form /\ req[r].form.email \in Emails
      /\ req[r].contact \in Contacts /\ Answers(req[r].contact, req[r].form)
  BY <1>1 DEF PersonInv, TypeInv, FormsInOrder, Request
<1>3. TypeInv' /\ OnlyRowsHaveColumns' /\ ColumnsKept
  <2>1. filed' \subseteq Lead
    BY <1>1, <1>2 DEF PersonInv, TypeInv, Lead
  <2>2. pc' \in [Requests -> Pcs] /\ req' \in [Requests -> Request]
    BY <1>1, NoRequestType DEF PersonInv, TypeInv, Pcs
  <2>3. QED
    BY <1>1, <2>1, <2>2 DEF PersonInv, TypeInv, OnlyRowsHaveColumns, ColumnsKept
<1>4. Answered(req[r].contact, req[r].form)
  BY <1>1, <1>2 DEF Answers, Answered
<1>5. \A f \in filed' : f \in filed \/ (f.form.email \in Emails /\ Answered(f.contact, f.form))
  BY <1>1, <1>2, <1>4
<1>6. /\ \A q \in Requests : q # r => req'[q] = req[q] /\ pc'[q] = pc[q]
      /\ pc'[r] = "idle"
  BY <1>1 DEF PersonInv, TypeInv
<1>7. QED
  BY <1>1, <1>3, <1>5, <1>6, PersonKept

-----------------------------------------------------------------------------
(* A sign-in by phone is one of the contact of that phone.                  *)
LEMMA SignInPerson ==
    ASSUME PersonInv, NEW r \in Requests, SignIn(r)
    PROVE  PersonInv'
<1>1. PICK p \in Phones, opt \in BOOLEAN :
        \/ /\ phone_otp[p] # None
           /\ signed_in' = signed_in \cup {phone_otp[p]}
           /\ UNCHANGED <<pc, req>>
        \/ /\ req' = [req EXCEPT ![r].form = [phone |-> p, email |-> None, opt |-> opt]]
           /\ pc' = [pc EXCEPT ![r] = "sign up"]
           /\ UNCHANGED signed_in
  BY DEF SignIn
<1>2. /\ pc[r] = "idle"
      /\ UNCHANGED <<contacts, primary_phone, primary_email, phone_otp, password, secret,
                     filed, contested>>
  BY DEF SignIn, identities
<1>3. OnlyRowsHaveColumns' /\ ColumnsKept
  BY <1>2 DEF PersonInv, OnlyRowsHaveColumns, ColumnsKept
<1>4. CASE /\ phone_otp[p] # None
           /\ signed_in' = signed_in \cup {phone_otp[p]}
           /\ UNCHANGED <<pc, req>>
  <2>1. TypeInv'
    BY <1>2, <1>4 DEF PersonInv, TypeInv
  <2>2. QED
    BY <1>2, <1>3, <1>4, <2>1, PersonKept
<1>5. CASE /\ req' = [req EXCEPT ![r].form = [phone |-> p, email |-> None, opt |-> opt]]
           /\ pc' = [pc EXCEPT ![r] = "sign up"]
           /\ UNCHANGED signed_in
  <2>1. req[r] \in Request
    BY DEF PersonInv, TypeInv
  <2>2. req'[r] \in Request /\ req'[r].form.phone \in Phones /\ req' \in [Requests -> Request]
    BY <1>5, <2>1 DEF PersonInv, TypeInv, Request, Form
  <2>3. /\ pc' \in [Requests -> Pcs] /\ pc'[r] = "sign up"
        /\ \A q \in Requests : q # r => req'[q] = req[q] /\ pc'[q] = pc[q]
    BY <1>5 DEF PersonInv, TypeInv, Pcs
  <2>4. TypeInv'
    BY <1>2, <1>5, <2>2, <2>3 DEF PersonInv, TypeInv
  <2>5. QED
    BY <1>2, <1>3, <2>2, <2>3, <2>4, PersonKept
<1>6. QED
  BY <1>1, <1>4, <1>5

(* A new contact has its identity's phone, because its row was empty.       *)
LEMMA SignUpPerson ==
    ASSUME PersonInv, NEW r \in Requests, SignUp(r)
    PROVE  PersonInv'
<1>1. PICK c \in Contacts \ contacts :
        \/ /\ contacts' = contacts \cup {c}
           /\ Backfill(c, req[r].form)
           /\ phone_otp' = [phone_otp EXCEPT ![req[r].form.phone] = c]
           /\ signed_in' = signed_in \cup {c}
        \/ UNCHANGED <<contacts, columns, phone_otp, signed_in>>
  BY DEF SignUp
<1>2. /\ pc[r] = "sign up" /\ Done(r)
      /\ UNCHANGED <<password, secret, filed, contested>>
  BY DEF SignUp
<1>3. req[r].form \in Form /\ req[r].form.phone \in Phones /\ primary_phone[c] = None
  BY <1>2 DEF PersonInv, TypeInv, FormsInOrder, OnlyRowsHaveColumns, Request
<1>4. CASE UNCHANGED <<contacts, columns, phone_otp, signed_in>>
  BY <1>2, <1>4, GivesUp DEF identities
<1>5. CASE /\ contacts' = contacts \cup {c}
           /\ Backfill(c, req[r].form)
           /\ phone_otp' = [phone_otp EXCEPT ![req[r].form.phone] = c]
           /\ signed_in' = signed_in \cup {c}
  <2>1. /\ primary_phone' \in [Contacts -> Phones \cup {None}]
        /\ primary_email' \in [Contacts -> Emails \cup {None}]
        /\ ColumnsKept
        /\ \A d \in Contacts : d # c => primary_phone'[d] = primary_phone[d]
                                        /\ primary_email'[d] = primary_email[d]
        /\ primary_phone'[c] = req[r].form.phone
    BY <1>3, <1>5, BackfillKeeps
  <2>2. \A p \in Phones : phone_otp'[p] = phone_otp[p]
                          \/ (phone_otp'[p] # None /\ primary_phone'[phone_otp'[p]] = p)
    BY <1>3, <1>5, <2>1, ContactAssumption DEF PersonInv, TypeInv
  <2>3. /\ pc' = [pc EXCEPT ![r] = "idle"] /\ pc' \in [Requests -> Pcs]
        /\ req' = [req EXCEPT ![r] = NoRequest] /\ req' \in [Requests -> Request]
    BY <1>2, NoRequestType DEF PersonInv, TypeInv, Done, Pcs
  <2>4. TypeInv' /\ OnlyRowsHaveColumns'
    <3>1. phone_otp' \in [Phones -> contacts' \cup {None}]
      BY <1>5 DEF PersonInv, TypeInv
    <3>2. TypeInv'
      BY <1>2, <1>5, <2>1, <2>3, <3>1 DEF PersonInv, TypeInv
    <3>3. OnlyRowsHaveColumns'
      BY <1>5, <2>1 DEF PersonInv, OnlyRowsHaveColumns
    <3>4. QED
      BY <3>2, <3>3
  <2>5. /\ \A q \in Requests : q # r => req'[q] = req[q] /\ pc'[q] = pc[q]
        /\ pc'[r] = "idle"
    BY <2>3 DEF PersonInv, TypeInv
  <2>6. QED
    BY <1>2, <1>5, <2>1, <2>2, <2>4, <2>5, PersonKept
<1>6. QED
  BY <1>1, <1>4, <1>5

(* Whoever starts to link an address while another does makes it contested. *)
LEMMA LinkCheckPerson ==
    ASSUME PersonInv, NEW r \in Requests, LinkCheck(r)
    PROVE  PersonInv'
<1>1. PICK c \in signed_in, e \in Emails :
        /\ NotTaken(e, c)
        /\ req' = [req EXCEPT ![r] = [form |-> [phone |-> None, email |-> e, opt |-> FALSE],
                                      contact |-> c]]
        /\ contested' = contested \cup {f \in {e} : Linking(f)}
  BY DEF LinkCheck
<1>2. /\ pc[r] = "idle" /\ pc' = [pc EXCEPT ![r] = "link"]
      /\ UNCHANGED <<contacts, primary_phone, primary_email, phone_otp, password, secret,
                     signed_in, filed>>
  BY DEF LinkCheck, columns, identities
<1>3. /\ req'[r] \in Request /\ req'[r].form.email = e /\ req'[r].contact = c
      /\ c \in contacts /\ req' \in [Requests -> Request]
  BY <1>1 DEF PersonInv, TypeInv, Request, Form
<1>4. /\ pc' \in [Requests -> Pcs] /\ pc'[r] = "link"
      /\ \A q \in Requests : q # r => req'[q] = req[q] /\ pc'[q] = pc[q]
  BY <1>1, <1>2 DEF PersonInv, TypeInv, Pcs
<1>5. TypeInv' /\ OnlyRowsHaveColumns' /\ ColumnsKept
  <2>1. contested' \subseteq Emails
    BY <1>1 DEF PersonInv, TypeInv
  <2>2. QED
    BY <1>2, <1>3, <1>4, <2>1 DEF PersonInv, TypeInv, OnlyRowsHaveColumns, ColumnsKept
<1>6. FormsInOrder' /\ FiledAnswers' /\ IdentityIsItsContact'
  BY <1>2, <1>3, <1>4, <1>5, FormsKept
<1>7. PasswordIsItsOwners'
  BY <1>1, <1>2 DEF PersonInv, PasswordIsItsOwners
<1>8. LinksAlone'
  <2>1. \A q \in Requests : pc[q] = "link" /\ req[q].form.email = e => e \in contested'
    BY <1>1 DEF Linking
  <2>2. ASSUME NEW q \in Requests, pc'[q] = "link", req'[q].form.email \notin contested'
        PROVE  /\ password[req'[q].form.email] \in {None, req'[q].contact}
               /\ \A o \in Requests :
                    pc'[o] = "link" /\ req'[o].form.email = req'[q].form.email => o = q
    <3>1. CASE q = r
      <4>1. password[e] \in {None, c}
        BY <1>1 DEF NotTaken
      <4>2. e \notin contested'
        BY <1>3, <2>2, <3>1
      <4>3. ASSUME NEW o \in Requests, pc'[o] = "link", req'[o].form.email = e, o # r
            PROVE  FALSE
        BY <1>4, <2>1, <4>2, <4>3
      <4>4. QED
        BY <1>3, <3>1, <4>1, <4>3
    <3>2. CASE q # r
      <4>1. pc[q] = "link" /\ req'[q] = req[q] /\ req[q].form.email \notin contested
        BY <1>1, <1>4, <2>2, <3>2
      <4>2. /\ password[req[q].form.email] \in {None, req[q].contact}
            /\ \A o \in Requests :
                 pc[o] = "link" /\ req[o].form.email = req[q].form.email => o = q
        BY <4>1 DEF PersonInv, LinksAlone, NotTaken
      <4>3. req[q].form.email # e
        BY <2>1, <2>2, <4>1
      <4>4. QED
        BY <1>3, <1>4, <4>1, <4>2, <4>3
    <3>3. QED
      BY <3>1, <3>2
  <2>3. QED
    BY <1>2, <2>2 DEF LinksAlone, NotTaken
<1>9. QED
  BY <1>5, <1>6, <1>7, <1>8 DEF PersonInv

(* Whoever links an address alone finds it as it was, and gets both halves. *)
LEMMA LinkApplyPerson ==
    ASSUME PersonInv, NEW r \in Requests, LinkApply(r)
    PROVE  PersonInv'
<1> DEFINE c == req[r].contact
           e == req[r].form.email
<1>1. /\ pc[r] = "link" /\ Done(r)
      /\ UNCHANGED <<contacts, phone_otp, signed_in, filed, contested>>
  BY DEF LinkApply
<1>2. \/ UNCHANGED <<columns, password, secret>>
      \/ /\ password' = [password EXCEPT ![e] = Coalesce(password[e], c)]
         /\ secret' = [secret EXCEPT ![e] = c]
         /\ Backfill(c, req[r].form)
  BY DEF LinkApply
<1>3. req[r].form \in Form /\ e \in Emails /\ c \in Contacts
  BY <1>1 DEF PersonInv, TypeInv, FormsInOrder, Request
<1>4. c \in contacts
  BY <1>1 DEF PersonInv, FormsInOrder
<1>5. CASE UNCHANGED <<columns, password, secret>>
  BY <1>1, <1>5, GivesUp DEF identities
<1>6. CASE /\ password' = [password EXCEPT ![e] = Coalesce(password[e], c)]
           /\ secret' = [secret EXCEPT ![e] = c]
           /\ Backfill(c, req[r].form)
  <2>1. /\ primary_phone' \in [Contacts -> Phones \cup {None}]
        /\ primary_email' \in [Contacts -> Emails \cup {None}]
        /\ ColumnsKept
        /\ \A d \in Contacts : d # c => primary_phone'[d] = primary_phone[d]
                                        /\ primary_email'[d] = primary_email[d]
    BY <1>3, <1>6, BackfillKeeps
  <2>2. /\ pc' = [pc EXCEPT ![r] = "idle"] /\ pc' \in [Requests -> Pcs]
        /\ req' = [req EXCEPT ![r] = NoRequest] /\ req' \in [Requests -> Request]
    BY <1>1, NoRequestType DEF PersonInv, TypeInv, Done, Pcs
  <2>3. /\ \A q \in Requests : q # r => req'[q] = req[q] /\ pc'[q] = pc[q]
        /\ pc'[r] = "idle"
    BY <2>2 DEF PersonInv, TypeInv
  <2>4. Coalesce(password[e], c) \in Contacts \cup {None}
    BY <1>3 DEF PersonInv, TypeInv, Coalesce
  <2>5. TypeInv'
    BY <1>1, <1>3, <1>6, <2>1, <2>2, <2>4 DEF PersonInv, TypeInv
  <2>6. OnlyRowsHaveColumns'
    BY <1>1, <1>3, <1>4, <2>1 DEF PersonInv, OnlyRowsHaveColumns
  <2>7. FormsInOrder' /\ FiledAnswers' /\ IdentityIsItsContact'
    BY <1>1, <2>1, <2>3, FormsKept
  <2>8. e \notin contested => password[e] \in {None, c}
    BY <1>1 DEF PersonInv, LinksAlone, NotTaken
  <2>9. PasswordIsItsOwners'
    <3>1. e \notin contested => password'[e] = secret'[e]
      BY <1>3, <1>6, <2>8 DEF PersonInv, TypeInv, Coalesce
    <3>2. \A f \in Emails : f # e => password'[f] = password[f] /\ secret'[f] = secret[f]
      BY <1>6 DEF PersonInv, TypeInv
    <3>3. QED
      BY <1>1, <3>1, <3>2 DEF PersonInv, PasswordIsItsOwners
  <2>10. LinksAlone'
    <3>1. ASSUME NEW q \in Requests, pc'[q] = "link", req'[q].form.email \notin contested'
          PROVE  /\ password'[req'[q].form.email] \in {None, req'[q].contact}
                 /\ \A o \in Requests :
                      pc'[o] = "link" /\ req'[o].form.email = req'[q].form.email => o = q
      <4>1. q # r /\ pc[q] = "link" /\ req'[q] = req[q] /\ req[q].form.email \notin contested
        BY <1>1, <2>3, <3>1
      <4>2. /\ password[req[q].form.email] \in {None, req[q].contact}
            /\ \A o \in Requests :
                 pc[o] = "link" /\ req[o].form.email = req[q].form.email => o = q
        BY <4>1 DEF PersonInv, LinksAlone, NotTaken
      <4>3. req[q].form.email # e /\ req[q].form.email \in Emails
        BY <1>1, <4>1, <4>2 DEF PersonInv, FormsInOrder
      <4>4. password'[req[q].form.email] = password[req[q].form.email]
        BY <1>6, <4>3 DEF PersonInv, TypeInv
      <4>5. \A o \in Requests : pc'[o] = "link" => pc[o] = "link" /\ req'[o] = req[o]
        BY <2>3
      <4>6. QED
        BY <4>1, <4>2, <4>4, <4>5
    <3>2. QED
      BY <3>1 DEF LinksAlone, NotTaken
  <2>11. QED
    BY <2>5, <2>6, <2>7, <2>9, <2>10 DEF PersonInv
<1>7. QED
  BY <1>2, <1>5, <1>6

-----------------------------------------------------------------------------
(* Every step keeps the invariant.                                          *)
LEMMA PersonStep == PersonInv /\ [Next]_vars => PersonInv'
<1> SUFFICES ASSUME PersonInv, [Next]_vars
             PROVE  PersonInv'
  OBVIOUS
<1>1. CASE UNCHANGED vars
  <2>1. UNCHANGED <<contacts, primary_phone, primary_email, phone_otp, password, secret,
                    signed_in, pc, req, filed, contested>>
    BY <1>1 DEF vars, columns, identities
  <2>2. QED
    BY <2>1 DEF PersonInv, TypeInv, OnlyRowsHaveColumns, FormsInOrder, FiledAnswers,
                Answers, LinksAlone, NotTaken, IdentityIsItsContact, PasswordIsItsOwners
<1>2. ASSUME NEW r \in Requests, Crash(r)
      PROVE  PersonInv'
  BY <1>2, GivesUp DEF Crash
<1>3. CASE Next
  BY <1>2, <1>3, LeadArrivesPerson, FindByPhonePerson, FindByEmailPerson, InsertContactPerson,
     FileLeadPerson, SignInPerson, SignUpPerson, LinkCheckPerson, LinkApplyPerson
  DEF Next
<1>4. QED
  BY <1>1, <1>3

(* In every state contacts, identities and leads belong together.           *)
THEOREM PersonInvariant == Spec => []PersonInv
  BY PersonInit, PersonStep, PTL DEF Spec

(* Signing in with a phone opens the account of the contact that has that   *)
(* phone: no form, sign-up or link, in whatever order, moves a phone from   *)
(* under its identity.                                                      *)
THEOREM PhoneOpensItsContact == Spec => []IdentityIsItsContact
<1>1. PersonInv => IdentityIsItsContact
  BY DEF PersonInv
<1>2. QED
  BY <1>1, PersonInvariant, PTL

(* Every stored lead hangs from a contact with the phone or the email that  *)
(* was typed, whatever was written between the look and the insert.         *)
THEOREM LeadsHangFromTheirPerson == Spec => []LeadsReachTheirPerson
<1>1. PersonInv => LeadsReachTheirPerson
  BY DEF PersonInv, FiledAnswers, Answers, AnswersIn, LeadsReachTheirPerson
<1>2. QED
  BY <1>1, PersonInvariant, PTL

(* A password opens the account of whoever chose it, for every address that *)
(* two contacts were never linking at once.                                 *)
THEOREM PasswordsOpenTheirOwners == Spec => []PasswordIsItsOwners
<1>1. PersonInv => PasswordIsItsOwners
  BY DEF PersonInv
<1>2. QED
  BY <1>1, PersonInvariant, PTL
=============================================================================
