--------------------------- MODULE ContactIdentity ---------------------------
(***************************************************************************)
(* The contact and contact_identity tables, and the three handlers that    *)
(* write them: lead intake (an unverified phone and email typed into a     *)
(* form), sign-in by phone code, and linking a password.  One transaction  *)
(* each, READ COMMITTED, so what a SELECT saw may have changed by the time *)
(* of the write; the unique indexes are checked at the write.              *)
(***************************************************************************)
EXTENDS Naturals, FiniteSets

CONSTANTS
    Phones, Emails,
    Contacts,       \* rows that can be inserted
    Requests,       \* requests the API can be serving at the same time
    MaxEnquiries,   \* bound on the leads stored
    None            \* SQL NULL

ASSUME ContactAssumption == /\ None \notin Phones \cup Emails \cup Contacts
                            /\ MaxEnquiries \in Nat

VARIABLES
    contacts,                       \* contact rows
    primary_phone, primary_email, whatsapp_opt_in,      \* their columns
    phone_otp,          \* contact_identity: phone -> contact, provider PHONE_OTP
    password,           \* contact_identity: email -> contact, provider PASSWORD
    secret,             \* secret_hash: email -> the contact who chose it
    signed_in,          \* contacts holding a session
    pc, req,            \* the requests being served
    filed,              \* leads stored, with what was typed and the contact found
    contested           \* history: emails two contacts were linking at once

columns == <<primary_phone, primary_email, whatsapp_opt_in>>
identities == <<phone_otp, password, secret>>
vars == <<contacts, columns, identities, signed_in, pc, req, filed, contested>>

Form == [phone : Phones \cup {None}, email : Emails \cup {None}, opt : BOOLEAN]

Request == [form : Form, contact : Contacts \cup {None}]

NoRequest == [form |-> [phone |-> None, email |-> None, opt |-> FALSE],
              contact |-> None]

HasPhone(p) == {c \in contacts : primary_phone[c] = p /\ p # None}
HasEmail(e) == {c \in contacts : primary_email[c] = e /\ e # None}

Done(r) ==
    /\ pc'  = [pc EXCEPT ![r] = "idle"]
    /\ req' = [req EXCEPT ![r] = NoRequest]

Goto(r, label) ==
    /\ pc' = [pc EXCEPT ![r] = label]
    /\ UNCHANGED req

Init ==
    /\ contacts = {}
    /\ primary_phone = [c \in Contacts |-> None]
    /\ primary_email = [c \in Contacts |-> None]
    /\ whatsapp_opt_in = [c \in Contacts |-> FALSE]
    /\ phone_otp = [p \in Phones |-> None]
    /\ password  = [e \in Emails |-> None]
    /\ secret    = [e \in Emails |-> None]
    /\ signed_in = {}
    /\ pc  = [r \in Requests |-> "idle"]
    /\ req = [r \in Requests |-> NoRequest]
    /\ filed = {} /\ contested = {}

-----------------------------------------------------------------------------
(* Lead intake: findOrCreateContact, then the lead, in two transactions.   *)

\* Mutant: the form wins.
Overwrite(column, value) == IF value = None THEN column ELSE value

Coalesce(column, value) == IF column = None THEN value ELSE column

\* UPDATE contact with what the form adds to it.
Backfill(c, form) ==
    /\ primary_phone' = [primary_phone EXCEPT ![c] = Coalesce(@, form.phone)]
    /\ primary_email' = [primary_email EXCEPT ![c] = Coalesce(@, form.email)]
    /\ whatsapp_opt_in' = [whatsapp_opt_in EXCEPT ![c] = @ \/ form.opt]

\* contact_phone_uniq and contact_email_uniq refuse it: a 500, nothing is kept.
Clashes(c, form) ==
    \/ HasPhone(Coalesce(primary_phone[c], form.phone)) \ {c} # {}
    \/ HasEmail(Coalesce(primary_email[c], form.email)) \ {c} # {}

LeadArrives(r) ==
    /\ pc[r] = "idle"
    /\ Cardinality(filed) < MaxEnquiries
    /\ \E p \in Phones \cup {None}, e \in Emails, opt \in BOOLEAN :
        req' = [req EXCEPT ![r].form = [phone |-> p, email |-> e, opt |-> opt]]
    /\ pc' = [pc EXCEPT ![r] = "by phone"]
    /\ UNCHANGED <<contacts, columns, identities, signed_in, filed, contested>>

\* A contact found by phone gains the email, found by email gains the phone.
MatchOn(r, c, form) ==
    IF Clashes(c, form)
    THEN /\ Done(r)
         /\ UNCHANGED columns
    ELSE /\ Backfill(c, form)
         /\ pc' = [pc EXCEPT ![r] = "file"]
         /\ req' = [req EXCEPT ![r].contact = c]

FindByPhone(r) ==
    /\ pc[r] = "by phone"
    /\ LET found == HasPhone(req[r].form.phone)
       IN  \/ \E c \in found : MatchOn(r, c, req[r].form)
           \/ found = {} /\ Goto(r, "by email") /\ UNCHANGED columns
    /\ UNCHANGED <<contacts, identities, signed_in, filed, contested>>

FindByEmail(r) ==
    /\ pc[r] = "by email"
    /\ LET found == HasEmail(req[r].form.email)
       IN  \/ \E c \in found : MatchOn(r, c, req[r].form)
           \/ found = {} /\ Goto(r, "insert") /\ UNCHANGED columns
    /\ UNCHANGED <<contacts, identities, signed_in, filed, contested>>

InsertContact(r) ==
    /\ pc[r] = "insert"
    /\ \E c \in Contacts \ contacts :
        LET form == req[r].form
        IN  /\ MatchOn(r, c, form)
            /\ contacts' = IF Clashes(c, form) THEN contacts ELSE contacts \cup {c}
    /\ UNCHANGED <<identities, signed_in, filed, contested>>

FileLead(r) ==
    /\ pc[r] = "file"
    /\ filed' = filed \cup {[form |-> req[r].form, contact |-> req[r].contact]}
    /\ Done(r)
    /\ UNCHANGED <<contacts, columns, identities, signed_in, contested>>

-----------------------------------------------------------------------------
(* verifyLoginOtp, after the code was found right.                         *)

SignIn(r) ==
    /\ pc[r] = "idle"
    /\ \E p \in Phones, opt \in BOOLEAN :
        LET form == [phone |-> p, email |-> None, opt |-> opt]
            c == phone_otp[p]
        IN  \/ /\ c # None
               /\ whatsapp_opt_in' = [whatsapp_opt_in EXCEPT ![c] = @ \/ opt]
               /\ signed_in' = signed_in \cup {c}
               /\ UNCHANGED <<pc, req>>
            \/ /\ c = None
               /\ req' = [req EXCEPT ![r].form = form]
               /\ pc' = [pc EXCEPT ![r] = "sign up"]
               /\ UNCHANGED <<whatsapp_opt_in, signed_in>>
    /\ UNCHANGED <<contacts, primary_phone, primary_email, identities, filed, contested>>

\* First use: a contact and its identity, or a unique violation.
SignUp(r) ==
    /\ pc[r] = "sign up"
    /\ \E c \in Contacts \ contacts :
        LET form == req[r].form
            free == HasPhone(form.phone) = {} /\ phone_otp[form.phone] = None
        IN  \/ /\ free
               /\ contacts' = contacts \cup {c}
               /\ Backfill(c, form)
               /\ phone_otp' = [phone_otp EXCEPT ![form.phone] = c]
               /\ signed_in' = signed_in \cup {c}
            \/ /\ ~free
               /\ UNCHANGED <<contacts, columns, phone_otp, signed_in>>
    /\ Done(r)
    /\ UNCHANGED <<password, secret, filed, contested>>

-----------------------------------------------------------------------------
(* linkEmailPassword, for a contact who is signed in.                      *)

\* Mutant: an address that is already linked is not refused.
Free(e, c) == e \in Emails /\ c \in Contacts

Linking(e) == \E r \in Requests : pc[r] = "link" /\ req[r].form.email = e

NotTaken(e, c) == password[e] \in {None, c}

LinkCheck(r) ==
    /\ pc[r] = "idle"
    /\ \E c \in signed_in, e \in Emails :
        /\ NotTaken(e, c)
        /\ req' = [req EXCEPT ![r] = [form |-> [phone |-> None, email |-> e, opt |-> FALSE],
                                      contact |-> c]]
        /\ contested' = contested \cup {f \in {e} : Linking(f)}
    /\ pc' = [pc EXCEPT ![r] = "link"]
    /\ UNCHANGED <<contacts, columns, identities, signed_in, filed>>

\* ON CONFLICT DO UPDATE keeps the identity's contact and replaces its secret;
\* a clash on primary_email rolls everything back.
LinkApply(r) ==
    /\ pc[r] = "link"
    /\ LET c == req[r].contact
           e == req[r].form.email
       IN  IF Clashes(c, req[r].form)
           THEN UNCHANGED <<columns, password, secret>>
           ELSE /\ password' = [password EXCEPT ![e] = Coalesce(@, c)]
                /\ secret' = [secret EXCEPT ![e] = c]
                /\ Backfill(c, req[r].form)
    /\ Done(r)
    /\ UNCHANGED <<contacts, phone_otp, signed_in, filed, contested>>

Crash(r) ==
    /\ pc[r] # "idle"
    /\ Done(r)
    /\ UNCHANGED <<contacts, columns, identities, signed_in, filed, contested>>

Next == \E r \in Requests :
    \/ LeadArrives(r) \/ FindByPhone(r) \/ FindByEmail(r) \/ InsertContact(r)
    \/ FileLead(r)
    \/ SignIn(r) \/ SignUp(r)
    \/ LinkCheck(r) \/ LinkApply(r)
    \/ Crash(r)

Spec == Init /\ [][Next]_vars

-----------------------------------------------------------------------------
\* A phone signs in the contact that has it, and no later form or link, by
\* whomever, takes the phone from under its identity.
IdentityIsItsContact ==
    \A p \in Phones : phone_otp[p] # None => primary_phone[phone_otp[p]] = p

\* A stored lead hangs from a contact with the phone or the email on the form.
LeadsReachTheirPerson ==
    \A f \in filed : \/ f.form.phone # None /\ primary_phone[f.contact] = f.form.phone
                     \/ primary_email[f.contact] = f.form.email

\* A password opens the account of the contact who chose it: linking adds a
\* credential to a proven identity (contact-auth.service.ts:223-225).  It does
\* as long as no two requests were linking the address at once.
PasswordIsItsOwners ==
    \A e \in Emails \ contested : password[e] = secret[e]

\* No phone is taken by a contact with no identity to sign in with
\* (contact-auth.service.ts:86-88).
PhonesCanSignIn ==
    \A c \in contacts : primary_phone[c] # None => phone_otp[primary_phone[c]] # None
=============================================================================
