----------------------------- MODULE AccountForms -----------------------------
(***************************************************************************)
(* The forms without a session, on the phone and on the web: registration, *)
(* the forgotten password and sign-in, against the one-time codes and the  *)
(* accounts of the server.  A code is stored, mailed, typed in and then    *)
(* creates an account or is exchanged for a token that sets one password.  *)
(* The server reads a challenge first and uses it later, in a transaction  *)
(* that does not read it again; two devices of one user use the same       *)
(* addresses, answers are lost while the server goes on, mails fail and    *)
(* codes expire.  Phone, gender and birth date are told apart in nothing   *)
(* here and left out; codes and tokens are numbers never issued twice.     *)
(***************************************************************************)
EXTENDS Integers, FiniteSets

CONSTANTS Device, Email, Name, Password,
          None,
          MaxAttempts,  \* otpMaxAttempts
          Lifetime,     \* otpTTL
          Cooldown,     \* otpResendCooldown
          MaxMinute,    \* bound: the clock
          MaxIssued,    \* bound: codes and tokens
          MaxInput,     \* bound: times the user fills in a step
          MaxLosses     \* bound: lost answers, refusals of the limiters, failed mails

VARIABLES
  role,      \* client and flow of each device, never changes
  scene,     \* addresses and bounds of this behaviour, never changes
  minute,    \* the clock
  accounts,  \* app_user
  rows,      \* otp_challenge: the row that is not consumed, by address and purpose
  issued,    \* codes and tokens so far
  mail,      \* what the user received
  forms,     \* formData, step and resetToken of each device
  calls,     \* the call of a device, awaited (TRUE) or given up (FALSE)
  inputs, losses,
  spent,     \* history: codes and tokens that have done their work
  grants     \* history: the codes tokens were given for

server == <<accounts, rows, issued, mail, spent, grants>>
bounds == <<inputs, losses>>
setting == <<role, scene>>
vars == <<setting, minute, server, forms, calls, bounds>>

Flow == {"register", "reset", "signin"}
Purpose == {"register", "reset", "grant"}
Slot == Device \X BOOLEAN

FirstStep == [register |-> "details", reset |-> "email", signin |-> "details"]

(* The form of a screen that was just opened; None is an empty field.      *)
EmptyForm(flow) ==
  [step |-> FirstStep[flow], email |-> None, name |-> None, password |-> None, code |-> None,
   token |-> None]

(* A bound: the devices run one client and two flows of three, and only    *)
(* beside a sign-in may the user mistype the address and codes expire.     *)
OneEmail == {CHOOSE e \in Email : TRUE}
Scene(flows, addresses, fills, issues, until) ==
  [flows |-> flows, addresses |-> addresses, fills |-> fills, issues |-> issues, until |-> until]
Scenes ==
  {Scene({"register"}, OneEmail, MaxInput, MaxIssued - 1, MaxMinute - 1),
   Scene({"register", "reset"}, OneEmail, MaxInput - 1, MaxIssued, MaxMinute - 1),
   Scene({"reset"}, OneEmail, MaxInput, MaxIssued, MaxMinute - 1),
   Scene({"register", "signin"}, Email, MaxInput - 1, MaxIssued - 1, MaxMinute),
   Scene({"reset", "signin"}, Email, MaxInput, MaxIssued, MaxMinute)}

(* An account from before; its password was not set with a code.           *)
OldAccounts ==
  [email : OneEmail, name : Name, password : Password, proof : {None}, by : {None}]

Init ==
  /\ scene \in Scenes
  /\ \E client \in {"web", "mobile"}, flow \in [Device -> scene.flows] :
       /\ {flow[d] : d \in Device} = scene.flows
       /\ role = [d \in Device |-> [client |-> client, flow |-> flow[d]]]
  /\ minute = 0
  /\ accounts \in {{}} \union {{a} : a \in OldAccounts}
  /\ rows = [k \in Email \X Purpose |-> None]
  /\ issued = 0 /\ mail = {}
  /\ forms = [d \in Device |-> EmptyForm(role[d].flow)]
  /\ calls = [s \in Slot |-> None]
  /\ inputs = 0 /\ losses = 0 /\ spent = {} /\ grants = {}

-----------------------------------------------------------------------------
(* The forms.  A submitted form waits for its answer, and every field and  *)
(* button of it is disabled meanwhile.                                     *)

Loading(d) == calls[<<d, TRUE>>] # None
Enabled(d) == forms[d].step # "done" /\ ~Loading(d)

(* What the user can type for a code: one received by mail, or a wrong one. *)
Codes == {0} \union {m.code : m \in mail}

(* What the fields of a step may hold next.                                *)
Address(f) == {[f EXCEPT !.email = e] : e \in scene.addresses}
CodeTyped(f) == {[f EXCEPT !.code = c] : c \in Codes}
NewPassword(f) == {[f EXCEPT !.password = p] : p \in Password}
Credentials(f) == UNION {NewPassword([f EXCEPT !.name = n]) : n \in Name}
Details(f) == UNION {Credentials(g) : g \in Address(f)}

Filled(f, flow) ==
  CASE f.step = "details" /\ flow = "register" -> Details(f)
    [] f.step = "details" /\ flow = "signin" -> Credentials(f)
    [] f.step = "email" -> Address(f)
    [] f.step = "code" -> CodeTyped(f)
    [] f.step = "password" -> NewPassword(f)

(* The fields of a step are filled in together.                            *)
Fill(d) ==
  /\ Enabled(d) /\ inputs < scene.fills
  /\ \E f \in Filled(forms[d], role[d].flow) \ {forms[d]} : forms' = [forms EXCEPT ![d] = f]
  /\ inputs' = inputs + 1
  /\ UNCHANGED <<setting, minute, server, calls, losses>>

(* The validators of the clients: no field of the step is empty.           *)
Valid(f, flow) ==
  CASE f.step = "details" ->
         None \notin {f.name, f.password} /\ (flow = "register" => f.email # None)
    [] f.step = "email" -> f.email # None
    [] f.step = "code" -> f.code # None
    [] f.step = "password" -> f.password # None

(* What the server does first for a form at this step.                     *)
FirstStage(step, flow) ==
  CASE step = "details" -> IF flow = "register" THEN "availability" ELSE "signin"
    [] step = "email" -> "request"
    [] step = "code" -> "look"
    [] step = "password" -> "redeem"

(* What a form submits to be let on: its code, in the end its token.        *)
Key(f) == IF f.step = "password" THEN f.token ELSE f.code

Submit(d) ==
  /\ Enabled(d) /\ Valid(forms[d], role[d].flow)
  /\ calls' = [calls EXCEPT ![<<d, TRUE>>] =
       [form |-> forms[d], stage |-> FirstStage(forms[d].step, role[d].flow), at |-> 0,
        row |-> None, code |-> None, late |-> Key(forms[d]) \in spent]]
  /\ UNCHANGED <<setting, minute, server, forms, bounds>>

(* goBack; the web has none in the flow of the forgotten password, where   *)
(* the app drops the code, the passwords and the token.                    *)
MobileBack(f, flow) ==
  CASE flow = "register" -> [f EXCEPT !.step = "details"]
    [] flow = "reset" /\ f.step = "code" -> [f EXCEPT !.step = "email", !.code = None]
    [] OTHER -> [f EXCEPT !.step = "code", !.code = None, !.password = None, !.token = None]
WebBack(f) == [f EXCEPT !.step = "details"]

Back(d) ==
  /\ Enabled(d) /\ forms[d].step \in {"code", "password"}
  /\ \/ role[d].client = "mobile"
        /\ forms' = [forms EXCEPT ![d] = MobileBack(@, role[d].flow)]
     \/ role[d].client = "web" /\ role[d].flow = "register"
        /\ forms' = [forms EXCEPT ![d] = WebBack(@)]
  /\ UNCHANGED <<setting, minute, server, calls, bounds>>

(* The way to another screen and back, by a link or the way back of the    *)
(* browser or phone: a new form, which hears of no call of the old one.    *)
Leave(d) ==
  /\ forms[d].step # "done" /\ inputs < scene.fills
  /\ forms' = [forms EXCEPT ![d] = EmptyForm(role[d].flow)]
  /\ forms' # forms
  /\ IF Loading(d)
     THEN /\ calls[<<d, FALSE>>] = None
          /\ calls' = [calls EXCEPT ![<<d, TRUE>>] = None, ![<<d, FALSE>>] = calls[<<d, TRUE>>]]
     ELSE UNCHANGED calls
  /\ inputs' = inputs + 1
  /\ UNCHANGED <<setting, minute, server, losses>>

-----------------------------------------------------------------------------
(* Answers.                                                                *)

(* A call goes on, or it ends and the form that still waits becomes `new'. *)
Proceed(s, call) == calls' = [calls EXCEPT ![s] = call] /\ UNCHANGED forms

Answer(s, new) ==
  /\ calls' = [calls EXCEPT ![s] = None]
  /\ forms' = IF s[2] THEN [forms EXCEPT ![s[1]] = new] ELSE forms

(* What a refused code leaves in its field: the web keeps it on the form   *)
(* of the forgotten password.                                              *)
WebCodeRefused(f, flow) == IF flow = "reset" THEN f ELSE [f EXCEPT !.code = None]
MobileCodeRefused(f) == [f EXCEPT !.code = None]

CodeRefused(s) ==
  Answer(s, LET f == calls[s].form  r == role[s[1]] IN
            IF r.client = "web" THEN WebCodeRefused(f, r.flow) ELSE MobileCodeRefused(f))

Unchanged(s) == Answer(s, calls[s].form)
NextStep(s, step) == Answer(s, [calls[s].form EXCEPT !.step = step])

Lose == losses < MaxLosses /\ losses' = losses + 1

(* The connection breaks.  The server never heard of the call, or goes on  *)
(* with it alone; the second request of registration is not made then.     *)
AnswerLost(d) ==
  /\ Loading(d) /\ Lose
  /\ LET call == calls[<<d, TRUE>>] IN
     \/ calls' = [calls EXCEPT ![<<d, TRUE>>] = None]
     \/ /\ calls[<<d, FALSE>>] = None /\ call.stage # "availability"
        /\ calls' = [calls EXCEPT ![<<d, TRUE>>] = None, ![<<d, FALSE>>] = call]
  /\ UNCHANGED <<setting, minute, server, forms, inputs>>

-----------------------------------------------------------------------------
(* The server, one action per read or transaction of a call.               *)

At(s, stage) == calls[s] # None /\ calls[s].stage = stage
Quiet == UNCHANGED <<setting, minute, inputs>>

Taken(e, n) == \E a \in accounts : a.email = e \/ a.name = n

(* CheckAvailability, and the client's request for a code after it.        *)
CheckAvailability(s) ==
  /\ At(s, "availability")
  /\ LET call == calls[s] IN
     IF Taken(call.form.email, call.form.name) THEN Unchanged(s)
     ELSE Proceed(s, [call EXCEPT !.stage = "request"])
  /\ UNCHANGED <<server, losses>> /\ Quiet

(* Registration says nothing of an address in use, the forgotten password  *)
(* nothing of one that is not, nor of its limits.                          *)
Silent(s) ==
  LET flow == role[s[1]].flow  known == \E a \in accounts : a.email = calls[s].form.email IN
  known <=> flow = "register"

Cooling(s) ==
  LET row == rows[<<calls[s].form.email, role[s[1]].flow>>] IN
  row # None /\ minute < row.created + Cooldown

Limited(s) == IF role[s[1]].flow = "register" THEN Unchanged(s) ELSE NextStep(s, "code")

(* RequestRegistrationOTP, RequestPasswordResetOTP and the first half of   *)
(* sendEmailOTPChallenge; the limiter may refuse first.                    *)
Request(s) ==
  /\ At(s, "request")
  /\ \/ Limited(s) /\ Lose
     \/ Silent(s) /\ NextStep(s, "code") /\ UNCHANGED losses
     \/ ~Silent(s) /\ Cooling(s) /\ Limited(s) /\ UNCHANGED losses
     \/ ~Silent(s) /\ ~Cooling(s) /\ Proceed(s, [calls[s] EXCEPT !.stage = "store", !.at = minute])
        /\ UNCHANGED losses
  /\ UNCHANGED server /\ Quiet

(* UpsertOTPChallenge: a row that is not consumed keeps its identity and   *)
(* the time it was created.                                                *)
Upserted(key, code, at) ==
  IF rows[key] = None
  THEN [id |-> code, code |-> code, created |-> minute, expires |-> at + Lifetime, attempts |-> 0]
  ELSE [rows[key] EXCEPT !.code = code, !.expires = at + Lifetime, !.attempts = 0]

Store(s) ==
  /\ At(s, "store") /\ issued < scene.issues
  /\ issued' = issued + 1
  /\ LET key == <<calls[s].form.email, role[s[1]].flow>> IN
     rows' = [rows EXCEPT ![key] = Upserted(key, issued + 1, calls[s].at)]
  /\ Proceed(s, [calls[s] EXCEPT !.stage = "mail", !.code = issued + 1])
  /\ UNCHANGED <<accounts, mail, spent, grants, losses>> /\ Quiet

(* The mail is sent after the code is stored, and its failure reported.    *)
Mail(s) ==
  /\ At(s, "mail")
  /\ \/ /\ mail' = mail \union {[email |-> calls[s].form.email, purpose |-> role[s[1]].flow,
                                 code |-> calls[s].code]}
        /\ NextStep(s, "code")
        /\ UNCHANGED losses
     \/ Unchanged(s) /\ Lose /\ UNCHANGED mail
  /\ UNCHANGED <<accounts, rows, issued, spent, grants>> /\ Quiet

(* verifyOTPChallenge: the row is read and compared.                       *)
Open(row) == row # None /\ minute <= row.expires

Look(s) ==
  /\ At(s, "look")
  /\ LET call == calls[s]  row == rows[<<call.form.email, role[s[1]].flow>>] IN
     IF ~Open(row) \/ row.attempts >= MaxAttempts THEN CodeRefused(s)
     ELSE Proceed(s, [call EXCEPT !.row = row, !.at = minute,
            !.stage = IF row.code # call.form.code THEN "count" ELSE role[s[1]].flow])
  /\ UNCHANGED <<server, losses>> /\ Quiet

(* IncrementOTPChallengeAttempts of the row that was read.                 *)
Count(s) ==
  /\ At(s, "count")
  /\ LET key == <<calls[s].form.email, role[s[1]].flow>> IN
     rows' = IF rows[key] # None /\ rows[key].id = calls[s].row.id
             THEN [rows EXCEPT ![key].attempts = @ + 1] ELSE rows
  /\ CodeRefused(s)
  /\ UNCHANGED <<accounts, issued, mail, spent, grants, losses>> /\ Quiet

(* ConsumeOTPChallenge, by the identity of the row that was read.          *)
Consumed(key, row) ==
  IF rows[key] # None /\ rows[key].id = row.id THEN [rows EXCEPT ![key] = None] ELSE rows

(* VerifyRegistrationOTP: the address and the name of an account are       *)
(* unique, and a clash rolls everything back.                              *)
Register(s) ==
  /\ At(s, "register")
  /\ LET f == calls[s].form IN
     IF Taken(f.email, f.name) THEN Unchanged(s) /\ UNCHANGED <<accounts, rows, spent>>
     ELSE /\ accounts' = accounts \union
               {[email |-> f.email, name |-> f.name, password |-> f.password, proof |-> f.code,
                 by |-> s[1]]}
          /\ rows' = Consumed(<<f.email, "register">>, calls[s].row)
          /\ spent' = spent \union {f.code}
          /\ NextStep(s, "done")
  /\ UNCHANGED <<issued, mail, grants, losses>> /\ Quiet

(* VerifyPasswordResetOTP: the code is exchanged for a token.              *)
Exchange(s) ==
  /\ At(s, "reset") /\ issued < scene.issues
  /\ issued' = issued + 1
  /\ LET f == calls[s].form  key == <<f.email, "grant">> IN
     /\ rows' = [Consumed(<<f.email, "reset">>, calls[s].row)
                   EXCEPT ![key] = Upserted(key, issued + 1, calls[s].at)]
     /\ spent' = spent \union {f.code}
     /\ grants' = grants \union {[token |-> issued + 1, email |-> f.email, code |-> f.code]}
     /\ Answer(s, [f EXCEPT !.step = "password", !.token = issued + 1])
  /\ UNCHANGED <<accounts, mail, losses>> /\ Quiet

(* ResetPassword: first the token is compared, then the password is set.   *)
Redeem(s) ==
  /\ At(s, "redeem")
  /\ LET call == calls[s]  row == rows[<<call.form.email, "grant">>] IN
     IF ~Open(row) \/ row.code # call.form.token THEN Unchanged(s)
     ELSE Proceed(s, [call EXCEPT !.row = row, !.stage = "change"])
  /\ UNCHANGED <<server, losses>> /\ Quiet

(* The app drops the new password once it is set.                          *)
Changed(s, f) ==
  [f EXCEPT !.step = "done", !.password = IF role[s[1]].client = "mobile" THEN None ELSE @]

Change(s) ==
  /\ At(s, "change")
  /\ LET f == calls[s].form IN
     /\ accounts' = {IF a.email = f.email
                     THEN [a EXCEPT !.password = f.password, !.proof = f.token] ELSE a :
                       a \in accounts}
     /\ rows' = Consumed(<<f.email, "grant">>, calls[s].row)
     /\ spent' = spent \union {f.token}
     /\ Answer(s, Changed(s, f))
  /\ UNCHANGED <<issued, mail, grants, losses>> /\ Quiet

(* Login, which its limiter may refuse like a wrong password.              *)
SignIn(s) ==
  /\ At(s, "signin")
  /\ \/ /\ \E a \in accounts : a.name = calls[s].form.name /\ a.password = calls[s].form.password
        /\ NextStep(s, "done")
        /\ UNCHANGED losses
     \/ /\ \A a \in accounts :
             a.name = calls[s].form.name => a.password # calls[s].form.password
        /\ Unchanged(s)
        /\ UNCHANGED losses
     \/ Unchanged(s) /\ Lose
  /\ UNCHANGED server /\ Quiet

Tick ==
  /\ minute < scene.until
  /\ minute' = minute + 1
  /\ UNCHANGED <<setting, server, forms, calls, bounds>>

Serve(s) ==
  \/ CheckAvailability(s) \/ Request(s) \/ Store(s) \/ Mail(s) \/ Look(s) \/ Count(s)
  \/ Register(s) \/ Exchange(s) \/ Redeem(s) \/ Change(s) \/ SignIn(s)

Next ==
  \/ \E d \in Device : Fill(d) \/ Submit(d) \/ Back(d) \/ Leave(d) \/ AnswerLost(d)
  \/ \E s \in Slot : Serve(s)
  \/ Tick

Spec == Init /\ [][Next]_vars

-----------------------------------------------------------------------------
(* Properties.                                                             *)

Minutes == 0 .. MaxMinute + Lifetime
Serial == 1 .. issued
Form ==
  [step : {"details", "email", "code", "password", "done"}, email : Email \union {None},
   name : Name \union {None}, password : Password \union {None},
   code : {None, 0} \union Serial, token : {None} \union Serial]
Row == [id : Serial, code : Serial, created : Minutes, expires : Minutes, attempts : Nat]
Stage ==
  {"availability", "request", "store", "mail", "look", "count", "register", "reset", "redeem",
   "change", "signin"}
Call ==
  [form : Form, stage : Stage, at : Minutes, row : Row \union {None},
   code : Serial \union {None}, late : BOOLEAN]

(* The type invariant of the tables, the forms and their calls.            *)
TypeOK ==
  /\ minute \in 0 .. MaxMinute /\ issued \in 0 .. MaxIssued
  /\ accounts \subseteq [email : Email, name : Name, password : Password,
                         proof : Serial \union {None}, by : Device \union {None}]
  /\ rows \in [Email \X Purpose -> Row \union {None}]
  /\ mail \subseteq [email : Email, purpose : Purpose, code : Serial]
  /\ forms \in [Device -> Form]
  /\ calls \in [Slot -> Call \union {None}]
  /\ spent \subseteq Serial
  /\ grants \subseteq [token : Serial, email : Email, code : Serial]

(* While a form is submitted it shows what was sent: nothing is typed that *)
(* the answer would wipe or pass over.                                     *)
WhatIsSentIsOnTheForm ==
  \A d \in Device : Loading(d) => calls[<<d, TRUE>>].form = forms[d]

(* However many devices register, calls overlap and answers are lost, an   *)
(* address or a name has one account, and a form that reports success has  *)
(* made it, with the address and the name it shows.                        *)
OneAccountPerForm ==
  /\ \A a, b \in accounts : a.email = b.email \/ a.name = b.name => a = b
  /\ \A d \in Device : role[d].flow = "register" /\ forms[d].step = "done" =>
       \E a \in accounts : a.email = forms[d].email /\ a.name = forms[d].name
                           /\ a.by = d

(* Every password was set by somebody who received mail at the address of  *)
(* the account: the code it was created with, or the code the token of its *)
(* last change was given for.                                              *)
AddressIsVerified ==
  \A a \in accounts :
    \/ a.proof = None
    \/ [email |-> a.email, purpose |-> "register", code |-> a.proof] \in mail
    \/ \E g \in grants :
         /\ g.token = a.proof /\ g.email = a.email
         /\ [email |-> a.email, purpose |-> "reset", code |-> g.code] \in mail

(* A step that gives an account, a password or a token takes no code and no *)
(* token that had done its work before the form was submitted.             *)
Harmless ==
  \A s \in Slot :
    calls[s] # None /\ calls'[s] = None /\ <<accounts', grants'>> # <<accounts, grants>>
      => ~calls[s].late

(* The retry after a lost answer does nothing the first call has done: it  *)
(* is refused, whatever the server still works on.                         *)
RetryIsHarmless == [][Harmless]_vars
=============================================================================
