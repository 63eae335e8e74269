-------------------------------- MODULE Mailer --------------------------------
(***************************************************************************)
(* Mail with a code in it: three handlers draw a code, store its hash by   *)
(* one UPDATE and then have MailerService render a Handlebars template and *)
(* hand the mail to SendGrid.  The compiled templates are cached by path   *)
(* for the life of the process.  Every template uses the partials, which   *)
(* the constructor begins to read and nobody waits for.                    *)
(*                                                                         *)
(* One account.  A code carries the name of the request that drew it; the  *)
(* codes' later use is in PasswordReset and EmailChange.  The content of a *)
(* template is the version of its file, which a deployment may replace.    *)
(***************************************************************************)
EXTENDS Naturals

CONSTANTS
    Requests,
    None,
    MaxVersion,    \* bound: how often a template file is replaced
    MaxRestarts    \* bound: how often the process is restarted

ASSUME NoneIsNoRequest == None \notin Requests \cup Nat
ASSUME BoundsAreNat == MaxVersion \in Nat /\ MaxRestarts \in Nat

MailTemplate == {"activation", "reset-password", "confirm-new-email"}

Handlers == {"forgotPassword", "resendVerification", "requestEmailChange"}

(* The template that each handler mails.                                   *)
Template == [forgotPassword     |-> "reset-password",
             resendVerification |-> "activation",
             requestEmailChange |-> "confirm-new-email"]

(* The column of users that each handler stores the hash of the code in.   *)
TokenColumn == [forgotPassword     |-> "passwordResetToken",
                resendVerification |-> "emailVerificationToken",
                requestEmailChange |-> "emailVerificationToken"]

Columns == {TokenColumn[h] : h \in Handlers}
Version == 0..MaxVersion

VARIABLES
    partials,      \* registration of styles, header and footer
    file,          \* version of each template on disk
    templateCache, \* version compiled and cached
    stored,        \* by column, the code whose hash is in the database
    wire,          \* mails sent to SendGrid that it has not decided on
    accepted,      \* mails SendGrid has accepted
    last,          \* by column, the code in the last mail accepted
    task,          \* local state of each request's handler
    floor,         \* history: the files when the cache was last emptied
    restarts

vars == <<partials, file, templateCache, stored, wire, accepted, last, task, floor, restarts>>
disk == <<file, floor, restarts>>
provider == <<wire, accepted, last>>

Task == [pc       : {"compile", "read", "loaded", "send", "done", "refused", "crashed"},
         handler  : Handlers,
         content  : Version \cup {None},   \* what it has read, or rendered
         since    : Version,               \* history: floor when it rendered
         overtaken : BOOLEAN,              \* history: cache emptied since it read
         beside   : SUBSET Requests]       \* history: mails on their way when it stored

NotCome == [pc |-> "idle"]
Ended == {"done", "refused", "crashed"}
Goto(r, step) == task' = [task EXCEPT ![r].pc = step]

Init ==
    /\ partials = "loading" /\ restarts = 0
    /\ file = [t \in MailTemplate |-> 0] /\ floor = file
    /\ templateCache = [t \in MailTemplate |-> None]
    /\ stored = [c \in Columns |-> None] /\ last = stored
    /\ wire = {} /\ accepted = {}
    /\ task = [r \in Requests |-> NotCome]

-----------------------------------------------------------------------------
TemplateOf(r) == Template[task[r].handler]
ColumnOf(r) == TokenColumn[task[r].handler]

(* Mails that may still be accepted.                                       *)
OnTheirWay == wire \cup {r \in Requests : task[r].pc \notin {"idle"} \cup Ended}

(* The UPDATE; the mail is next.                                           *)
StoreCode(r, h) ==
    /\ task[r] = NotCome
    /\ stored' = [stored EXCEPT ![TokenColumn[h]] = r]
    /\ task' = [task EXCEPT ![r] =
                  [pc |-> "compile", handler |-> h, content |-> None, since |-> 0,
                   overtaken |-> FALSE, beside |-> OnTheirWay]]
    /\ UNCHANGED <<partials, templateCache, provider, disk>>

(* template(context) throws unless the partials are there; the mail that   *)
(* it returns is sent at once.                                             *)
Render(r, v) ==
    /\ task' = [task EXCEPT ![r].pc = IF partials = "registered" THEN "send" ELSE "refused",
                            ![r].content = v,
                            ![r].since = floor[TemplateOf(r)]]
    /\ wire' = IF partials = "registered" THEN wire \cup {r} ELSE wire

\* faulty: waits until the partials are registered
AwaitPartials(r) ==
    /\ task[r].pc = "compile" /\ partials = "registered"
    /\ LET cached == templateCache[TemplateOf(r)] IN
         IF cached = None THEN Goto(r, "read") /\ UNCHANGED wire
                          ELSE Render(r, cached)
    /\ UNCHANGED <<partials, templateCache, stored, accepted, last, disk>>

(* sendMail, compileTemplate: up to the first await.                       *)
CompileTemplate(r) ==
    /\ task[r].pc = "compile"
    /\ LET cached == templateCache[TemplateOf(r)] IN
         IF cached = None THEN Goto(r, "read") /\ UNCHANGED wire
                          ELSE Render(r, cached)
    /\ UNCHANGED <<partials, templateCache, stored, accepted, last, disk>>

ReadFile(r) ==
    /\ task[r].pc = "read"
    /\ \/ task' = [task EXCEPT ![r].pc = "loaded", ![r].content = file[TemplateOf(r)]]
       \/ Goto(r, "refused")
    /\ UNCHANGED <<partials, templateCache, stored, provider, disk>>

(* compileTemplate goes on: the template is cached before it is rendered.  *)
CacheTemplate(r) ==
    /\ task[r].pc = "loaded"
    /\ templateCache' = [templateCache EXCEPT ![TemplateOf(r)] = task[r].content]
    /\ Render(r, task[r].content)
    /\ UNCHANGED <<partials, stored, accepted, last, disk>>

(* SendGrid decides, whether or not anybody waits for its answer.          *)
Decide(r) ==
    /\ r \in wire
    /\ wire' = wire \ {r}
    /\ \/ /\ accepted' = accepted \cup {r}
          /\ last' = [last EXCEPT ![ColumnOf(r)] = r]
       \/ UNCHANGED <<accepted, last>>
    /\ UNCHANGED <<partials, templateCache, stored, task, disk>>

\* faulty: only logs that the mail has failed
SwallowFailure(r) ==
    /\ task[r].pc = "send"
    /\ Goto(r, "done")
    /\ UNCHANGED <<partials, templateCache, stored, provider, disk>>

(* The answer, or the failure of the connection; every error becomes a     *)
(* MailSendFailedException, and so the request's answer.                   *)
ReceiveAnswer(r) ==
    /\ task[r].pc = "send"
    /\ \/ r \in accepted /\ Goto(r, "done")
       \/ Goto(r, "refused")
    /\ UNCHANGED <<partials, templateCache, stored, provider, disk>>

-----------------------------------------------------------------------------
(* registerPartials: all three files or none, and no second try.           *)
RegisterPartials ==
    /\ partials = "loading"
    /\ partials' \in {"registered", "absent"}
    /\ UNCHANGED <<templateCache, stored, provider, task, disk>>

\* faulty: keeps what is compiled
KeepCompiled == UNCHANGED templateCache /\ floor' = file

EmptyCache ==
    /\ templateCache' = [t \in MailTemplate |-> None]
    /\ floor' = file

(* clearTemplateCache.                                                     *)
ClearTemplateCache ==
    /\ EmptyCache
    /\ task' = [r \in Requests |-> IF task[r].pc = "loaded"
                                   THEN [task[r] EXCEPT !.overtaken = TRUE] ELSE task[r]]
    /\ UNCHANGED <<partials, file, stored, provider, restarts>>

Restart ==
    /\ restarts < MaxRestarts
    /\ restarts' = restarts + 1
    /\ partials' = "loading"
    /\ EmptyCache
    /\ task' = [r \in Requests |-> IF task[r].pc \in {"idle"} \cup Ended THEN task[r]
                                   ELSE [task[r] EXCEPT !.pc = "crashed"]]
    /\ UNCHANGED <<file, stored, provider>>

(* A template is edited or deployed.                                       *)
ReplaceTemplate(t) ==
    /\ file[t] < MaxVersion
    /\ file' = [file EXCEPT ![t] = @ + 1]
    /\ UNCHANGED <<partials, templateCache, stored, provider, task, floor, restarts>>

Handle(r) == CompileTemplate(r) \/ ReadFile(r) \/ CacheTemplate(r) \/ ReceiveAnswer(r)

Next ==
    \/ \E r \in Requests : (\E h \in Handlers : StoreCode(r, h)) \/ Handle(r) \/ Decide(r)
    \/ RegisterPartials \/ ClearTemplateCache \/ Restart
    \/ \E t \in MailTemplate : ReplaceTemplate(t)

Spec == Init /\ [][Next]_vars

(* The event loop resumes a handler whose await has ended; reads end, and  *)
(* a connection gives an answer or an error.                               *)
FairSpec == Spec /\ \A r \in Requests : WF_vars(Handle(r))

-----------------------------------------------------------------------------
(* Type invariant of the mailer, the columns and the handlers.             *)
TypeOK ==
    /\ partials \in {"loading", "registered", "absent"}
    /\ file \in [MailTemplate -> Version] /\ floor \in [MailTemplate -> Version]
    /\ templateCache \in [MailTemplate -> Version \cup {None}]
    /\ stored \in [Columns -> Requests \cup {None}]
    /\ last \in [Columns -> Requests \cup {None}]
    /\ wire \subseteq Requests /\ accepted \subseteq Requests
    /\ task \in [Requests -> {NotCome} \cup Task]
    /\ \A r \in Requests : task[r].pc = "loaded" => task[r].content # None
    /\ restarts \in 0..MaxRestarts

(* The last mail with a code holds the code that works.  Otherwise the     *)
(* request that stored the newer code is not answered with success and its *)
(* mail has not been accepted, or the older mail was still on its way when *)
(* the newer code was stored.                                              *)
LastMailIsLive ==
    \A c \in Columns :
      LET r == stored[c] IN
      r # last[c] => \/ task[r].pc # "done" /\ r \notin accepted
                     \/ last[c] \in task[r].beside

(* A request has held a file of template t while the cache was cleared.    *)
Overtaken(t) == \E q \in Requests : /\ task[q] # NotCome /\ task[q].overtaken
                                    /\ TemplateOf(q) = t

(* Once the cache is emptied, by clearTemplateCache or a restart, mail is  *)
(* rendered from the files as they are then or later, unless a request     *)
(* holds, at the time, a file that it has read before: it caches it after. *)
FreshAfterClear ==
    \A r \in Requests :
      task[r] # NotCome /\ task[r].content # None /\ task[r].content < task[r].since
      => Overtaken(TemplateOf(r))

(* How codes and mails stand to each other: what has been mailed was       *)
(* stored before, each column names its latest request, and any other      *)
(* request of the column that may still mail was on its way by then.       *)
MailOrder ==
    /\ \A r \in wire \cup accepted : task[r] # NotCome
    /\ \A r \in Requests : task[r].pc = "done" => r \in accepted
    /\ \A c \in Columns :
         /\ last[c] # None => last[c] \in accepted /\ ColumnOf(last[c]) = c
         /\ stored[c] # None => task[stored[c]] # NotCome /\ ColumnOf(stored[c]) = c
    /\ \A r \in Requests : task[r] # NotCome =>
         LET s == stored[ColumnOf(r)] IN
         s # None /\ (r = s \/ r \in task[s].beside \/ r \notin OnTheirWay)

(* Nothing older than floor is cached or about to be cached, unless it has *)
(* been overtaken.                                                         *)
CacheOrder ==
    /\ \A t \in MailTemplate :
         /\ floor[t] <= file[t]
         /\ templateCache[t] # None => templateCache[t] >= floor[t] \/ Overtaken(t)
    /\ \A r \in Requests :
         /\ task[r].pc = "loaded" =>
              task[r].content >= floor[TemplateOf(r)] \/ task[r].overtaken
         /\ task[r].pc \in {"compile", "read", "loaded"} => task[r].since = 0

Inv == TypeOK /\ MailOrder /\ CacheOrder /\ LastMailIsLive /\ FreshAfterClear

(* A request for a mail is answered, unless the process ends.              *)
EveryMailEnds ==
    \A r \in Requests : task[r].pc # "idle" ~> task[r].pc \in Ended
=============================================================================
