----------------------------- MODULE MailerProofs -----------------------------
(***************************************************************************)
(* Proofs about Mailer, for any number of requests, versions and restarts. *)
(***************************************************************************)
EXTENDS Mailer, TLAPS

LEMMA TaskIsNotNotCome == \A t \in Task : t # NotCome /\ t.pc # "idle"
BY DEF Task, NotCome

LEMMA NotComeIsIdle == NotCome.pc = "idle"
BY DEF NotCome

LEMMA ColumnsOfHandlers ==
    /\ TokenColumn \in [Handlers -> Columns]
    /\ Template \in [Handlers -> MailTemplate]
BY DEF TokenColumn, Columns, Handlers, Template, MailTemplate

LEMMA BoundsOK == /\ Version \subseteq Nat /\ 0 \in Version /\ None \notin Nat
                  /\ None \notin Requests /\ None \notin Version
BY NoneIsNoRequest, BoundsAreNat DEF Version

-----------------------------------------------------------------------------
(* Type correctness.                                                       *)
LEMMA InitType == Init => TypeOK
BY BoundsOK, BoundsAreNat DEF Init, TypeOK, NotCome

(* A task that goes on keeps its handler, the mails it came beside and the *)
(* mark that it has been overtaken.                                        *)
GoesOn(old, new) == /\ new \in Task /\ new.handler = old.handler /\ new.beside = old.beside
                    /\ new.pc = "loaded" => new.content # None
                    /\ old.overtaken => new.overtaken

LEMMA RenderedTask ==
    ASSUME NEW t \in Task, NEW v \in Version \cup {None}, NEW f \in Version,
           NEW step \in {"send", "refused"}
    PROVE  GoesOn(t, [t EXCEPT !.pc = step, !.content = v, !.since = f])
BY DEF Task, GoesOn

LEMMA MovedTask ==
    ASSUME NEW t \in Task, NEW v \in Version,
           NEW step \in {"read", "done", "refused", "crashed"}
    PROVE  /\ GoesOn(t, [t EXCEPT !.pc = step])
           /\ GoesOn(t, [t EXCEPT !.pc = "loaded", !.content = v])
           /\ (t.pc = "loaded" => t.content # None) => GoesOn(t, [t EXCEPT !.overtaken = TRUE])
BY BoundsOK DEF Task, GoesOn

(* What a step of a handler that has come does to the tasks: one moves.    *)
OneMoves(r) == /\ task[r] # NotCome /\ task[r].pc \notin Ended
               /\ \E t \in Task : GoesOn(task[r], t) /\ task' = [task EXCEPT ![r] = t]

LEMMA RenderMoves ==
    ASSUME TypeOK, NEW r \in Requests, task[r] # NotCome, task[r].pc \notin Ended,
           NEW v \in Version, Render(r, v)
    PROVE  /\ OneMoves(r) /\ wire' \in {wire, wire \cup {r}}
           /\ task'[r].pc \in {"send", "refused"} /\ task'[r].content = v
           /\ task'[r].since = floor[TemplateOf(r)]
           /\ task'[r].overtaken = task[r].overtaken
<1> DEFINE step == IF partials = "registered" THEN "send" ELSE "refused"
           f == floor[Template[task[r].handler]]
           t == [task[r] EXCEPT !.pc = step, !.content = v, !.since = f]
<1>1. task[r] \in Task
  BY DEF TypeOK
<1>2. f \in Version
  BY <1>1, ColumnsOfHandlers DEF TypeOK, Task
<1>3. GoesOn(task[r], t) /\ t.pc = step /\ t.content = v /\ t.since = f
      /\ t.overtaken = task[r].overtaken
  BY <1>1, <1>2, RenderedTask DEF Task
<1>4. task' = [task EXCEPT ![r] = t]
  BY <1>1 DEF Render, TemplateOf
<1>5. task'[r] = t
  BY <1>4 DEF TypeOK
<1>6. OneMoves(r)
  BY <1>3, <1>4 DEF OneMoves, GoesOn
<1> QED
  BY <1>3, <1>5, <1>6 DEF Render, TemplateOf

(* What the mailer's own steps have in common.                             *)
LEMMA HandleMoves ==
    ASSUME TypeOK, NEW r \in Requests, Handle(r)
    PROVE  /\ OneMoves(r) /\ wire' \in {wire, wire \cup {r}}
           /\ task'[r].pc = "done" => r \in accepted
           /\ UNCHANGED <<partials, stored, accepted, last, file, floor, restarts>>
           /\ templateCache' \in [MailTemplate -> Version \cup {None}]
<1>0. task[r].pc \in {"compile", "read", "loaded", "send"}
  BY DEF Handle, CompileTemplate, ReadFile, CacheTemplate, ReceiveAnswer
<1>1. /\ task[r] # NotCome /\ task[r] \in Task /\ task[r].pc \notin Ended
      /\ TemplateOf(r) \in MailTemplate
  BY <1>0, ColumnsOfHandlers DEF TypeOK, NotCome, Ended, Task, TemplateOf
<1>2. ASSUME NEW step \in {"read", "refused", "done"}, Goto(r, step)
      PROVE  OneMoves(r) /\ task'[r].pc = step
  <2> DEFINE t == [task[r] EXCEPT !.pc = step]
  <2>1. GoesOn(task[r], t) /\ t.pc = step
    BY <1>1, MovedTask, BoundsOK DEF Task
  <2>2. task' = [task EXCEPT ![r] = t] /\ task'[r] = t
    BY <1>1, <1>2 DEF Goto, TypeOK
  <2> QED
    BY <1>1, <2>1, <2>2 DEF OneMoves, GoesOn
<1>3. CASE CompileTemplate(r)
  <2> DEFINE cached == templateCache[TemplateOf(r)]
  <2>1. CASE cached = None
    BY <1>2, <1>3, <2>1 DEF CompileTemplate, TypeOK, disk
  <2>2. CASE cached # None
    <3>1. cached \in Version
      BY <1>1, <2>2 DEF TypeOK
    <3>2. Render(r, cached)
      BY <1>3, <2>2 DEF CompileTemplate
    <3> QED
      BY <1>1, <1>3, <3>1, <3>2, RenderMoves DEF CompileTemplate, TypeOK, disk
  <2> QED
    BY <2>1, <2>2
<1>4. CASE ReadFile(r)
  <2> DEFINE t == [task[r] EXCEPT !.pc = "loaded", !.content = file[TemplateOf(r)]]
  <2>1. CASE task' = [task EXCEPT ![r].pc = "loaded", ![r].content = file[TemplateOf(r)]]
    <3>1. GoesOn(task[r], t) /\ t.pc = "loaded"
      BY <1>1, MovedTask DEF TypeOK, Task
    <3>2. task' = [task EXCEPT ![r] = t] /\ task'[r] = t
      BY <1>1, <2>1 DEF TypeOK
    <3> QED
      BY <1>1, <1>4, <3>1, <3>2 DEF ReadFile, OneMoves, GoesOn, TypeOK, provider, disk
  <2>2. CASE Goto(r, "refused")
    BY <1>2, <1>4, <2>2 DEF ReadFile, TypeOK, provider, disk
  <2> QED
    BY <1>4, <2>1, <2>2 DEF ReadFile
<1>5. CASE CacheTemplate(r)
  <2>1. task[r].content \in Version \cup {None}
    BY <1>1 DEF Task
  <2>2. task[r].pc = "loaded" => task[r].content \in Version
    BY <2>1 DEF TypeOK
  <2> QED
    BY <1>1, <1>5, <2>1, <2>2, RenderMoves DEF CacheTemplate, TypeOK, disk
<1>6. CASE ReceiveAnswer(r)
  BY <1>2, <1>6 DEF ReceiveAnswer, TypeOK, provider, disk
<1> QED
  BY <1>3, <1>4, <1>5, <1>6 DEF Handle

(* Steps that move any number of tasks on and send no mail but theirs.     *)
TasksGoOn ==
    \A q \in Requests :
      IF task[q] = NotCome THEN task'[q] = NotCome
      ELSE GoesOn(task[q], task'[q]) /\ (task[q].pc \in Ended => task'[q].pc \in Ended)

LEMMA OneMovesOn ==
    ASSUME TypeOK, NEW r \in Requests, OneMoves(r)
    PROVE  TasksGoOn /\ task' \in [Requests -> {NotCome} \cup Task]
<1>1. PICK t \in Task : GoesOn(task[r], t) /\ task' = [task EXCEPT ![r] = t]
  BY DEF OneMoves
<1>2. task' \in [Requests -> {NotCome} \cup Task]
  BY <1>1 DEF TypeOK
<1>3. ASSUME NEW q \in Requests, task[q] # NotCome
      PROVE  GoesOn(task[q], task'[q]) /\ (task[q].pc \in Ended => task'[q].pc \in Ended)
  <2>1. CASE q = r
    BY <1>1, <2>1 DEF OneMoves, TypeOK
  <2>2. CASE q # r
    BY <1>1, <1>3, <2>2 DEF TypeOK, GoesOn
  <2> QED
    BY <2>1, <2>2
<1> QED
  BY <1>1, <1>2, <1>3 DEF TasksGoOn, OneMoves, TypeOK

LEMMA TypeOfGoingOn ==
    ASSUME TypeOK, TasksGoOn, task' \in [Requests -> {NotCome} \cup Task]
    PROVE  \A r \in Requests : task'[r].pc = "loaded" => task'[r].content # None
BY TaskIsNotNotCome DEF TypeOK, TasksGoOn, GoesOn, NotCome

(* A request comes: the task that StoreCode gives it.                      *)
LEMMA Comes ==
    ASSUME TypeOK, NEW r \in Requests, NEW h \in Handlers, StoreCode(r, h)
    PROVE  /\ task[r] = NotCome /\ task'[r] \in Task /\ task'[r].handler = h
           /\ task'[r].pc = "compile" /\ task'[r].beside = OnTheirWay
           /\ task'[r].since = 0 /\ task'[r].content = None
           /\ task' = [task EXCEPT ![r] = task'[r]]
           /\ stored' = [stored EXCEPT ![TokenColumn[h]] = r]
<1> DEFINE t == [pc |-> "compile", handler |-> h, content |-> None, since |-> 0,
                 overtaken |-> FALSE, beside |-> OnTheirWay]
<1>1. OnTheirWay \subseteq Requests
  BY DEF OnTheirWay, TypeOK
<1>2. t \in Task
  BY <1>1, BoundsOK DEF Task
<1>3. task' = [task EXCEPT ![r] = t]
  BY DEF StoreCode
<1>4. task'[r] = t
  BY <1>3 DEF TypeOK
<1>5. /\ t.handler = h /\ t.pc = "compile" /\ t.beside = OnTheirWay
      /\ t.since = 0 /\ t.content = None
  OBVIOUS
<1>6. task[r] = NotCome /\ stored' = [stored EXCEPT ![TokenColumn[h]] = r]
  BY DEF StoreCode
<1> HIDE DEF t
<1>7. task' = [task EXCEPT ![r] = task'[r]]
  BY <1>3, <1>4
<1> QED
  BY <1>2, <1>4, <1>5, <1>6, <1>7

(* The steps that touch every task at once.                                *)
LEMMA AllMoveOn ==
    ASSUME TypeOK, ClearTemplateCache \/ Restart
    PROVE  /\ TasksGoOn /\ task' \in [Requests -> {NotCome} \cup Task]
           /\ UNCHANGED <<file, stored, wire, accepted, last>>
           /\ templateCache' \in [MailTemplate -> Version \cup {None}] /\ floor' = file
           /\ \A q \in Requests : task'[q].pc \in {task[q].pc, "crashed"}
<1>1. CASE ClearTemplateCache
  <2>1. ASSUME NEW q \in Requests, task[q].pc = "loaded"
        PROVE  task[q] # NotCome /\ GoesOn(task[q], [task[q] EXCEPT !.overtaken = TRUE])
    <3>1. task[q] \in Task
      BY <2>1 DEF TypeOK, NotCome
    <3> QED
      BY <2>1, <3>1, MovedTask, BoundsOK, TaskIsNotNotCome DEF TypeOK
  <2>2. \A q \in Requests : task[q] # NotCome => GoesOn(task[q], task[q])
    BY DEF TypeOK, GoesOn
  <2>3. \A q \in Requests : task'[q] = IF task[q].pc = "loaded"
                            THEN [task[q] EXCEPT !.overtaken = TRUE] ELSE task[q]
    BY <1>1 DEF ClearTemplateCache
  <2>4. TasksGoOn
    <3>1. ASSUME NEW q \in Requests PROVE task[q] = NotCome => task'[q] = NotCome
      BY <2>3, NotComeIsIdle
    <3>2. ASSUME NEW q \in Requests, task[q] # NotCome
          PROVE  GoesOn(task[q], task'[q]) /\ (task[q].pc \in Ended => task'[q].pc \in Ended)
      BY <2>1, <2>2, <2>3, <3>2 DEF Ended
    <3> QED
      BY <3>1, <3>2 DEF TasksGoOn
  <2>5. task' \in [Requests -> {NotCome} \cup Task]
    BY <1>1, <2>4 DEF ClearTemplateCache, TasksGoOn, GoesOn
  <2>6. \A q \in Requests : task'[q].pc \in {task[q].pc, "crashed"}
    <3> SUFFICES ASSUME NEW q \in Requests PROVE task'[q].pc \in {task[q].pc, "crashed"}
      OBVIOUS
    <3>1. CASE task[q].pc = "loaded"
      <4>1. task[q] \in Task
        BY <3>1 DEF TypeOK, NotCome
      <4> QED
        BY <2>3, <3>1, <4>1 DEF Task
    <3>2. CASE task[q].pc # "loaded"
      BY <2>3, <3>2
    <3> QED
      BY <3>1, <3>2
  <2> QED
    BY <1>1, <2>4, <2>5, <2>6 DEF ClearTemplateCache, EmptyCache, provider, TypeOK
<1>2. CASE Restart
  <2>1. ASSUME NEW q \in Requests, task[q].pc \notin {"idle"} \cup Ended
        PROVE  /\ task[q] # NotCome /\ GoesOn(task[q], [task[q] EXCEPT !.pc = "crashed"])
               /\ [task[q] EXCEPT !.pc = "crashed"].pc = "crashed"
    <3>1. task[q] \in Task
      BY <2>1 DEF TypeOK, NotCome
    <3> QED
      BY <2>1, <3>1, MovedTask, BoundsOK, TaskIsNotNotCome DEF Task
  <2>2. \A q \in Requests : task[q] # NotCome => GoesOn(task[q], task[q])
    BY DEF TypeOK, GoesOn
  <2>3. \A q \in Requests : task'[q] = IF task[q].pc \in {"idle"} \cup Ended
                            THEN task[q] ELSE [task[q] EXCEPT !.pc = "crashed"]
    BY <1>2 DEF Restart
  <2>4. TasksGoOn
    <3>1. ASSUME NEW q \in Requests PROVE task[q] = NotCome => task'[q] = NotCome
      BY <2>3, NotComeIsIdle
    <3>2. ASSUME NEW q \in Requests, task[q] # NotCome
          PROVE  GoesOn(task[q], task'[q]) /\ (task[q].pc \in Ended => task'[q].pc \in Ended)
      BY <2>1, <2>2, <2>3, <3>2 DEF Ended
    <3> QED
      BY <3>1, <3>2 DEF TasksGoOn
  <2>5. task' \in [Requests -> {NotCome} \cup Task]
    BY <1>2, <2>4 DEF Restart, TasksGoOn, GoesOn
  <2>6. \A q \in Requests : task'[q].pc \in {task[q].pc, "crashed"}
    BY <2>1, <2>3
  <2> QED
    BY <1>2, <2>4, <2>5, <2>6 DEF Restart, EmptyCache, provider, TypeOK
<1> QED
  BY <1>1, <1>2

LEMMA NextType == TypeOK /\ [Next]_vars => TypeOK'
<1> SUFFICES ASSUME TypeOK, [Next]_vars PROVE TypeOK'
  OBVIOUS
<1>1. ASSUME NEW r \in Requests, NEW h \in Handlers, StoreCode(r, h)
      PROVE  TypeOK'
  <2>1. TokenColumn[h] \in Columns
    BY ColumnsOfHandlers
  <2>2. \A q \in Requests : task'[q].pc = "loaded" => task'[q].content # None
    BY <1>1, Comes DEF TypeOK
  <2> QED
    BY <1>1, <2>1, <2>2, Comes DEF StoreCode, TypeOK, provider, disk
<1>2. ASSUME NEW r \in Requests, Handle(r)
      PROVE  TypeOK'
  BY <1>2, HandleMoves, OneMovesOn, TypeOfGoingOn DEF TypeOK
<1>3. ASSUME NEW r \in Requests, Decide(r)
      PROVE  TypeOK'
  BY <1>3 DEF Decide, TypeOK, disk
<1>4. CASE RegisterPartials
  BY <1>4 DEF RegisterPartials, TypeOK, provider, disk
<1>5. CASE ClearTemplateCache
  <2>1. restarts' = restarts /\ partials' = partials
    BY <1>5 DEF ClearTemplateCache
  <2> QED
    BY <1>5, <2>1, AllMoveOn, TypeOfGoingOn DEF TypeOK
<1>6. CASE Restart
  <2>1. restarts' \in 0..MaxRestarts /\ partials' = "loading"
    BY <1>6, BoundsAreNat DEF Restart, TypeOK
  <2> QED
    BY <1>6, <2>1, AllMoveOn, TypeOfGoingOn DEF TypeOK
<1>7. ASSUME NEW t \in MailTemplate, ReplaceTemplate(t)
      PROVE  TypeOK'
  BY <1>7, BoundsAreNat DEF ReplaceTemplate, TypeOK, Version, provider
<1>8. CASE UNCHANGED vars
  BY <1>8 DEF vars, TypeOK
<1> QED
  BY <1>1, <1>2, <1>3, <1>4, <1>5, <1>6, <1>7, <1>8 DEF Next

-----------------------------------------------------------------------------
(* Codes and mails.  Steps that store nothing and decide nothing keep the  *)
(* order: nobody new gets on his way.                                      *)
LEMMA QuietOrder ==
    ASSUME TypeOK, TypeOK', MailOrder, LastMailIsLive, TasksGoOn,
           UNCHANGED <<stored, accepted, last>>,
           wire' \subseteq OnTheirWay,
           \A q \in Requests : task'[q].pc = "done" => task[q].pc = "done" \/ q \in accepted
    PROVE  MailOrder' /\ LastMailIsLive'
<1>1. ASSUME NEW q \in Requests, task[q] # NotCome
      PROVE  /\ task'[q] # NotCome /\ ColumnOf(q)' = ColumnOf(q)
             /\ task'[q].beside = task[q].beside
  BY <1>1, TaskIsNotNotCome DEF TasksGoOn, GoesOn, ColumnOf
<1>2. ASSUME NEW q \in Requests, task'[q] # NotCome
      PROVE  task[q] # NotCome
  BY <1>2 DEF TasksGoOn
<1>3. OnTheirWay' \subseteq OnTheirWay
  <2> SUFFICES ASSUME NEW q \in Requests, task'[q].pc \notin {"idle"} \cup Ended
               PROVE  q \in OnTheirWay
    BY DEF OnTheirWay, TypeOK
  <2>1. task[q] # NotCome
    BY NotComeIsIdle DEF TasksGoOn
  <2>2. task[q].pc \notin {"idle"} \cup Ended
    BY <2>1, TaskIsNotNotCome DEF TasksGoOn, TypeOK
  <2> QED
    BY <2>2 DEF OnTheirWay
<1>4. OnTheirWay \subseteq Requests
  BY DEF OnTheirWay, TypeOK
<1>5. \A r \in wire' \cup accepted' : task'[r] # NotCome
  <2>1. \A r \in OnTheirWay : task[r] # NotCome
    BY NotComeIsIdle DEF OnTheirWay, MailOrder
  <2> QED
    BY <1>1, <1>4, <2>1 DEF MailOrder, TypeOK
<1>6. \A r \in Requests : task'[r].pc = "done" => r \in accepted'
  BY DEF MailOrder
<1>7. ASSUME NEW c \in Columns
      PROVE  /\ last'[c] # None => last'[c] \in accepted' /\ ColumnOf(last[c])' = c
             /\ stored'[c] # None => task'[stored'[c]] # NotCome /\ ColumnOf(stored[c])' = c
  BY <1>1 DEF MailOrder, TypeOK
<1>8. ASSUME NEW r \in Requests, task'[r] # NotCome
      PROVE  LET s == stored'[ColumnOf(r)'] IN
             s # None /\ (r = s \/ r \in task'[s].beside \/ r \notin OnTheirWay')
  <2>1. task[r] # NotCome /\ ColumnOf(r)' = ColumnOf(r) /\ ColumnOf(r) \in Columns
    BY <1>1, <1>2, <1>8, ColumnsOfHandlers DEF TypeOK, ColumnOf, Task
  <2> DEFINE s == stored[ColumnOf(r)]
  <2>2. s # None /\ (r = s \/ r \in task[s].beside \/ r \notin OnTheirWay)
    BY <2>1 DEF MailOrder
  <2>3. s \in Requests /\ task[s] # NotCome
    BY <2>1, <2>2 DEF MailOrder, TypeOK
  <2> QED
    BY <1>1, <1>3, <2>1, <2>2, <2>3
<1>9. MailOrder'
  BY <1>5, <1>6, <1>7, <1>8 DEF MailOrder
<1>10. ASSUME NEW c \in Columns, stored[c] # last[c]
       PROVE  \/ task'[stored[c]].pc # "done" /\ stored[c] \notin accepted
              \/ last[c] \in task'[stored[c]].beside
  <2>1. stored[c] # None
    <3>1. CASE last[c] = None
      BY <1>10, <3>1
    <3>2. CASE last[c] # None
      BY <3>2 DEF MailOrder, TypeOK
    <3> QED
      BY <3>1, <3>2
  <2>2. stored[c] \in Requests /\ task[stored[c]] # NotCome
    BY <2>1 DEF MailOrder, TypeOK
  <2>3. \/ task[stored[c]].pc # "done" /\ stored[c] \notin accepted
        \/ last[c] \in task[stored[c]].beside
    BY <1>10 DEF LastMailIsLive
  <2> QED
    BY <1>1, <2>2, <2>3 DEF MailOrder
<1> QED
  BY <1>9, <1>10 DEF LastMailIsLive

LEMMA StoreOrder ==
    ASSUME TypeOK, TypeOK', MailOrder, LastMailIsLive,
           NEW r \in Requests, NEW h \in Handlers, StoreCode(r, h)
    PROVE  MailOrder' /\ LastMailIsLive'
<1> DEFINE d == TokenColumn[h]
<1>1. /\ task[r] = NotCome /\ task'[r] \in Task /\ task'[r] # NotCome
      /\ ColumnOf(r)' = d /\ d \in Columns
      /\ task'[r].pc = "compile" /\ task'[r].beside = OnTheirWay
      /\ stored'[d] = r /\ \A c \in Columns \ {d} : stored'[c] = stored[c]
      /\ \A q \in Requests \ {r} : task'[q] = task[q]
  BY Comes, ColumnsOfHandlers, TaskIsNotNotCome DEF TypeOK, ColumnOf
<1>2. wire' = wire /\ accepted' = accepted /\ last' = last
  BY DEF StoreCode, provider
<1>3. r \notin wire \cup accepted /\ r # None
  BY <1>1, BoundsOK DEF MailOrder
<1>4. \A q \in Requests \ {r} : ColumnOf(q)' = ColumnOf(q)
  BY <1>1 DEF ColumnOf
<1>5. OnTheirWay' \subseteq OnTheirWay \cup {r}
  BY <1>1, <1>2 DEF OnTheirWay
<1>6. \A q \in wire' \cup accepted' : task'[q] # NotCome
  BY <1>1, <1>2, <1>3 DEF MailOrder, TypeOK
<1>7. \A q \in Requests : task'[q].pc = "done" => q \in accepted'
  BY <1>1, <1>2 DEF MailOrder
<1>8. ASSUME NEW c \in Columns
      PROVE  /\ last'[c] # None =>
                  last'[c] \in accepted' /\ TokenColumn[task'[last'[c]].handler] = c
             /\ stored'[c] # None =>
                  /\ task'[stored'[c]] # NotCome
                  /\ TokenColumn[task'[stored'[c]].handler] = c
  <2>1. last[c] # None => /\ last[c] \in accepted
                          /\ TokenColumn[task[last[c]].handler] = c
                          /\ task'[last[c]] = task[last[c]]
    BY <1>1, <1>3 DEF MailOrder, TypeOK, ColumnOf
  <2>2. CASE c = d
    <3>1. stored'[c] = r /\ TokenColumn[task'[r].handler] = c
      BY <1>1, <2>2 DEF ColumnOf
    <3> QED
      BY <1>1, <1>2, <2>1, <3>1
  <2>3. CASE c # d
    <3>1. stored[c] # None => /\ stored[c] \in Requests
                              /\ task[stored[c]] # NotCome
                              /\ TokenColumn[task[stored[c]].handler] = c
      BY DEF MailOrder, ColumnOf, TypeOK
    <3>2. stored[c] # None => task'[stored[c]] = task[stored[c]]
      BY <1>1, <3>1
    <3>3. stored'[c] = stored[c]
      BY <1>1, <2>3
    <3> QED
      BY <1>2, <2>1, <3>1, <3>2, <3>3
  <2> QED
    BY <2>2, <2>3
<1>9. ASSUME NEW q \in Requests, task'[q] # NotCome
      PROVE  LET s == stored'[ColumnOf(q)'] IN
             s # None /\ (q = s \/ q \in task'[s].beside \/ q \notin OnTheirWay')
  <2>1. CASE q = r
    BY <1>1, <1>3, <2>1
  <2>2. CASE q # r /\ ColumnOf(q) = d
    BY <1>1, <1>3, <1>4, <1>5, <2>2
  <2>3. CASE q # r /\ ColumnOf(q) # d
    <3>1. task[q] # NotCome /\ ColumnOf(q) \in Columns
      BY <1>1, <1>9, <2>3, ColumnsOfHandlers DEF TypeOK, ColumnOf, Task
    <3> DEFINE s == stored[ColumnOf(q)]
    <3>2. s # None /\ (q = s \/ q \in task[s].beside \/ q \notin OnTheirWay)
      BY <3>1 DEF MailOrder
    <3>3. s \in Requests \ {r} /\ task'[s] = task[s]
      BY <1>1, <3>1, <3>2 DEF MailOrder, TypeOK
    <3>4. stored'[ColumnOf(q)'] = s
      BY <1>1, <1>4, <2>3, <3>1
    <3> QED
      BY <1>5, <2>3, <3>2, <3>3, <3>4
  <2> QED
    BY <2>1, <2>2, <2>3
<1>10. MailOrder'
  BY <1>6, <1>7, <1>8, <1>9 DEF MailOrder, ColumnOf
<1>11. ASSUME NEW c \in Columns, stored'[c] # last[c]
       PROVE  \/ task'[stored'[c]].pc # "done" /\ stored'[c] \notin accepted
              \/ last[c] \in task'[stored'[c]].beside
  <2>1. CASE c = d
    BY <1>1, <1>3, <2>1
  <2>2. CASE c # d
    <3>1. stored'[c] = stored[c] /\ stored[c] # None
      BY <1>1, <1>11, <2>2 DEF MailOrder, TypeOK
    <3>2. stored[c] \in Requests \ {r}
      BY <1>1, <3>1 DEF MailOrder, TypeOK
    <3> QED
      BY <1>1, <1>11, <3>1, <3>2 DEF LastMailIsLive
  <2> QED
    BY <2>1, <2>2
<1> QED
  BY <1>2, <1>10, <1>11 DEF LastMailIsLive

LEMMA DecideOrder ==
    ASSUME TypeOK, TypeOK', MailOrder, LastMailIsLive, NEW r \in Requests, Decide(r)
    PROVE  MailOrder' /\ LastMailIsLive'
<1>1. /\ task[r] # NotCome /\ r \in OnTheirWay /\ ColumnOf(r) \in Columns
      /\ task' = task /\ stored' = stored /\ wire' \subseteq wire
  BY ColumnsOfHandlers DEF Decide, MailOrder, OnTheirWay, TypeOK, ColumnOf, Task
<1>2. OnTheirWay' \subseteq OnTheirWay /\ \A q : ColumnOf(q)' = ColumnOf(q)
  BY <1>1 DEF OnTheirWay, ColumnOf
<1> DEFINE d == ColumnOf(r)
           s == stored[d]
<1>3. s # None /\ s \in Requests /\ (r = s \/ r \in task[s].beside)
  BY <1>1 DEF MailOrder, TypeOK
<1>4. CASE UNCHANGED <<accepted, last>>
  BY <1>1, <1>2, <1>4 DEF MailOrder, LastMailIsLive
<1>5. CASE accepted' = accepted \cup {r} /\ last' = [last EXCEPT ![d] = r]
  <2>1. last'[d] = r /\ \A c \in Columns \ {d} : last'[c] = last[c]
    BY <1>1, <1>5 DEF TypeOK
  <2>2. MailOrder'
    BY <1>1, <1>2, <1>5, <2>1 DEF MailOrder
  <2>3. ASSUME NEW c \in Columns, stored[c] # last'[c]
        PROVE  \/ task[stored[c]].pc # "done" /\ stored[c] \notin accepted'
               \/ last'[c] \in task[stored[c]].beside
    <3>1. CASE c = d
      BY <1>3, <2>1, <2>3, <3>1
    <3>2. CASE c # d
      <4>1. stored[c] # r
        BY <1>3, <3>2, BoundsOK DEF MailOrder
      <4> QED
        BY <1>5, <2>1, <2>3, <3>2, <4>1 DEF LastMailIsLive
    <3> QED
      BY <3>1, <3>2
  <2> QED
    BY <1>1, <2>2, <2>3 DEF LastMailIsLive
<1> QED
  BY <1>4, <1>5 DEF Decide

-----------------------------------------------------------------------------
(* The cache.  Requests that have been overtaken stay so.                  *)
LEMMA OvertakenStays ==
    ASSUME TypeOK, TasksGoOn, NEW t, Overtaken(t)
    PROVE  Overtaken(t)'
<1>1. PICK q \in Requests : task[q] # NotCome /\ task[q].overtaken /\ TemplateOf(q) = t
  BY DEF Overtaken
<1>2. task'[q] # NotCome /\ task'[q].overtaken /\ Template[task'[q].handler] = t
  BY <1>1, TaskIsNotNotCome DEF TasksGoOn, GoesOn, TemplateOf
<1> QED
  BY <1>2 DEF Overtaken, TemplateOf

(* What the two invariants of the cache say of one task.                   *)
Fits(t) ==
    /\ t.pc = "loaded" => t.content >= floor[Template[t.handler]] \/ t.overtaken
    /\ t.pc \in {"compile", "read", "loaded"} => t.since = 0
    /\ t # NotCome /\ t.content # None /\ t.content < t.since
         => Overtaken(Template[t.handler])

LEMMA TasksFit ==
    ASSUME CacheOrder, FreshAfterClear
    PROVE  \A q \in Requests : Fits(task[q])
BY DEF CacheOrder, FreshAfterClear, Fits, TemplateOf

(* A step that leaves the files and the last clearing alone.               *)
LEMMA CacheStep ==
    ASSUME TypeOK', CacheOrder, FreshAfterClear,
           UNCHANGED <<file, floor>>,
           \A t \in MailTemplate : Overtaken(t) => Overtaken(t)',
           \A q \in Requests : task'[q] # task[q] => Fits(task'[q]),
           \A t \in MailTemplate : \/ templateCache'[t] = templateCache[t]
                                   \/ templateCache'[t] >= floor[t] \/ Overtaken(t)
    PROVE  CacheOrder' /\ FreshAfterClear'
<1>1. \A t \in MailTemplate :
         /\ floor'[t] <= file'[t]
         /\ templateCache'[t] # None => templateCache'[t] >= floor'[t] \/ Overtaken(t)'
  BY DEF CacheOrder
<1>2. \A q \in Requests : Fits(task'[q])
  BY TasksFit
<1>3. CacheOrder'
  BY <1>1, <1>2 DEF CacheOrder, Fits, TemplateOf
<1>4. ASSUME NEW q \in Requests, task'[q] # NotCome, task'[q].content # None,
             task'[q].content < task'[q].since
      PROVE  \E t \in MailTemplate : t = Template[task'[q].handler] /\ Overtaken(t)'
  <2>1. Template[task'[q].handler] \in MailTemplate
    BY <1>4, ColumnsOfHandlers DEF TypeOK, Task
  <2>2. PICK t \in MailTemplate : t = Template[task'[q].handler]
    BY <2>1
  <2>3. Overtaken(t)
    BY <1>2, <1>4, <2>2 DEF Fits
  <2> QED
    BY <2>2, <2>3
<1> QED
  BY <1>3, <1>4 DEF FreshAfterClear, TemplateOf, Overtaken

LEMMA StoreCache ==
    ASSUME TypeOK, TypeOK', CacheOrder, FreshAfterClear,
           NEW r \in Requests, NEW h \in Handlers, StoreCode(r, h)
    PROVE  CacheOrder' /\ FreshAfterClear'
<1>1. UNCHANGED <<templateCache, file, floor>>
  BY DEF StoreCode, disk
<1>2. /\ task[r] = NotCome /\ task' = [task EXCEPT ![r] = task'[r]]
      /\ task'[r].handler = h /\ Fits(task'[r])
  BY Comes DEF Fits
<1>3. \A q \in Requests \ {r} : task'[q] = task[q]
  BY <1>2 DEF TypeOK
<1>4. \A t \in MailTemplate : Overtaken(t) => Overtaken(t)'
  BY <1>2, <1>3 DEF Overtaken, TemplateOf
<1> QED
  BY <1>1, <1>2, <1>3, <1>4, CacheStep

LEMMA RenderFits ==
    ASSUME TypeOK, NEW r \in Requests, task[r] # NotCome, task[r].pc \notin Ended,
           NEW v \in Version, Render(r, v),
           v >= floor[TemplateOf(r)] \/ Overtaken(TemplateOf(r))
    PROVE  Fits(task'[r])
<1>1. OneMoves(r) /\ task'[r].pc \in {"send", "refused"} /\ task'[r].content = v
      /\ task'[r].since = floor[TemplateOf(r)]
  BY RenderMoves
<1>2. task'[r].handler = task[r].handler
  BY <1>1 DEF OneMoves, GoesOn, TypeOK
<1>3. TemplateOf(r) \in MailTemplate
  BY ColumnsOfHandlers DEF TemplateOf, TypeOK, Task
<1>4. v \in Nat /\ floor[TemplateOf(r)] \in Nat
  BY <1>3, BoundsOK DEF TypeOK
<1> QED
  BY <1>1, <1>2, <1>4 DEF Fits, TemplateOf

LEMMA HandleCache ==
    ASSUME TypeOK, TypeOK', CacheOrder, FreshAfterClear, NEW r \in Requests, Handle(r)
    PROVE  CacheOrder' /\ FreshAfterClear'
<1>0. task[r].pc \in {"compile", "read", "loaded", "send"}
  BY DEF Handle, CompileTemplate, ReadFile, CacheTemplate, ReceiveAnswer
<1>1. /\ task[r] # NotCome /\ task[r] \in Task /\ task[r].pc \notin Ended
      /\ TemplateOf(r) \in MailTemplate
  BY <1>0, ColumnsOfHandlers DEF TypeOK, NotCome, Ended, Task, TemplateOf
<1>2. OneMoves(r) /\ UNCHANGED <<file, floor>>
  BY HandleMoves
<1>3. TasksGoOn
  BY <1>2, OneMovesOn
<1>4. \A q \in Requests \ {r} : task'[q] = task[q]
  BY <1>2 DEF OneMoves, TypeOK
<1>5. task'[r].handler = task[r].handler
  BY <1>1, <1>3 DEF TasksGoOn, GoesOn, Task
<1>6. Fits(task[r])
  BY TasksFit
<1>7. ASSUME NEW step \in {"read", "refused", "done"}, Goto(r, step),
             task[r].since = 0 \/ step # "read"
      PROVE  Fits(task'[r])
  BY <1>1, <1>6, <1>7 DEF Fits, Goto, TypeOK, Task
<1>8. /\ Fits(task'[r])
      /\ \A t \in MailTemplate : \/ templateCache'[t] = templateCache[t]
                                 \/ templateCache'[t] >= floor[t] \/ Overtaken(t)
  <2>1. CASE CompileTemplate(r)
    <3> DEFINE cached == templateCache[TemplateOf(r)]
    <3>1. CASE cached = None
      BY <1>6, <1>7, <2>1, <3>1 DEF CompileTemplate, Fits
    <3>2. CASE cached # None
      <4>1. cached \in Version /\ Render(r, cached)
        BY <1>1, <2>1, <3>2 DEF CompileTemplate, TypeOK
      <4>2. cached >= floor[TemplateOf(r)] \/ Overtaken(TemplateOf(r))
        BY <1>1, <3>2 DEF CacheOrder
      <4> QED
        BY <1>1, <2>1, <4>1, <4>2, RenderFits DEF CompileTemplate
    <3> QED
      BY <3>1, <3>2
  <2>2. CASE ReadFile(r)
    <3>1. CASE task' = [task EXCEPT ![r].pc = "loaded", ![r].content = file[TemplateOf(r)]]
      <4>1. task'[r] = [task[r] EXCEPT !.pc = "loaded", !.content = file[TemplateOf(r)]]
        BY <3>1 DEF TypeOK
      <4>2. /\ task'[r].pc = "loaded" /\ task'[r].content = file[TemplateOf(r)]
            /\ task'[r].since = task[r].since
        BY <1>1, <4>1 DEF Task
      <4>3. task[r].since = 0
        BY <1>6, <2>2 DEF Fits, ReadFile
      <4>4. /\ file[TemplateOf(r)] \in Nat /\ floor[TemplateOf(r)] \in Nat
            /\ file[TemplateOf(r)] >= floor[TemplateOf(r)]
        BY <1>1, BoundsOK DEF CacheOrder, TypeOK
      <4> QED
        BY <1>5, <2>2, <4>2, <4>3, <4>4 DEF Fits, ReadFile, TemplateOf
    <3>2. CASE Goto(r, "refused")
      BY <1>7, <2>2, <3>2 DEF ReadFile
    <3> QED
      BY <2>2, <3>1, <3>2 DEF ReadFile
  <2>3. CASE CacheTemplate(r)
    <3>1. task[r].content \in Version /\ task[r].pc = "loaded" /\ Render(r, task[r].content)
      BY <1>1, <2>3 DEF CacheTemplate, TypeOK, Task
    <3>2. task[r].content >= floor[TemplateOf(r)] \/ Overtaken(TemplateOf(r))
      BY <1>1, <3>1 DEF CacheOrder, Overtaken
    <3>3. templateCache' = [templateCache EXCEPT ![TemplateOf(r)] = task[r].content]
      BY <2>3 DEF CacheTemplate
    <3> QED
      BY <1>1, <3>1, <3>2, <3>3, RenderFits DEF TypeOK
  <2>4. CASE ReceiveAnswer(r)
    BY <1>7, <2>4 DEF ReceiveAnswer
  <2> QED
    BY <2>1, <2>2, <2>3, <2>4 DEF Handle
<1> QED
  BY <1>2, <1>3, <1>4, <1>5, <1>8, OvertakenStays, CacheStep

(* The cache is emptied: whoever holds a file, if he goes on, is marked.   *)
LEMMA EmptyingCache ==
    ASSUME TypeOK, TypeOK', CacheOrder, FreshAfterClear, ClearTemplateCache \/ Restart
    PROVE  CacheOrder' /\ FreshAfterClear'
<1>1. /\ TasksGoOn /\ file' = file /\ floor' = file
      /\ \A t \in MailTemplate : templateCache'[t] = None
  BY AllMoveOn DEF ClearTemplateCache, Restart, EmptyCache
<1>2. ASSUME NEW q \in Requests
      PROVE  /\ task'[q].pc = "loaded" => task'[q].overtaken
             /\ \/ task'[q].pc = task[q].pc
                \/ task'[q].pc = "crashed"
             /\ task[q] # NotCome => /\ task'[q].content = task[q].content
                                     /\ task'[q].since = task[q].since
                                     /\ task'[q].handler = task[q].handler
  <2>1. CASE task[q] = NotCome
    BY <1>1, <2>1, NotComeIsIdle DEF TasksGoOn
  <2>2. CASE task[q] # NotCome
    <3>1. task[q] \in Task
      BY <2>2 DEF TypeOK
    <3>2. CASE ClearTemplateCache
      BY <3>1, <3>2 DEF ClearTemplateCache, Task
    <3>3. CASE Restart
      BY <3>1, <3>3 DEF Restart, Task, Ended
    <3> QED
      BY <3>2, <3>3
  <2> QED
    BY <2>1, <2>2
<1>3. \A t \in MailTemplate : floor'[t] <= file'[t]
  <2>1. \A t \in MailTemplate : file[t] \in Nat
    BY BoundsOK DEF TypeOK
  <2> QED
    BY <1>1, <2>1
<1>4. ASSUME NEW q \in Requests, task'[q].pc \in {"compile", "read", "loaded"}
      PROVE  task'[q].since = 0
  <2>1. task'[q].pc = task[q].pc /\ task[q] # NotCome
    BY <1>2, <1>4, NotComeIsIdle
  <2> QED
    BY <1>2, <1>4, <2>1 DEF CacheOrder
<1>5. CacheOrder'
  BY <1>1, <1>2, <1>3, <1>4 DEF CacheOrder
<1>6. ASSUME NEW q \in Requests, task'[q] # NotCome, task'[q].content # None,
             task'[q].content < task'[q].since
      PROVE  \E t \in MailTemplate : t = Template[task'[q].handler] /\ Overtaken(t)'
  <2>1. task[q] # NotCome
    BY <1>1, <1>6 DEF TasksGoOn
  <2>2. PICK t \in MailTemplate : t = Template[task[q].handler]
    BY <2>1, ColumnsOfHandlers DEF TypeOK, Task
  <2>3. Overtaken(t)
    BY <1>2, <1>6, <2>1, <2>2 DEF FreshAfterClear, TemplateOf
  <2> QED
    BY <1>1, <1>2, <2>1, <2>2, <2>3, OvertakenStays
<1> QED
  BY <1>5, <1>6 DEF FreshAfterClear, TemplateOf, Overtaken

LEMMA ReplacingFiles ==
    ASSUME TypeOK, CacheOrder, FreshAfterClear, NEW t \in MailTemplate, ReplaceTemplate(t)
    PROVE  CacheOrder' /\ FreshAfterClear'
<1>1. UNCHANGED <<templateCache, task, floor>>
  BY DEF ReplaceTemplate
<1>2. \A u \in MailTemplate : floor'[u] <= file'[u]
  <2> SUFFICES ASSUME NEW u \in MailTemplate PROVE floor[u] <= file'[u]
    BY <1>1
  <2>1. file[u] \in Nat /\ floor[u] \in Nat /\ floor[u] <= file[u]
    BY BoundsOK DEF TypeOK, CacheOrder
  <2> QED
    BY <2>1 DEF ReplaceTemplate, TypeOK
<1> QED
  BY <1>1, <1>2 DEF CacheOrder, FreshAfterClear, Overtaken, TemplateOf

-----------------------------------------------------------------------------
(* The inductive invariant.                                                *)
LEMMA InitInv == Init => Inv
<1> SUFFICES ASSUME Init PROVE Inv
  OBVIOUS
<1>1. /\ \A r \in Requests : task[r] = NotCome /\ task[r].pc = "idle"
      /\ \A t \in MailTemplate : file[t] = 0 /\ floor[t] = 0 /\ templateCache[t] = None
      /\ \A c \in Columns : stored[c] = None /\ last[c] = None
      /\ wire = {} /\ accepted = {}
  BY NotComeIsIdle DEF Init
<1>2. MailOrder /\ LastMailIsLive
  BY <1>1 DEF MailOrder, LastMailIsLive
<1>3. CacheOrder /\ FreshAfterClear
  BY <1>1 DEF CacheOrder, FreshAfterClear
<1> QED
  BY <1>2, <1>3, InitType DEF Inv

LEMMA NextInv == Inv /\ [Next]_vars => Inv'
<1> SUFFICES ASSUME Inv, [Next]_vars PROVE Inv'
  OBVIOUS
<1>1. TypeOK'
  BY NextType DEF Inv
<1>2. ASSUME NEW r \in Requests, NEW h \in Handlers, StoreCode(r, h)
      PROVE  Inv'
  BY <1>1, <1>2, StoreOrder, StoreCache DEF Inv
<1>3. ASSUME NEW r \in Requests, Handle(r)
      PROVE  Inv'
  <2>1. TasksGoOn /\ UNCHANGED <<stored, accepted, last>>
    BY <1>3, HandleMoves, OneMovesOn DEF Inv
  <2>2. OneMoves(r) /\ wire' \in {wire, wire \cup {r}} /\ (task'[r].pc = "done" => r \in accepted)
    BY <1>3, HandleMoves DEF Inv
  <2>3. wire' \subseteq OnTheirWay
    <3>1. task[r].pc # "idle" /\ task[r].pc \notin Ended
      BY <2>2, TaskIsNotNotCome DEF OneMoves, Inv, TypeOK
    <3> QED
      BY <2>2, <3>1 DEF OnTheirWay
  <2>4. \A q \in Requests : task'[q].pc = "done" => task[q].pc = "done" \/ q \in accepted
    BY <2>2 DEF OneMoves, Inv, TypeOK
  <2> QED
    BY <1>1, <1>3, <2>1, <2>3, <2>4, QuietOrder, HandleCache DEF Inv
<1>4. ASSUME NEW r \in Requests, Decide(r)
      PROVE  Inv'
  <2>1. UNCHANGED <<templateCache, file, floor, task>>
    BY <1>4 DEF Decide, disk
  <2>2. CacheOrder' /\ FreshAfterClear'
    BY <2>1 DEF Inv, CacheOrder, FreshAfterClear, Overtaken, TemplateOf
  <2> QED
    BY <1>1, <1>4, <2>2, DecideOrder DEF Inv
<1>5. CASE RegisterPartials \/ UNCHANGED vars
  <2>1. UNCHANGED <<templateCache, file, floor, task, stored, wire, accepted, last>>
    BY <1>5 DEF RegisterPartials, provider, disk, vars
  <2> QED
    BY <1>1, <2>1 DEF Inv, MailOrder, LastMailIsLive, CacheOrder, FreshAfterClear,
                      Overtaken, TemplateOf, ColumnOf, OnTheirWay
<1>6. CASE ClearTemplateCache \/ Restart
  <2>1. /\ TasksGoOn /\ UNCHANGED <<stored, wire, accepted, last>>
        /\ \A q \in Requests : task'[q].pc = "done" => task[q].pc = "done"
    BY <1>6, AllMoveOn DEF Inv
  <2>2. wire' \subseteq OnTheirWay
    BY <2>1 DEF OnTheirWay
  <2> QED
    BY <1>1, <1>6, <2>1, <2>2, QuietOrder, EmptyingCache DEF Inv
<1>7. ASSUME NEW t \in MailTemplate, ReplaceTemplate(t)
      PROVE  Inv'
  <2>1. UNCHANGED <<task, stored, wire, accepted, last>>
    BY <1>7 DEF ReplaceTemplate, provider
  <2>2. MailOrder' /\ LastMailIsLive'
    BY <2>1 DEF Inv, MailOrder, LastMailIsLive, ColumnOf, OnTheirWay
  <2> QED
    BY <1>1, <1>7, <2>2, ReplacingFiles DEF Inv
<1> QED
  BY <1>2, <1>3, <1>4, <1>5, <1>6, <1>7 DEF Next

(* The mailer's state is well-typed, mails and codes keep their order, and *)
(* the cache holds nothing older than what it was last emptied for, with   *)
(* the exceptions the parts name: in every state of every execution.       *)
THEOREM Invariance == Spec => []Inv
<1>1. Init => Inv
  BY InitInv
<1>2. Inv /\ [Next]_vars => Inv'
  BY NextInv
<1> QED
  BY <1>1, <1>2, PTL DEF Spec

(* However many requests for a code overlap, and wherever the process is   *)
(* restarted: the code of the last mail accepted is the one that is        *)
(* stored, unless the newer request has not succeeded, nor its mail, or    *)
(* the older mail was on its way when the newer code was stored.           *)
THEOREM LastMailHolds == Spec => []LastMailIsLive
BY Invariance, PTL DEF Inv

(* After the cache has been cleared no mail shows an older file, unless a  *)
(* request was holding one when it was cleared.                            *)
THEOREM FreshnessHolds == Spec => []FreshAfterClear
BY Invariance, PTL DEF Inv

(* Type correctness.                                                       *)
THEOREM TypeCorrect == Spec => []TypeOK
BY Invariance, PTL DEF Inv
=============================================================================
