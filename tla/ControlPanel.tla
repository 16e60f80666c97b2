----------------------------- MODULE ControlPanel -----------------------------
(***************************************************************************)
(* The browser side of the web control panel, spongebob.js.  The panel is  *)
(* one document: a click on a link, the Back and Forward buttons and the   *)
(* submission of a form all go through navigate, which asks the server for *)
(* a part of a page and puts it in the place of the last one, and which    *)
(* does nothing while an answer is awaited.  Beside it the panel tracks    *)
(* the forms whose contents were changed, on a stack, and offers to save   *)
(* them in a popup.                                                        *)
(*                                                                         *)
(* The user is the environment: clicks, edits and travels at any moment    *)
(* the screen allows it.  So is the server, which answers a request, turns *)
(* a form down (400), or fails.  A form's contents are one value.          *)
(*                                                                         *)
(* strayed, lapse, early and hasty are history variables: no guard reads   *)
(* them.                                                                   *)
(***************************************************************************)
EXTENDS Integers, SequencesExt, Filter

CONSTANTS
  Pages,       \* addresses of pages
  Forms,       \* the forms of all pages
  Values,      \* what a form can hold
  PageOf,      \* [Forms -> Pages], the page a form is on
  Actions,     \* addresses that forms are posted to and that are no page's
  ActionOf,    \* [Forms -> Actions \cup {None}], the action of a form
  Buttons,     \* the buttons with a formaction, another action for their form
  Saving,      \* the actions that save the form; the others delete or run something
  Leads,       \* [Actions -> Pages], the page that an action answers with
  AlertsOnly,  \* the forms with data-async-form-alertsonly
  Mobile,      \* the popup is only shown on telephones and tablets
  MaxEntries,  \* bound: entries the browser keeps in its history
  None         \* no request, no form

ASSUME PanelAssumption ==
  /\ PageOf \in [Forms -> Pages]
  /\ Pages \cap Actions = {}
  /\ ActionOf \in [Forms -> Actions \cup {None}]
  /\ Buttons \subseteq [form : Forms, action : Actions, alerts : BOOLEAN]
  /\ Saving \subseteq Actions
  /\ Leads \in [Actions -> Pages]
  /\ AlertsOnly \subseteq Forms
  /\ Mobile \in BOOLEAN
  /\ MaxEntries \in Nat \ {0}

VARIABLES
  entries, pos,   \* the browser's history and the entry shown
  content,        \* the page in #main-content
  lastLoc,        \* the address the last answer was for
  request,        \* the request of navigate, None unless currentlyLoading
  value,          \* what each form holds
  savedVersion,   \* what each form held when it was put on the screen
  stored,         \* what the server has
  stack,          \* unsavedChangesStack
  popup,          \* the popup: hidden, or shown with or without its button
  gone,           \* an error sent the browser to "/"
  strayed,        \* history: Back or Forward was ignored, or a button led to another page
  lapse,          \* history: what came between a form and the save that it was posted for
  early,          \* history: the last Save! was pressed while an answer was awaited
  hasty           \* history: an edit or Save! while an answer was awaited

page == <<entries, pos, content, lastLoc, request, gone>>
forms == <<value, savedVersion, stored, stack, popup>>
history == <<strayed, lapse, early, hasty>>
vars == <<page, forms, history>>

Address == Pages \cup Actions
Shown == {f \in Forms : PageOf[f] = content}
pathname == entries[pos]
currentlyLoading == request # None
Awaited(f) == currentlyLoading /\ request.form = f

Get(p, push) ==
  [to |-> p, form |-> None, sent |-> None, push |-> push, alerts |-> FALSE, chain |-> FALSE]

\* A form without an action is posted to the address the browser shows.
Target(f) == IF ActionOf[f] = None THEN pathname ELSE ActionOf[f]

Post(f, to, alerts, chain) ==
  [to |-> to, form |-> f, sent |-> value[f], push |-> FALSE, alerts |-> alerts, chain |-> chain]

Requests ==
  [to : Pages, form : {None}, sent : {None}, push : BOOLEAN, alerts : {FALSE}, chain : {FALSE}]
    \cup [to : Address, form : Forms, sent : Values, push : {FALSE},
          alerts : BOOLEAN, chain : BOOLEAN]

\* No form, action or request is taken for None.
ASSUME NoneAssumption == None \notin Forms \cup Actions \cup Requests

\* refused: the server turned it down; edited: while its own answer was awaited; early: Save!
\* took it off the stack while an answer was awaited; elsewhere: its address saves another one.
Lapses == {"none", "refused", "edited", "early", "elsewhere"}
NoLapse == [f \in Forms |-> "none"]

\* The browser keeps its newest entries.
Recent(s) == SubSeq(s, Max({1, Len(s) - MaxEntries + 1}), Len(s))

\* The page that an address renders.
PageAt(a) == IF a \in Pages THEN a ELSE Leads[a]

-----------------------------------------------------------------------------
(* The popup. *)

\* Mutant: an empty stack leaves the popup as it is.
PopupForSome(s) == IF s # << >> /\ Mobile THEN "offering" ELSE popup

\* updateUnsavedChangesPopup for the stack s
PopupFor(s) == IF s = << >> THEN "hidden" ELSE IF Mobile THEN "offering" ELSE popup

\* Mutant: the stack is not searched first.
ShowAgain(f) ==
  /\ stack' = Append(stack, f)
  /\ popup' = PopupFor(stack')

\* showUnsavedChangesPopup
Show(f) ==
  IF f \in Range(stack)
    THEN UNCHANGED <<stack, popup>>
    ELSE /\ stack' = Append(stack, f)
         /\ popup' = PopupFor(stack')

\* Mutant: whatever form was changed last is taken off the stack.
HideLast(F) ==
  IF F \cap Range(stack) = {}
    THEN UNCHANGED <<stack, popup>>
    ELSE /\ stack' = Front(stack)
         /\ popup' = PopupFor(stack')

\* hideUnsavedChangesPopup, for each form of F
Hide(F) ==
  IF F \cap Range(stack) = {}
    THEN UNCHANGED <<stack, popup>>
    ELSE /\ stack' = Only(stack, Forms \ F)
         /\ popup' = PopupFor(stack')

\* saveNext: the last form of the stack is posted and the button is hidden,
\* whether or not navigate takes the request.
SaveNext(free) ==
  /\ stack' = Front(stack)
  /\ popup' = "saving"
  /\ request' = IF free THEN Post(Last(stack), Target(Last(stack)), TRUE, TRUE) ELSE request

\* Save! takes f off the stack, and posts it unless an answer is awaited.
SaveLapse(f) == [lapse EXCEPT ![f] = IF currentlyLoading THEN "early" ELSE "none"]

-----------------------------------------------------------------------------
(* What the user does. *)

\* The first page of a visit is a whole document.
Init ==
  /\ stored \in [Forms -> Values] /\ value = stored /\ savedVersion = stored
  /\ content \in Pages /\ lastLoc = content
  /\ entries = <<content>> /\ pos = 1
  /\ request = None /\ stack = << >> /\ popup = "hidden" /\ gone = FALSE
  /\ strayed = FALSE /\ lapse = NoLapse /\ early = FALSE /\ hasty = FALSE

\* A click on a link with data-partial-load.
Click(p) ==
  /\ ~gone /\ ~currentlyLoading
  /\ request' = Get(p, TRUE)
  /\ strayed' = FALSE
  /\ UNCHANGED <<entries, pos, content, lastLoc, gone, forms, lapse, early, hasty>>

\* The Back and Forward buttons: the browser changes the address by itself,
\* and the popstate handler has the page loaded unless it was the last one.
Travel(to) ==
  /\ ~gone
  /\ to \in {pos - 1, pos + 1} \cap DOMAIN entries
  /\ pos' = to
  /\ IF entries[to] # lastLoc /\ ~currentlyLoading
       THEN request' = Get(entries[to], FALSE) /\ strayed' = FALSE
       ELSE UNCHANGED request /\ strayed' = (strayed \/ currentlyLoading)
  /\ UNCHANGED <<entries, content, lastLoc, gone, forms, lapse, early, hasty>>

\* The change handler of a form, which compares it with the version tracked.
\* It also runs for a change that leaves the value as it was.
Edit(f, v) ==
  /\ ~gone
  /\ f \in Shown
  /\ value' = [value EXCEPT ![f] = v]
  /\ IF v # savedVersion[f] THEN Show(f) ELSE Hide({f})
  /\ lapse' = [lapse EXCEPT ![f] = IF Awaited(f) /\ ~request.chain THEN "edited" ELSE "none"]
  /\ hasty' = (hasty \/ currentlyLoading)
  /\ UNCHANGED <<page, savedVersion, stored, strayed, early>>

\* submitForm, with the loading guard of navigate.
SubmitForm(f, to, alerts) ==
  /\ ~gone /\ ~currentlyLoading
  /\ f \in Shown
  /\ request' = Post(f, to, alerts, FALSE)
  /\ lapse' = [lapse EXCEPT ![f] = "none"]
  /\ UNCHANGED <<entries, pos, content, lastLoc, gone, forms, strayed, early, hasty>>

\* A form is submitted to its action.
Submit(f) == SubmitForm(f, Target(f), f \in AlertsOnly)

\* A button with a formaction is pressed, and confirmed if it asks for that: alerts only if
\* the button says so, or the form.
Press(b) == SubmitForm(b.form, b.action, b.alerts \/ b.form \in AlertsOnly)

\* Save! in the popup, with one form on the stack: the form is submitted and
\* the stack emptied, whether or not navigate takes the request.
SaveOne ==
  /\ ~gone /\ popup = "offering" /\ Len(stack) = 1
  /\ stack' = << >>
  /\ popup' = PopupFor(stack')
  /\ request' = IF currentlyLoading THEN request
                ELSE Post(stack[1], Target(stack[1]), stack[1] \in AlertsOnly, FALSE)
  /\ lapse' = SaveLapse(stack[1])
  /\ early' = currentlyLoading /\ hasty' = currentlyLoading
  /\ UNCHANGED <<entries, pos, content, lastLoc, gone, value, savedVersion, stored, strayed>>

\* Save! with several: they are posted one after the other, each from the
\* callback of the last one's answer.
SaveAll ==
  /\ ~gone /\ popup = "offering" /\ Len(stack) > 1
  /\ SaveNext(~currentlyLoading)
  /\ lapse' = SaveLapse(Last(stack))
  /\ early' = currentlyLoading /\ hasty' = currentlyLoading
  /\ UNCHANGED <<entries, pos, content, lastLoc, gone, value, savedVersion, stored, strayed>>

\* A new document holds what the server has, and awaits no answer.
Fresh ==
  /\ request' = None
  /\ value' = stored' /\ savedVersion' = stored'
  /\ stack' = << >> /\ popup' = "hidden"
  /\ strayed' = FALSE /\ lapse' = NoLapse /\ early' = FALSE /\ hasty' = FALSE

\* The user comes back to the panel after an error.
Reopen(p) ==
  /\ gone /\ gone' = FALSE
  /\ entries' = <<p>> /\ pos' = 1 /\ content' = p /\ lastLoc' = p
  /\ UNCHANGED stored
  /\ Fresh

-----------------------------------------------------------------------------
(* What the server does: the load and error listeners of navigate. *)

\* The address saves the form: its own page's, or an action that does.
Saves == request.form # None /\ request.to \in Saving \cup {PageOf[request.form]}

\* What the server has after the request, ok unless the form was invalid (400) or its handler
\* failed (an error among the alerts).
Kept(ok) == IF ok /\ Saves THEN [stored EXCEPT ![request.form] = request.sent] ELSE stored

\* Mutant: lastLoc is only kept up with the history.
ArrivedPushed ==
  /\ lastLoc' = IF request.push THEN request.to ELSE lastLoc
  /\ IF request.push
       THEN /\ entries' = Recent(Append(SubSeq(entries, 1, pos), request.to))
            /\ pos' = Len(entries')
       ELSE UNCHANGED <<entries, pos>>

\* updateHistory, lastLoc.
Arrived ==
  /\ lastLoc' = request.to
  /\ IF request.push
       THEN /\ entries' = Recent(Append(SubSeq(entries, 1, pos), request.to))
            /\ pos' = Len(entries')
       ELSE UNCHANGED <<entries, pos>>

\* The answer to a form is another page than the form's.
LedAway == request.to \in Actions /\ Leads[request.to] # PageOf[request.form]

\* Mutant: the callback leaves the last one.
MoreThanOneToSave == request.chain /\ Len(stack) > 1

\* The callback of saveNext has another form to save.
MoreToSave == request.chain /\ stack # << >>

\* Only alerts are shown and the form stays as it is.  The callback of a form
\* saved by itself takes it off the stack, whatever its address and its answer were; that of
\* Save! posts the next one.
AnswerAlerts(ok) ==
  LET lapsed == IF ~ok THEN [lapse EXCEPT ![request.form] = "refused"]
                ELSE IF ~Saves THEN [lapse EXCEPT ![request.form] = "elsewhere"]
                ELSE lapse IN
  /\ request.form # None
  /\ ~ok \/ request.alerts
  /\ stored' = Kept(ok)
  /\ Arrived
  /\ IF MoreToSave
       THEN /\ SaveNext(TRUE)
            /\ lapse' = [lapsed EXCEPT ![Last(stack)] = "none"]
       ELSE /\ request' = None
            /\ lapse' = lapsed
            /\ IF request.chain
                 THEN popup' = PopupFor(stack) /\ UNCHANGED stack
                 ELSE Hide({request.form})
  /\ hasty' = (hasty /\ request' # None)
  /\ UNCHANGED <<content, gone, value, savedVersion, strayed, early>>

\* The page takes the place of the last one, its forms are tracked, and the
\* observers of the forms that went with the last one take them off the stack.
AnswerPage(ok) ==
  /\ ~request.alerts
  /\ stored' = Kept(ok)
  /\ Arrived
  /\ content' = PageAt(request.to)
  /\ value' = stored'
  /\ savedVersion' = stored'
  /\ Hide(Shown)
  /\ request' = None
  /\ strayed' = IF request.push THEN FALSE ELSE strayed \/ LedAway
  /\ lapse' = NoLapse /\ early' = FALSE /\ hasty' = FALSE
  /\ UNCHANGED gone

Answer ==
  /\ ~gone /\ currentlyLoading
  /\ \E ok \in BOOLEAN : AnswerPage(ok) \/ AnswerAlerts(ok)

\* Another status, or no answer: the browser leaves for "/", and what the forms held is
\* lost.  The server may have kept the one it was sent.
Fail ==
  /\ ~gone /\ currentlyLoading
  /\ gone' = TRUE
  /\ \E ok \in BOOLEAN : stored' = Kept(ok)
  /\ Fresh
  /\ UNCHANGED <<entries, pos, content, lastLoc>>

Next ==
  \/ \E p \in Pages : Click(p)
  \/ \E to \in 1..MaxEntries : Travel(to)
  \/ \E f \in Forms, v \in Values : Edit(f, v)
  \/ \E f \in Forms : Submit(f)
  \/ \E b \in Buttons : Press(b)
  \/ SaveOne
  \/ SaveAll
  \/ Answer
  \/ Fail
  \/ \E p \in Pages : Reopen(p)

\* A request ends: the browser reports its answer or its failure.
Fairness == WF_vars(Answer \/ Fail)

Spec == Init /\ [][Next]_vars /\ Fairness

-----------------------------------------------------------------------------
(* Properties. *)

TypeOK ==
  /\ entries \in BoundedSeq(Pages, MaxEntries) /\ pos \in DOMAIN entries
  /\ content \in Pages
  /\ lastLoc \in Address
  /\ request \in Requests \cup {None}
  /\ {value, savedVersion, stored} \subseteq [Forms -> Values]
  /\ stack \in Seq(Forms) /\ IsInjective(stack)
  /\ popup \in {"hidden", "offering", "saving"}
  /\ {gone, strayed, early, hasty} \subseteq BOOLEAN
  /\ lapse \in [Forms -> Lapses]

\* A form of the page that holds neither what the server has nor what it held
\* when it was shown is on the stack, and nothing is on the stack but forms of
\* the page that were changed.  Left out are the changes that the panel takes for saved
\* (submitForm's callback, saveUnsavedChanges), until the form is edited or posted again: of
\* a form that the server turned down, that was edited while the answer to its own submission
\* was awaited (not to Save! of several, whose callback posts it again), that Save! took off
\* the stack while another answer was awaited, or that was posted to another one's address.
ChangesTracked ==
  ~gone =>
    /\ Range(stack) \subseteq {f \in Shown : value[f] # savedVersion[f]}
    /\ ~currentlyLoading =>
         \A f \in Shown :
           lapse[f] = "none" /\ value[f] \notin {stored[f], savedVersion[f]} => f \in Range(stack)

\* With no request under way the popup is on the screen of a telephone exactly
\* while there is something to save, and its button can be pressed, whatever the server made
\* of the forms, unless Save! was last pressed while an answer was awaited: the button is
\* hidden then and no callback shows it again.
PopupTells ==
  ~gone /\ ~currentlyLoading =>
    /\ (popup = "hidden") = (stack = << >> \/ ~Mobile)
    /\ popup = "saving" => early

\* The address the browser shows is that of the page on the screen, and a form without an
\* action is posted to its own page, unless Back or Forward was pressed while an
\* answer was awaited, which navigate ignores while the address changes all the same, or a
\* button's answer was another page (such as the list, when a command is deleted), whose
\* address is not shown.
AddressMatches ==
  ~gone /\ ~strayed =>
    IF ~currentlyLoading
      THEN content = pathname
      ELSE request.form # None /\ request.to \in Pages => request.to = PageOf[request.form]

\* "You have unsaved changes on multiple forms, save them all?": once Save! is
\* pressed, each form on the stack is posted, whatever the server makes of
\* those before it, unless the panel is left for an error or the user goes on
\* editing meanwhile (saveNext takes the last form first).
SavesThemAll ==
  \A f \in Forms :
    currentlyLoading /\ request.chain /\ f \in Range(stack)
      ~> gone \/ hasty \/ (currentlyLoading /\ request.form = f)
=============================================================================
