--------------------------- MODULE ControlPanelProofs ---------------------------
(***************************************************************************)
(* The panel's own state, for any site, any values of its forms and any    *)
(* length of the browser's history: the address matches the page, changes  *)
(* are tracked, and the popup tells of them, however clicks, travels,      *)
(* edits and late, refusing or missing answers interleave.                 *)
(***************************************************************************)
EXTENDS ControlPanel, FilterProofs

-----------------------------------------------------------------------------
(* The stack of unsaved changes.                                           *)

Stack(s) == s \in Seq(Forms) /\ IsInjective(s)

LEMMA EmptyStack == ASSUME NEW s, Stack(s) PROVE s = << >> <=> Range(s) = {}
<1>1. Len(s) \in Nat /\ DOMAIN s = 1 .. Len(s) /\ (s # << >> => Len(s) # 0)
  BY LenProperties, EmptySeq DEF Stack
<1>2. Range(<< >>) = {}
  BY DEF Range
<1>3. s # << >> => 1 \in DOMAIN s
  BY <1>1
<1>4. QED
  BY <1>2, <1>3, Zenon DEF Range

LEMMA Pushed ==
  ASSUME NEW s, Stack(s), NEW f \in Forms, f \notin Range(s)
  PROVE  Stack(Append(s, f)) /\ Range(Append(s, f)) = Range(s) \cup {f} /\ Append(s, f) # << >>
<1> DEFINE t == Append(s, f)
<1>1. /\ t \in Seq(Forms) /\ Len(t) = Len(s) + 1 /\ Len(s) \in Nat /\ t # << >>
      /\ \A i \in 1 .. Len(s) : t[i] = s[i]
      /\ t[Len(s) + 1] = f
  BY AppendProperties, LenProperties DEF Stack
<1>2. DOMAIN s = 1 .. Len(s) /\ DOMAIN t = 1 .. Len(t)
  BY <1>1, LenProperties DEF Stack
<1> HIDE DEF t
<1>3. \A i : i \in DOMAIN t <=> i \in DOMAIN s \/ i = Len(s) + 1
  BY <1>1, <1>2
<1>4. \A i \in DOMAIN s : t[i] = s[i] /\ s[i] # f
  BY <1>1, <1>2 DEF Range
<1>5. Range(t) = Range(s) \cup {f}
  BY <1>1, <1>3, <1>4 DEF Range
<1>6. IsInjective(t)
  BY <1>1, <1>3, <1>4 DEF Stack, IsInjective
<1>7. QED
  BY <1>1, <1>5, <1>6 DEF Stack, t

LEMMA Popped ==
  ASSUME NEW s, Stack(s), s # << >>
  PROVE  /\ Stack(Front(s)) /\ Last(s) \in Range(s) /\ Last(s) \in Forms
         /\ Range(Front(s)) = Range(s) \ {Last(s)}
         /\ Len(s) > 1 => Front(s) # << >>
<1> DEFINE n == Len(s)
           t == Front(s)
<1>1. n \in Nat \ {0} /\ DOMAIN s = 1 .. n /\ \A i \in 1 .. n : s[i] \in Forms
  BY LenProperties, EmptySeq, ElementOfSeq DEF Stack
<1>2. /\ t \in Seq(Forms) /\ Len(t) = n - 1 /\ \A i \in 1 .. n - 1 : t[i] = s[i]
  <2>1. /\ SubSeq(s, 1, n - 1) \in Seq(Forms)
        /\ Len(SubSeq(s, 1, n - 1)) = IF 1 <= n - 1 THEN n - 1 - 1 + 1 ELSE 0
        /\ \A i \in 1 .. n - 1 - 1 + 1 : SubSeq(s, 1, n - 1)[i] = s[1 + i - 1]
    <3>1. 1 \in Int /\ n - 1 \in Int /\ \A i \in 1 .. n - 1 : s[i] \in Forms
      BY <1>1
    <3> HIDE DEF n
    <3>2. QED
      BY <3>1, SubSeqProperties
  <2>2. t = SubSeq(s, 1, n - 1)
    BY DEF Front
  <2> HIDE DEF n, t
  <2>3. QED
    BY <1>1, <2>1, <2>2
<1>3. DOMAIN t = 1 .. n - 1 /\ Last(s) = s[n]
  BY <1>2, LenProperties DEF Last
<1> HIDE DEF n, t
<1>4. \A i : i \in DOMAIN s <=> i \in DOMAIN t \/ i = n
  BY <1>1, <1>3
<1>5. \A i \in DOMAIN t : t[i] = s[i] /\ i # n
  BY <1>1, <1>2, <1>3
<1>6. \A i, j \in DOMAIN s : s[i] = s[j] => i = j
  BY DEF Stack, IsInjective
<1>7. Range(t) = Range(s) \ {Last(s)} /\ Last(s) \in Range(s)
  BY <1>3, <1>4, <1>5, <1>6 DEF Range
<1>8. IsInjective(t)
  BY <1>4, <1>5, <1>6 DEF IsInjective
<1>9. Last(s) \in Forms
  BY <1>1, <1>3
<1>10. n > 1 => t # << >>
  BY <1>1, <1>3
<1>11. QED
  BY <1>2, <1>7, <1>8, <1>9, <1>10 DEF Stack, n, t

LEMMA Filtered ==
  ASSUME NEW s, Stack(s), NEW F
  PROVE  Stack(Only(s, Forms \ F)) /\ Range(Only(s, Forms \ F)) = Range(s) \ F
<1>1. /\ Only(s, Forms \ F) \in Seq(Forms)
      /\ Range(Only(s, Forms \ F)) = Range(s) \cap (Forms \ F)
      /\ IsInjective(s) => IsInjective(Only(s, Forms \ F))
  BY OnlyProperties DEF Stack
<1>2. Range(s) \in SUBSET Forms
  BY RangeOfSeq DEF Stack
<1>3. QED
  BY <1>1, <1>2 DEF Stack

\* The one form of a stack.
LEMMA Lone ==
  ASSUME NEW s, Stack(s), Len(s) = 1
  PROVE  Range(s) = {s[1]} /\ s[1] \in Forms
<1>1. DOMAIN s = {1} /\ s[1] \in Forms
  BY LenProperties, ElementOfSeq DEF Stack
<1>2. QED
  BY <1>1 DEF Range

\* What showing and hiding the popup does to the stack.
LEMMA Showing ==
  ASSUME Stack(stack), NEW f \in Forms, Show(f)
  PROVE  /\ Stack(stack') /\ Range(stack') = Range(stack) \cup {f}
         /\ \/ f \in Range(stack) /\ UNCHANGED <<stack, popup>>
            \/ f \notin Range(stack) /\ stack' # << >> /\ popup' = PopupFor(stack')
<1>1. CASE f \in Range(stack)
  BY <1>1 DEF Show
<1>2. CASE f \notin Range(stack)
  <2>1. stack' = Append(stack, f) /\ popup' = PopupFor(stack')
    BY <1>2, Zenon DEF Show
  <2>2. QED
    BY <1>2, <2>1, Pushed
<1>3. QED
  BY <1>1, <1>2

LEMMA Hiding ==
  ASSUME Stack(stack), NEW F, Hide(F)
  PROVE  /\ Stack(stack') /\ Range(stack') = Range(stack) \ F
         /\ UNCHANGED <<stack, popup>> \/ popup' = PopupFor(stack')
<1>1. CASE F \cap Range(stack) = {}
  BY <1>1 DEF Hide
<1>2. CASE F \cap Range(stack) # {}
  <2>1. stack' = Only(stack, Forms \ F) /\ popup' = PopupFor(stack')
    BY <1>2, Zenon DEF Hide
  <2>2. QED
    BY <2>1, Filtered
<1>3. QED
  BY <1>1, <1>2

-----------------------------------------------------------------------------
(* Requests, and the browser's history.                                    *)

\* What a request is made of: only a form is posted with alerts or from a callback, and only a
\* page is pushed.
LEMMA RequestFields ==
  ASSUME NEW r \in Requests
  PROVE  /\ r # None /\ r.to \in Address /\ {r.push, r.alerts, r.chain} \subseteq BOOLEAN
         /\ r.form # None => r.form \in Forms /\ r.sent \in Values /\ ~r.push
         /\ r.form = None => r.to \in Pages /\ ~r.alerts /\ ~r.chain
<1>1. None \notin Forms /\ r # None
  BY NoneAssumption
<1>2. ASSUME r \in [to : Pages, form : {None}, sent : {None}, push : BOOLEAN, alerts : {FALSE}, chain : {FALSE}]
      PROVE  /\ r.to \in Address /\ {r.push, r.alerts, r.chain} \subseteq BOOLEAN
             /\ r.form = None /\ r.to \in Pages /\ ~r.alerts /\ ~r.chain
  BY <1>2 DEF Address
<1>3. ASSUME r \in [to : Address, form : Forms, sent : Values, push : {FALSE},
                    alerts : BOOLEAN, chain : BOOLEAN]
      PROVE  /\ r.to \in Address /\ {r.push, r.alerts, r.chain} \subseteq BOOLEAN
             /\ r.form \in Forms /\ r.sent \in Values /\ ~r.push
  BY <1>3
<1>4. QED
  BY <1>1, <1>2, <1>3, Zenon DEF Requests

LEMMA Getting ==
  ASSUME NEW p \in Pages, NEW push \in BOOLEAN
  PROVE  /\ Get(p, push) \in Requests /\ Get(p, push).to = p /\ Get(p, push).push = push
         /\ Get(p, push).form = None
<1>1. Get(p, push) \in [to : Pages, form : {None}, sent : {None}, push : BOOLEAN, alerts : {FALSE}, chain : {FALSE}]
  BY DEF Get
<1>2. QED
  BY <1>1 DEF Get, Requests

\* The browser's history has an entry for the page shown.
LEMMA Entries ==
  ASSUME TypeOK
  PROVE  /\ entries \in Seq(Pages) /\ DOMAIN entries = 1 .. Len(entries)
         /\ Len(entries) \in 0 .. MaxEntries /\ pos \in 1 .. Len(entries)
         /\ \A k \in DOMAIN entries : entries[k] \in Pages
<1>1. PICK m \in 0 .. MaxEntries : entries \in [1 .. m -> Pages]
  BY PanelAssumption DEF TypeOK, BoundedSeq, SeqOf
<1>2. entries \in Seq(Pages) /\ Len(entries) = m /\ DOMAIN entries = 1 .. m
  <2>1. m \in Nat
    BY <1>1, PanelAssumption
  <2>2. QED
    BY <1>1, <2>1
<1>3. QED
  BY <1>1, <1>2 DEF TypeOK

LEMMA Posting ==
  ASSUME TypeOK, NEW f \in Forms, NEW to \in Address, NEW alerts \in BOOLEAN, NEW chain \in BOOLEAN
  PROVE  Post(f, to, alerts, chain) \in Requests /\ Post(f, to, alerts, chain) # None
<1>1. value[f] \in Values
  BY DEF TypeOK
<1>2. Post(f, to, alerts, chain) \in [to : Address, form : Forms, sent : Values, push : {FALSE},
                                     alerts : BOOLEAN, chain : BOOLEAN]
  BY <1>1 DEF Post
<1>3. Post(f, to, alerts, chain) \in Requests
  BY <1>2, Zenon DEF Requests
<1>4. QED
  BY <1>3, NoneAssumption

\* Where a form may be posted: to an action, or to the address shown.
Destinations == Actions \cup {pathname}

LEMMA Targeted ==
  ASSUME TypeOK
  PROVE  Destinations \subseteq Address /\ \A f \in Forms : Target(f) \in Destinations
<1>1. pathname \in Pages
  BY Entries DEF pathname
<1>2. \A f \in Forms : ActionOf[f] # None => ActionOf[f] \in Actions
  BY PanelAssumption
<1>3. QED
  BY <1>1, <1>2 DEF Destinations, Address, Target

\* A form that is saved by itself.
LEMMA PostingAlone ==
  ASSUME TypeOK, NEW f \in Forms
  PROVE  LET r == Post(f, Target(f), f \in AlertsOnly, FALSE) IN
         /\ r \in Requests /\ r # None /\ r.form = f /\ r.to \in Destinations
         /\ r.sent = value[f] /\ ~r.chain /\ ~r.push
<1>1. (f \in AlertsOnly) \in BOOLEAN /\ FALSE \in BOOLEAN /\ Target(f) \in Destinations /\ Target(f) \in Address
  BY Targeted
<1> DEFINE r == Post(f, Target(f), f \in AlertsOnly, FALSE)
<1>2. r \in Requests /\ r # None
  BY <1>1, Posting, Zenon
<1>3. r.form = f /\ r.to = Target(f) /\ r.sent = value[f] /\ r.chain = FALSE /\ r.push = FALSE
  BY DEF Post
<1>4. QED
  BY <1>1, <1>2, <1>3

\* One that is posted by Save! of several.
LEMMA PostingNext ==
  ASSUME TypeOK, NEW f \in Forms
  PROVE  LET r == Post(f, Target(f), TRUE, TRUE) IN
         /\ r \in Requests /\ r # None /\ r.form = f /\ r.to \in Destinations
         /\ r.sent = value[f] /\ r.chain /\ r.alerts /\ ~r.push
<1>1. TRUE \in BOOLEAN /\ Target(f) \in Destinations /\ Target(f) \in Address
  BY Targeted
<1> DEFINE r == Post(f, Target(f), TRUE, TRUE)
<1>2. r \in Requests /\ r # None
  BY <1>1, Posting, Zenon
<1>3. r.form = f /\ r.to = Target(f) /\ r.sent = value[f] /\ r.chain /\ r.alerts /\ r.push = FALSE
  BY DEF Post
<1>4. QED
  BY <1>1, <1>2, <1>3

\* A form is submitted by itself or by a button.
LEMMA Submitted ==
  ASSUME TypeOK, (\E f \in Forms : Submit(f)) \/ (\E b \in Buttons : Press(b))
  PROVE  \E f \in Forms, to \in Destinations, alerts \in BOOLEAN : SubmitForm(f, to, alerts)
<1>1. ASSUME NEW f \in Forms, Submit(f)
      PROVE  \E to \in Destinations, alerts \in BOOLEAN : SubmitForm(f, to, alerts)
  <2>1. (f \in AlertsOnly) \in BOOLEAN /\ Target(f) \in Destinations
    BY Targeted
  <2>2. QED
    BY <1>1, <2>1, Zenon DEF Submit
<1>2. ASSUME NEW b \in Buttons, Press(b)
      PROVE  \E f \in Forms, to \in Destinations, alerts \in BOOLEAN : SubmitForm(f, to, alerts)
  <2>1. b.form \in Forms /\ b.action \in Destinations /\ (b.alerts \/ b.form \in AlertsOnly) \in BOOLEAN
    BY PanelAssumption DEF Destinations
  <2>2. QED
    BY <1>2, <2>1, Zenon DEF Press
<1>3. QED
  BY <1>1, <1>2

\* What its submission does.
LEMMA Submitting ==
  ASSUME TypeOK, NEW f \in Forms, NEW to \in Destinations, NEW alerts \in BOOLEAN, SubmitForm(f, to, alerts)
  PROVE  /\ ~gone /\ ~currentlyLoading /\ f \in Shown
         /\ request' \in Requests /\ request' # None /\ request'.form = f /\ request'.to = to
         /\ request'.sent = value[f] /\ ~request'.chain /\ ~request'.push
         /\ lapse' = [lapse EXCEPT ![f] = "none"]
         /\ UNCHANGED <<entries, pos, content, lastLoc, gone, strayed, early, hasty>>
         /\ UNCHANGED <<value, savedVersion, stored, stack, popup>>
<1>1. /\ ~gone /\ ~currentlyLoading /\ f \in Shown /\ request' = Post(f, to, alerts, FALSE)
      /\ lapse' = [lapse EXCEPT ![f] = "none"]
      /\ UNCHANGED <<entries, pos, content, lastLoc, gone, forms, strayed, early, hasty>>
  BY Zenon DEF SubmitForm
<1>2. to \in Address /\ FALSE \in BOOLEAN
  BY Targeted
<1>3. request' \in Requests /\ request' # None
  BY <1>1, <1>2, Posting, Zenon
<1>4. /\ request'.form = f /\ request'.to = to /\ request'.sent = value[f]
      /\ request'.chain = FALSE /\ request'.push = FALSE
  BY <1>1 DEF Post
<1>5. QED
  BY <1>1, <1>3, <1>4 DEF forms

\* An entry that is added becomes the last one, and the one shown.
LEMMA Adding ==
  ASSUME TypeOK, NEW p \in Pages
  PROVE  LET r == Recent(Append(SubSeq(entries, 1, pos), p)) IN
         r \in BoundedSeq(Pages, MaxEntries) /\ Len(r) \in DOMAIN r /\ r[Len(r)] = p
<1> DEFINE s == Append(SubSeq(entries, 1, pos), p)
           n == Len(s)
           first == Max({1, n - MaxEntries + 1})
           r == Recent(s)
<1>1. SubSeq(entries, 1, pos) \in Seq(Pages)
  <2>1. 1 \in Int /\ pos \in Int /\ \A i \in 1 .. pos : entries[i] \in Pages
    BY Entries
  <2>2. QED
    BY <2>1, SubSeqProperties
<1>2. s \in Seq(Pages) /\ n \in Nat \ {0} /\ s[n] = p /\ \A i \in 1 .. n : s[i] \in Pages
  <2>1. /\ s \in Seq(Pages) /\ Len(s) = Len(SubSeq(entries, 1, pos)) + 1 /\ s[Len(SubSeq(entries, 1, pos)) + 1] = p
    BY <1>1, AppendProperties
  <2>2. Len(SubSeq(entries, 1, pos)) \in Nat
    BY <1>1, LenProperties
  <2>3. \A i \in 1 .. Len(s) : s[i] \in Pages
    BY <2>1, ElementOfSeq
  <2>4. QED
    BY <2>1, <2>2, <2>3
<1> HIDE DEF s, n
<1>3. first \in 1 .. n /\ n - first + 1 <= MaxEntries
  <2>1. MaxEntries \in Nat \ {0}
    BY PanelAssumption
  <2> DEFINE m == n - MaxEntries + 1
  <2>2. m \in Int
    BY <1>2, <2>1
  <2>3. \E x \in {1, m} : \A y \in {1, m} : x >= y
    BY <2>2
  <2>4. first \in {1, m} /\ \A y \in {1, m} : first >= y
    <3>1. first = CHOOSE x \in {1, m} : \A y \in {1, m} : x >= y
      BY Zenon DEF Max
    <3> HIDE DEF first, m
    <3>2. QED
      BY <2>3, <3>1, Zenon
  <2> HIDE DEF first
  <2>5. QED
    BY <1>2, <2>1, <2>2, <2>4
<1> HIDE DEF first
<1>4. /\ r \in Seq(Pages) /\ Len(r) = n - first + 1
      /\ \A i \in 1 .. n - first + 1 : r[i] = s[first + i - 1]
  <2>1. r = SubSeq(s, first, n)
    BY Zenon DEF Recent, first, n
  <2>2. first \in Int /\ n \in Int /\ (\A i \in first .. n : s[i] \in Pages) /\ first <= n
    BY <1>2, <1>3
  <2>3. /\ SubSeq(s, first, n) \in Seq(Pages)
        /\ Len(SubSeq(s, first, n)) = IF first <= n THEN n - first + 1 ELSE 0
        /\ \A i \in 1 .. n - first + 1 : SubSeq(s, first, n)[i] = s[first + i - 1]
    BY <2>2, SubSeqProperties
  <2> HIDE DEF r
  <2>4. QED
    BY <2>1, <2>2, <2>3
<1> HIDE DEF r
<1>5. DOMAIN r = 1 .. Len(r) /\ r \in [1 .. Len(r) -> Pages] /\ Len(r) \in 1 .. MaxEntries
  BY <1>2, <1>3, <1>4, LenProperties
<1>6. Len(r) \in DOMAIN r /\ r[Len(r)] = p
  <2>1. Len(r) \in 1 .. n - first + 1 /\ first + Len(r) - 1 = n
    BY <1>2, <1>3, <1>4, <1>5
  <2>2. r[Len(r)] = s[first + Len(r) - 1]
    BY <1>4, <2>1
  <2>3. QED
    BY <1>2, <1>5, <2>1, <2>2
<1>7. r \in BoundedSeq(Pages, MaxEntries)
  <2>1. Len(r) \in 0 .. MaxEntries
    BY <1>5
  <2>2. QED
    BY <1>5, <2>1, Zenon DEF BoundedSeq, SeqOf
<1>8. QED
  BY <1>6, <1>7 DEF r, s

\* What the end of a request does to the address.
LEMMA Arriving ==
  ASSUME TypeOK, currentlyLoading, Arrived
  PROVE  /\ lastLoc' = request.to /\ lastLoc' \in Address
         /\ entries' \in BoundedSeq(Pages, MaxEntries) /\ pos' \in DOMAIN entries'
         /\ request.push => pathname' = request.to
         /\ ~request.push => UNCHANGED <<entries, pos>>
<1>1. request \in Requests
  BY DEF TypeOK, currentlyLoading
<1>2. request.to \in Address /\ request.push \in BOOLEAN /\ (request.push => request.to \in Pages)
  BY <1>1, RequestFields
<1>3. lastLoc' = request.to
  BY DEF Arrived
<1>4. CASE request.push
  <2>1. /\ entries' = Recent(Append(SubSeq(entries, 1, pos), request.to))
        /\ pos' = Len(entries')
    BY <1>4, Zenon DEF Arrived
  <2>2. entries' \in BoundedSeq(Pages, MaxEntries) /\ pos' \in DOMAIN entries' /\ entries'[pos'] = request.to
    BY <1>2, <1>4, <2>1, Adding
  <2>3. QED
    BY <1>2, <1>3, <1>4, <2>1, <2>2 DEF pathname
<1>5. CASE ~request.push
  BY <1>2, <1>3, <1>5 DEF Arrived, TypeOK
<1>6. QED
  BY <1>2, <1>4, <1>5

\* What the server keeps is what a form was sent with, and nothing of another one.
LEMMA Keeping ==
  ASSUME TypeOK, currentlyLoading, NEW ok
  PROVE  /\ Kept(ok) \in [Forms -> Values]
         /\ \A f \in Forms : f # request.form => Kept(ok)[f] = stored[f]
         /\ ok /\ Saves => Kept(ok)[request.form] = request.sent
<1>1. request.form # None => request.form \in Forms /\ request.sent \in Values
  BY RequestFields DEF TypeOK, currentlyLoading
<1>2. stored \in [Forms -> Values] /\ (Saves => request.form # None)
  BY DEF TypeOK, Saves
<1>3. Kept(ok) = IF ok /\ Saves THEN [stored EXCEPT ![request.form] = request.sent] ELSE stored
  BY Zenon DEF Kept
<1>4. QED
  BY <1>1, <1>2, <1>3

\* Of f no more was found amiss than before, and not by its own answer.
StillWell(f, ok) == lapse[f] = "none" /\ (f = request.form => ok /\ Saves)

\* How an answer that only shows alerts goes on: with the next form of Save!, without one, or with
\* its form off the stack.
LEMMA Alerted ==
  ASSUME TypeOK, currentlyLoading, NEW ok \in BOOLEAN, AnswerAlerts(ok)
  PROVE  /\ Stack(stack') /\ request.form \in Forms /\ lapse' \in [Forms -> Lapses]
         /\ \/ /\ request.chain /\ stack # << >> /\ popup' = "saving"
               /\ Last(stack) \in Range(stack) /\ Last(stack) \in Forms
               /\ Range(stack') = Range(stack) \ {Last(stack)}
               /\ request' = Post(Last(stack), Target(Last(stack)), TRUE, TRUE)
               /\ \A g \in Forms \ {Last(stack)} : lapse'[g] = "none" => StillWell(g, ok)
            \/ /\ request.chain /\ stack = << >> /\ stack' = stack
               /\ request' = None /\ popup' = PopupFor(stack)
               /\ \A g \in Forms : lapse'[g] = "none" => StillWell(g, ok)
            \/ /\ ~request.chain /\ request' = None
               /\ Range(stack') = Range(stack) \ {request.form}
               /\ UNCHANGED <<stack, popup>> \/ popup' = PopupFor(stack')
               /\ \A g \in Forms : lapse'[g] = "none" => StillWell(g, ok)
<1>1. Stack(stack)
  BY DEF TypeOK, Stack
<1>2. request.form \in Forms /\ request.chain \in BOOLEAN
  BY RequestFields DEF AnswerAlerts, TypeOK, currentlyLoading
<1> DEFINE lapsed == IF ~ok THEN [lapse EXCEPT ![request.form] = "refused"]
                     ELSE IF ~Saves THEN [lapse EXCEPT ![request.form] = "elsewhere"]
                     ELSE lapse
<1>3. IF MoreToSave THEN SaveNext(TRUE) /\ lapse' = [lapsed EXCEPT ![Last(stack)] = "none"]
      ELSE /\ request' = None /\ lapse' = lapsed
           /\ IF request.chain THEN popup' = PopupFor(stack) /\ UNCHANGED stack ELSE Hide({request.form})
  BY Zenon DEF AnswerAlerts
<1>4. lapsed \in [Forms -> Lapses] /\ \A g \in Forms : lapsed[g] = "none" => StillWell(g, ok)
  <2>1. lapse \in [Forms -> Lapses] /\ {"none", "refused", "elsewhere"} \subseteq Lapses
    BY DEF TypeOK, Lapses
  <2>2. CASE ~ok
    BY <1>2, <2>1, <2>2 DEF StillWell
  <2>3. CASE ok /\ ~Saves
    BY <1>2, <2>1, <2>3 DEF StillWell
  <2>4. CASE ok /\ Saves
    BY <2>1, <2>4 DEF StillWell
  <2>5. QED
    BY <2>2, <2>3, <2>4
<1> HIDE DEF lapsed
<1>5. CASE MoreToSave
  <2>1. request.chain /\ stack # << >>
    BY <1>5 DEF MoreToSave
  <2>2. /\ stack' = Front(stack) /\ popup' = "saving"
        /\ request' = Post(Last(stack), Target(Last(stack)), TRUE, TRUE)
        /\ lapse' = [lapsed EXCEPT ![Last(stack)] = "none"]
    BY <1>3, <1>5, Zenon DEF SaveNext
  <2>3. /\ Stack(stack') /\ Last(stack) \in Range(stack) /\ Last(stack) \in Forms
        /\ Range(stack') = Range(stack) \ {Last(stack)}
    BY <1>1, <2>1, <2>2, Popped
  <2>4. /\ lapse' \in [Forms -> Lapses]
        /\ \A g \in Forms \ {Last(stack)} : lapse'[g] = "none" => StillWell(g, ok)
    <3>1. PICK l \in Forms : l = Last(stack)
      BY <2>3
    <3>2. lapse' = [lapsed EXCEPT ![l] = "none"] /\ "none" \in Lapses
      BY <2>2, <3>1 DEF Lapses
    <3>3. lapse' \in [Forms -> Lapses] /\ \A g \in Forms \ {l} : lapse'[g] = lapsed[g]
      BY <1>4, <3>2
    <3>4. QED
      BY <1>4, <3>1, <3>3
  <2>5. QED
    BY <1>2, <2>1, <2>2, <2>3, <2>4
<1>6. CASE ~MoreToSave /\ request.chain
  <2>1. stack = << >> /\ request' = None /\ stack' = stack /\ popup' = PopupFor(stack) /\ lapse' = lapsed
    BY <1>3, <1>6, Zenon DEF MoreToSave
  <2>2. QED
    BY <1>1, <1>2, <1>4, <1>6, <2>1
<1>7. CASE ~MoreToSave /\ ~request.chain
  <2>1. request' = None /\ Hide({request.form}) /\ lapse' = lapsed
    BY <1>3, <1>7, Zenon
  <2>2. /\ Stack(stack') /\ Range(stack') = Range(stack) \ {request.form}
        /\ UNCHANGED <<stack, popup>> \/ popup' = PopupFor(stack')
    BY <1>1, <2>1, Hiding
  <2>3. QED
    BY <1>2, <1>4, <1>7, <2>1, <2>2
<1>8. QED
  BY <1>5, <1>6, <1>7

-----------------------------------------------------------------------------
(* The types.                                                              *)

LEMMA PopupType ==
  ASSUME TypeOK, NEW s
  PROVE  PopupFor(s) \in {"hidden", "offering", "saving"}
  BY DEF PopupFor, TypeOK

LEMMA LapseType == ASSUME TypeOK, NEW f \in Forms PROVE SaveLapse(f) \in [Forms -> Lapses]
  BY DEF TypeOK, Lapses, SaveLapse

LEMMA FreshType ==
  ASSUME Fresh, stored' \in [Forms -> Values]
  PROVE  /\ request' = None /\ {value', savedVersion', stored'} \subseteq [Forms -> Values]
         /\ stack' \in Seq(Forms) /\ IsInjective(stack') /\ popup' = "hidden"
         /\ {strayed', early', hasty'} \subseteq BOOLEAN /\ lapse' \in [Forms -> Lapses]
<1>1. << >> \in Seq(Forms) /\ IsInjective(<< >>)
  BY EmptySeq DEF IsInjective
<1>2. QED
  BY <1>1 DEF Fresh, NoLapse, Lapses

LEMMA UserTypes ==
  ASSUME TypeOK
  PROVE  /\ \A p \in Pages : Click(p) => TypeOK'
         /\ \A to \in 1 .. MaxEntries : Travel(to) => TypeOK'
         /\ \A f \in Forms, v \in Values : Edit(f, v) => TypeOK'
         /\ \A f \in Forms, to \in Destinations, alerts \in BOOLEAN : SubmitForm(f, to, alerts) => TypeOK'
         /\ SaveOne \/ SaveAll => TypeOK'
         /\ \A p \in Pages : Reopen(p) => TypeOK'
<1>1. ASSUME NEW p \in Pages, Click(p) PROVE TypeOK'
  <2>1. request' \in Requests
    BY <1>1, Getting DEF Click
  <2>2. QED
    BY <1>1, <2>1 DEF Click, forms, TypeOK
<1>2. ASSUME NEW to \in 1 .. MaxEntries, Travel(to) PROVE TypeOK'
  <2>1. to \in DOMAIN entries /\ entries[to] \in Pages
    BY <1>2, Entries DEF Travel
  <2>2. request' \in Requests \cup {None} /\ strayed' \in BOOLEAN
    BY <1>2, <2>1, Getting DEF Travel, TypeOK, currentlyLoading
  <2>3. QED
    BY <1>2, <2>1, <2>2 DEF Travel, forms, TypeOK
<1>3. ASSUME NEW f \in Forms, NEW v \in Values, Edit(f, v) PROVE TypeOK'
  <2>1. Stack(stack') /\ popup' \in {"hidden", "offering", "saving"}
    <3>1. Stack(stack) /\ (Show(f) \/ Hide({f}))
      BY <1>3, Zenon DEF Edit, TypeOK, Stack
    <3>2. Show(f) => Stack(stack') /\ (popup' = popup \/ popup' = PopupFor(stack'))
      BY <3>1, Showing
    <3>3. Hide({f}) => Stack(stack') /\ (popup' = popup \/ popup' = PopupFor(stack'))
      BY <3>1, Hiding
    <3>4. popup \in {"hidden", "offering", "saving"}
      BY DEF TypeOK
    <3>5. QED
      BY <3>1, <3>2, <3>3, <3>4, PopupType
  <2>2. value' = [value EXCEPT ![f] = v] /\ lapse' \in [Forms -> Lapses]
    <3>1. value' = [value EXCEPT ![f] = v] /\ \E x \in {"edited", "none"} : lapse' = [lapse EXCEPT ![f] = x]
      BY <1>3 DEF Edit
    <3>2. QED
      BY <3>1 DEF TypeOK, Lapses
  <2>3. hasty' \in BOOLEAN
    BY <1>3 DEF Edit, currentlyLoading, TypeOK
  <2>4. UNCHANGED <<entries, pos, content, lastLoc, request, gone, savedVersion, stored, strayed, early>>
    BY <1>3 DEF Edit, page
  <2>5. QED
    BY <2>1, <2>2, <2>3, <2>4 DEF Stack, TypeOK
<1>4. ASSUME NEW f \in Forms, NEW to \in Destinations, NEW alerts \in BOOLEAN, SubmitForm(f, to, alerts)
      PROVE  TypeOK'
  <2>1. lapse' \in [Forms -> Lapses]
    BY <1>4, Submitting DEF TypeOK, Lapses
  <2>2. QED
    BY <1>4, <2>1, Submitting DEF TypeOK
<1>5. ASSUME SaveOne PROVE TypeOK'
  <2>1. Stack(stack) /\ Len(stack) = 1
    BY <1>5 DEF SaveOne, TypeOK, Stack
  <2>2. stack[1] \in Forms
    BY <2>1, Lone
  <2>3. request' \in Requests \cup {None}
    <3>1. request' = IF currentlyLoading THEN request
                     ELSE Post(stack[1], Target(stack[1]), stack[1] \in AlertsOnly, FALSE)
      BY <1>5, Zenon DEF SaveOne
    <3>2. Post(stack[1], Target(stack[1]), stack[1] \in AlertsOnly, FALSE) \in Requests
      BY <2>2, PostingAlone, Zenon
    <3>3. QED
      BY <3>1, <3>2, Zenon DEF TypeOK
  <2>4. stack' = << >> /\ popup' = PopupFor(stack') /\ lapse' = SaveLapse(stack[1])
    BY <1>5 DEF SaveOne
  <2>5. {early', hasty'} \subseteq BOOLEAN /\ lapse' \in [Forms -> Lapses]
    BY <1>5, <2>2, <2>4, LapseType DEF SaveOne, currentlyLoading
  <2>6. stack' \in Seq(Forms) /\ IsInjective(stack') /\ popup' \in {"hidden", "offering", "saving"}
    BY <2>4, EmptySeq, PopupType DEF IsInjective
  <2>7. UNCHANGED <<entries, pos, content, lastLoc, gone, value, savedVersion, stored, strayed>>
    BY <1>5 DEF SaveOne
  <2>8. QED
    BY <2>2, <2>3, <2>4, <2>5, <2>6, <2>7 DEF TypeOK
<1>6. ASSUME SaveAll PROVE TypeOK'
  <2>1. Stack(stack) /\ stack # << >>
    BY <1>6, EmptySeq DEF SaveAll, TypeOK, Stack
  <2>2. Stack(Front(stack)) /\ Last(stack) \in Forms
    BY <2>1, Popped
  <2>3. stack' = Front(stack) /\ popup' = "saving" /\ lapse' = SaveLapse(Last(stack))
    BY <1>6, Zenon DEF SaveAll, SaveNext
  <2>4. request' \in Requests \cup {None}
    <3>1. request' = IF ~currentlyLoading THEN Post(Last(stack), Target(Last(stack)), TRUE, TRUE)
                     ELSE request
      BY <1>6, Zenon DEF SaveAll, SaveNext
    <3>2. Post(Last(stack), Target(Last(stack)), TRUE, TRUE) \in Requests
      BY <2>2, PostingNext
    <3>3. QED
      BY <3>1, <3>2, Zenon DEF TypeOK
  <2>5. {early', hasty'} \subseteq BOOLEAN /\ lapse' \in [Forms -> Lapses]
    BY <1>6, <2>2, <2>3, LapseType DEF SaveAll, currentlyLoading
  <2>6. UNCHANGED <<entries, pos, content, lastLoc, gone, value, savedVersion, stored, strayed>>
    BY <1>6 DEF SaveAll
  <2>7. QED
    BY <2>2, <2>3, <2>4, <2>5, <2>6 DEF Stack, TypeOK
<1>7. ASSUME NEW p \in Pages, Reopen(p) PROVE TypeOK'
  <2>1. <<p>> \in BoundedSeq(Pages, MaxEntries) /\ 1 \in DOMAIN <<p>>
    <3>1. <<p>> \in [1 .. 1 -> Pages] /\ DOMAIN <<p>> = 1 .. 1 /\ 1 \in 0 .. MaxEntries
      BY PanelAssumption
    <3>2. QED
      BY <3>1 DEF BoundedSeq, SeqOf
  <2>2. QED
    BY <1>7, <2>1, FreshType DEF Reopen, TypeOK, Address
<1>8. QED
  BY <1>1, <1>2, <1>3, <1>4, <1>5, <1>6, <1>7

LEMMA ServerTypes ==
  ASSUME TypeOK, Answer \/ Fail
  PROVE  TypeOK'
<1>1. currentlyLoading /\ request \in Requests
  BY DEF Answer, Fail, TypeOK, currentlyLoading
<1>2. ASSUME NEW ok \in BOOLEAN, AnswerPage(ok) PROVE TypeOK'
  <2>1. Stack(stack') /\ popup' \in {"hidden", "offering", "saving"}
    <3>1. Stack(stack) /\ Hide(Shown)
      BY <1>2, Zenon DEF AnswerPage, TypeOK, Stack
    <3>2. Stack(stack') /\ (popup' = popup \/ popup' = PopupFor(stack'))
      BY <3>1, Hiding
    <3>3. popup \in {"hidden", "offering", "saving"}
      BY DEF TypeOK
    <3>4. QED
      BY <3>2, <3>3, PopupType
  <2>2. lastLoc' \in Address /\ entries' \in BoundedSeq(Pages, MaxEntries) /\ pos' \in DOMAIN entries'
    BY <1>1, <1>2, Arriving DEF AnswerPage
  <2>3. stored' \in [Forms -> Values] /\ value' = stored' /\ savedVersion' = stored'
    BY <1>1, <1>2, Keeping DEF AnswerPage
  <2>4. content' \in Pages
    <3>1. request.to \in Address
      BY <1>1, RequestFields
    <3>2. QED
      BY <1>2, <3>1, PanelAssumption DEF AnswerPage, PageAt, Address
  <2>5. /\ request' = None /\ lapse' = NoLapse /\ early' = FALSE /\ hasty' = FALSE /\ gone' = gone
        /\ strayed' = IF request.push THEN FALSE ELSE strayed \/ LedAway
    BY <1>2 DEF AnswerPage
  <2>6. strayed' \in BOOLEAN /\ lapse' \in [Forms -> Lapses]
    BY <2>5 DEF NoLapse, Lapses
  <2>7. QED
    BY <2>1, <2>2, <2>3, <2>4, <2>5, <2>6 DEF Stack, TypeOK
<1>3. ASSUME NEW ok \in BOOLEAN, AnswerAlerts(ok) PROVE TypeOK'
  <2>1. /\ Stack(stack') /\ request' \in Requests \cup {None}
        /\ popup' \in {"hidden", "offering", "saving"}
    <3>1. /\ Stack(stack')
          /\ \/ /\ popup' = "saving" /\ Last(stack) \in Forms
                /\ request' = Post(Last(stack), Target(Last(stack)), TRUE, TRUE)
             \/ request' = None /\ \E s : popup' = PopupFor(s)
             \/ request' = None /\ popup' = popup
      BY <1>1, <1>3, Alerted
    <3>2. Last(stack) \in Forms => Post(Last(stack), Target(Last(stack)), TRUE, TRUE) \in Requests
      BY PostingNext
    <3>3. popup \in {"hidden", "offering", "saving"}
      BY DEF TypeOK
    <3>4. QED
      BY <3>1, <3>2, <3>3, PopupType
  <2>2. lastLoc' \in Address /\ entries' \in BoundedSeq(Pages, MaxEntries) /\ pos' \in DOMAIN entries'
    BY <1>1, <1>3, Arriving DEF AnswerAlerts
  <2>3. stored' \in [Forms -> Values]
    BY <1>1, <1>3, Keeping DEF AnswerAlerts
  <2>4. lapse' \in [Forms -> Lapses]
    BY <1>1, <1>3, Alerted
  <2>5. hasty' \in BOOLEAN /\ UNCHANGED <<content, gone, value, savedVersion, strayed, early>>
    BY <1>3 DEF AnswerAlerts, TypeOK
  <2>6. QED
    BY <2>1, <2>2, <2>3, <2>4, <2>5 DEF Stack, TypeOK
<1>4. CASE Fail
  <2>1. stored' \in [Forms -> Values]
    BY <1>1, <1>4, Keeping DEF Fail
  <2>2. QED
    BY <1>4, <2>1, FreshType DEF Fail, TypeOK
<1>5. QED
  BY <1>2, <1>3, <1>4 DEF Answer

LEMMA TypeInit == Init => TypeOK
<1> SUFFICES ASSUME Init PROVE TypeOK
  OBVIOUS
<1>1. entries \in BoundedSeq(Pages, MaxEntries) /\ pos \in DOMAIN entries
  <2>1. <<content>> \in [1 .. 1 -> Pages] /\ DOMAIN <<content>> = 1 .. 1 /\ 1 \in 0 .. MaxEntries
    BY PanelAssumption DEF Init
  <2>2. QED
    BY <2>1 DEF Init, BoundedSeq, SeqOf
<1>2. << >> \in Seq(Forms) /\ IsInjective(<< >>)
  BY EmptySeq DEF IsInjective
<1>3. QED
  BY <1>1, <1>2 DEF Init, TypeOK, Address, NoLapse, Lapses

LEMMA TypeStep == TypeOK /\ [Next]_vars => TypeOK'
<1> SUFFICES ASSUME TypeOK, [Next]_vars PROVE TypeOK'
  OBVIOUS
<1>1. CASE UNCHANGED vars
  BY <1>1 DEF vars, page, forms, history, TypeOK
<1>2. CASE Next
  BY <1>2, UserTypes, ServerTypes, Submitted DEF Next
<1>3. QED
  BY <1>1, <1>2

\* Every variable of the panel keeps its type: no form is on the stack twice, and the browser's
\* history always has an entry for the page shown.
THEOREM TypeTheorem == Spec => []TypeOK
  BY TypeInit, TypeStep, PTL DEF Spec

-----------------------------------------------------------------------------
(* Changes are tracked.                                                    *)

Unsaved(f) == value[f] \notin {stored[f], savedVersion[f]}

\* What f holds is on its way to the server, or Save! goes on with f if it was changed since.
Carried(f) == \/ request.sent = value[f]
              \/ request.chain /\ (f \in Range(stack) \/ value[f] = savedVersion[f])

\* While an answer is awaited a changed form may be off the stack because it is just being saved.
Tracked(f) == lapse[f] = "none" =>
                /\ Unsaved(f) => f \in Range(stack) \/ Awaited(f)
                /\ Awaited(f) => Carried(f)

TrackedInv == ~gone => /\ currentlyLoading /\ request.form # None => request.form \in Shown
                       /\ Range(stack) \subseteq {f \in Shown : value[f] # savedVersion[f]}
                       /\ \A f \in Shown : Tracked(f)

\* f is left alone, but for a request for another form or page.
Alone(f) == /\ lapse'[f] = lapse[f]
            /\ f \in Range(stack) => f \in Range(stack')
            /\ request' = request \/ (~Awaited(f) /\ ~Awaited(f)')

\* A form is left alone, is sent, or has a lapse.
LEMMA Leaving ==
  ASSUME TypeOK, TrackedInv, ~gone, UNCHANGED <<content, value, savedVersion, stored>>,
         currentlyLoading' /\ request'.form # None => request'.form \in Shown,
         Range(stack') \subseteq Range(stack),
         \A f \in Forms : \/ lapse'[f] # "none"
                          \/ Awaited(f)' /\ request'.sent = value[f]
                          \/ Alone(f)
  PROVE  TrackedInv'
<1>1. Shown' = Shown /\ Shown \subseteq Forms /\ \A f : Unsaved(f)' <=> Unsaved(f)
  BY DEF Shown, Unsaved
<1>2. ASSUME NEW f \in Shown, Alone(f) PROVE Tracked(f)'
  <2>1. CASE request' = request
    BY <1>1, <1>2, <2>1 DEF Alone, TrackedInv, Tracked, Carried, Awaited, currentlyLoading
  <2>2. CASE ~Awaited(f) /\ ~Awaited(f)'
    BY <1>1, <1>2, <2>2 DEF Alone, TrackedInv, Tracked
  <2>3. QED
    BY <1>2, <2>1, <2>2 DEF Alone
<1>3. ASSUME NEW f \in Shown, Awaited(f)', request'.sent = value[f] PROVE Tracked(f)'
  BY <1>3 DEF Tracked, Carried
<1>4. \A f \in Shown : Tracked(f)'
  BY <1>1, <1>2, <1>3 DEF Tracked
<1>5. QED
  BY <1>1, <1>4 DEF TrackedInv

LEMMA UserTracked ==
  ASSUME TypeOK, TypeOK', TrackedInv
  PROVE  /\ \A p \in Pages : Click(p) => TrackedInv'
         /\ \A to \in 1 .. MaxEntries : Travel(to) => TrackedInv'
         /\ \A f \in Forms, to \in Destinations, alerts \in BOOLEAN : SubmitForm(f, to, alerts) => TrackedInv'
         /\ SaveOne \/ SaveAll => TrackedInv'
<1>1. ASSUME NEW p \in Pages, Click(p) PROVE TrackedInv'
  <2>1. ~gone /\ ~currentlyLoading /\ request' = Get(p, TRUE) /\ Get(p, TRUE).form = None
    BY <1>1, Getting DEF Click
  <2>2. UNCHANGED <<content, value, savedVersion, stored, stack, lapse>>
    BY <1>1 DEF Click, forms
  <2>3. \A f \in Forms : Alone(f)
    BY <2>1, <2>2, NoneAssumption DEF Alone, Awaited
  <2>4. QED
    BY <2>1, <2>2, <2>3, Leaving
<1>2. ASSUME NEW to \in 1 .. MaxEntries, Travel(to) PROVE TrackedInv'
  <2>1. entries[to] \in Pages
    BY <1>2, Entries DEF Travel
  <2>2. ~gone /\ (request' = request \/ (~currentlyLoading /\ request' = Get(entries[to], FALSE)))
    BY <1>2, Zenon DEF Travel
  <2>3. Get(entries[to], FALSE).form = None
    BY <2>1, Getting
  <2>4. UNCHANGED <<content, value, savedVersion, stored, stack, lapse>>
    BY <1>2 DEF Travel, forms
  <2>5. \A f \in Forms : Alone(f)
    BY <2>2, <2>3, <2>4, NoneAssumption DEF Alone, Awaited
  <2>6. QED
    BY <2>2, <2>3, <2>4, <2>5, Leaving DEF TrackedInv, currentlyLoading
<1>3. ASSUME NEW f \in Forms, NEW to \in Destinations, NEW alerts \in BOOLEAN, SubmitForm(f, to, alerts)
      PROVE  TrackedInv'
  <2>1. /\ ~gone /\ ~currentlyLoading /\ f \in Shown
        /\ request' # None /\ request'.form = f /\ request'.sent = value[f]
        /\ lapse' = [lapse EXCEPT ![f] = "none"]
        /\ UNCHANGED <<content, value, savedVersion, stored, stack>>
    BY <1>3, Submitting
  <2>2. Awaited(f)'
    BY <2>1 DEF Awaited, currentlyLoading
  <2>3. \A g \in Forms \ {f} : Alone(g)
    BY <2>1 DEF Alone, Awaited, TypeOK
  <2>4. QED
    BY <2>1, <2>2, <2>3, Leaving
<1>4. ASSUME NEW f \in Forms, ~gone, f \in Range(stack), Range(stack') = Range(stack) \ {f},
             UNCHANGED <<content, value, savedVersion, stored>>, lapse' = SaveLapse(f),
             IF currentlyLoading THEN request' = request
             ELSE request' # None /\ request'.form = f /\ request'.sent = value[f]
      PROVE  TrackedInv'
  <2>1. f \in Shown
    BY <1>4 DEF TrackedInv
  <2>2. \A g \in Forms \ {f} : lapse'[g] = lapse[g] /\ (g \in Range(stack) => g \in Range(stack'))
    BY <1>4 DEF SaveLapse, TypeOK
  <2>3. CASE currentlyLoading
    <3>1. request' = request /\ lapse'[f] # "none"
      BY <1>4, <2>3 DEF SaveLapse, TypeOK
    <3>2. \A g \in Forms \ {f} : Alone(g)
      BY <2>2, <3>1 DEF Alone
    <3>3. currentlyLoading' /\ request'.form # None => request'.form \in Shown
      BY <1>4, <3>1 DEF TrackedInv, currentlyLoading
    <3>4. QED
      BY <1>4, <3>1, <3>2, <3>3, Leaving
  <2>4. CASE ~currentlyLoading
    <3>1. request' # None /\ request'.form = f /\ request'.sent = value[f]
      BY <1>4, <2>4
    <3>2. Awaited(f)'
      BY <3>1 DEF Awaited, currentlyLoading
    <3>3. \A g \in Forms \ {f} : Alone(g)
      BY <2>2, <2>4, <3>1 DEF Alone, Awaited
    <3>4. QED
      BY <1>4, <2>1, <3>1, <3>2, <3>3, Leaving
  <2>5. QED
    BY <2>3, <2>4
<1>5. ASSUME SaveOne PROVE TrackedInv'
  <2>1. Stack(stack) /\ Len(stack) = 1 /\ ~gone /\ stack' = << >>
    BY <1>5 DEF SaveOne, TypeOK, Stack
  <2>2. PICK f \in Forms : f = stack[1] /\ Range(stack) = {f}
    BY <2>1, Lone
  <2>3. /\ request' = IF currentlyLoading THEN request ELSE Post(f, Target(f), f \in AlertsOnly, FALSE)
        /\ lapse' = SaveLapse(f)
        /\ UNCHANGED <<content, value, savedVersion, stored>>
    BY <1>5, <2>2, Zenon DEF SaveOne
  <2>4. LET r == Post(f, Target(f), f \in AlertsOnly, FALSE) IN
        r.form = f /\ r # None /\ r.sent = value[f]
    BY PostingAlone, Zenon
  <2>5. Range(stack') = {}
    BY <2>1 DEF Range
  <2>6. IF currentlyLoading THEN request' = request
        ELSE request' # None /\ request'.form = f /\ request'.sent = value[f]
    BY <2>3, <2>4, Zenon
  <2>7. f \in Range(stack) /\ Range(stack') = Range(stack) \ {f}
    BY <2>2, <2>5
  <2>8. QED
    BY <1>4, <2>1, <2>3, <2>6, <2>7, Zenon
<1>6. ASSUME SaveAll PROVE TrackedInv'
  <2>1. Stack(stack) /\ stack # << >> /\ ~gone
    BY <1>6, EmptySeq DEF SaveAll, TypeOK, Stack
  <2>2. PICK f \in Forms : f = Last(stack) /\ f \in Range(stack) /\ Range(Front(stack)) = Range(stack) \ {f}
    BY <2>1, Popped
  <2>3. /\ request' = IF ~currentlyLoading THEN Post(f, Target(f), TRUE, TRUE) ELSE request
        /\ lapse' = SaveLapse(f)
        /\ Range(stack') = Range(stack) \ {f}
        /\ UNCHANGED <<content, value, savedVersion, stored>>
    BY <1>6, <2>2, Zenon DEF SaveAll, SaveNext
  <2>4. LET r == Post(f, Target(f), TRUE, TRUE) IN r.form = f /\ r # None /\ r.sent = value[f]
    BY PostingNext, Zenon
  <2>5. IF currentlyLoading THEN request' = request
        ELSE request' # None /\ request'.form = f /\ request'.sent = value[f]
    BY <2>3, <2>4, Zenon
  <2>6. QED
    BY <1>4, <2>1, <2>2, <2>3, <2>5, Zenon
<1>7. QED
  BY <1>1, <1>2, <1>3, <1>5, <1>6

\* A change puts the form on the stack, or takes it off when it is undone.
LEMMA EditTracked ==
  ASSUME TypeOK, TypeOK', TrackedInv, NEW f \in Forms, NEW v \in Values, Edit(f, v)
  PROVE  TrackedInv'
<1>1. /\ ~gone /\ f \in Shown /\ Stack(stack)
      /\ value' = [value EXCEPT ![f] = v]
      /\ lapse' = [lapse EXCEPT ![f] = IF Awaited(f) /\ ~request.chain THEN "edited" ELSE "none"]
      /\ UNCHANGED <<content, request, gone, savedVersion, stored>>
  BY DEF Edit, page, TypeOK, Stack
<1>2. /\ value'[f] = v /\ \A g \in Forms \ {f} : value'[g] = value[g] /\ lapse'[g] = lapse[g]
      /\ Shown' = Shown /\ Shown \subseteq Forms
  BY <1>1 DEF TypeOK, Shown
<1>3. \A g \in Forms \ {f} : Unsaved(g)' <=> Unsaved(g)
  BY <1>1, <1>2 DEF Unsaved
<1>4. \A g : Awaited(g)' <=> Awaited(g)
  BY <1>1 DEF Awaited, currentlyLoading
<1>5. lapse'[f] = "none" /\ Awaited(f) => request.chain
  BY <1>1 DEF TypeOK
<1>6. ASSUME Range(stack') \cap (Forms \ {f}) = Range(stack) \cap (Forms \ {f}),
             f \in Range(stack') <=> value'[f] # savedVersion[f]
      PROVE  TrackedInv'
  <2>1. Tracked(f)'
    BY <1>1, <1>4, <1>5, <1>6 DEF Tracked, Carried, Unsaved
  <2>2. \A g \in Shown \ {f} : Tracked(g)'
    <3>1. ASSUME NEW g \in Shown \ {f} PROVE Tracked(g)'
      <4>1. Tracked(g) /\ (g \in Range(stack') <=> g \in Range(stack))
        BY <1>1, <1>2, <1>6 DEF TrackedInv
      <4>2. QED
        BY <1>1, <1>2, <1>3, <1>4, <4>1 DEF Tracked, Carried
    <3>2. QED
      BY <3>1
  <2>3. Range(stack') \subseteq Forms
    BY RangeOfSeq DEF TypeOK
  <2>4. Range(stack') \subseteq {g \in Shown' : value'[g] # savedVersion'[g]}
    BY <1>1, <1>2, <1>6, <2>3 DEF TrackedInv
  <2>5. QED
    BY <1>1, <1>2, <2>1, <2>2, <2>4 DEF TrackedInv, currentlyLoading
<1>7. CASE v # savedVersion[f]
  <2>1. Show(f)
    BY <1>7, Zenon DEF Edit
  <2>2. Range(stack') = Range(stack) \cup {f}
    BY <1>1, <2>1, Showing
  <2>3. QED
    BY <1>2, <1>6, <1>7, <2>2
<1>8. CASE v = savedVersion[f]
  <2>1. Hide({f})
    BY <1>8, Zenon DEF Edit
  <2>2. Range(stack') = Range(stack) \ {f}
    BY <1>1, <2>1, Hiding
  <2>3. QED
    BY <1>2, <1>6, <1>8, <2>2
<1>9. QED
  BY <1>7, <1>8

\* An answer that is not a page changes what the server has of one form: to what the form holds, or
\* to what it held before Save! went on with it.
LEMMA AlertsTracked ==
  ASSUME TypeOK, TrackedInv, ~gone, currentlyLoading, NEW ok \in BOOLEAN, AnswerAlerts(ok)
  PROVE  TrackedInv'
<1>1. PICK f \in Forms : f = request.form
  BY Alerted
<1>2. stored' = Kept(ok) /\ UNCHANGED <<content, gone, value, savedVersion>>
  BY Zenon DEF AnswerAlerts
<1>3. /\ \A g \in Forms \ {f} : (Unsaved(g)' <=> Unsaved(g)) /\ ~Awaited(g)
      /\ Shown' = Shown /\ Shown \subseteq Forms /\ f \in Shown /\ Awaited(f)
  <2>1. \A g \in Forms \ {f} : stored'[g] = stored[g]
    BY <1>1, <1>2, Keeping
  <2>2. f # None
    BY NoneAssumption
  <2>3. f \in Shown
    BY <1>1, <2>2 DEF TrackedInv
  <2>4. QED
    BY <1>1, <1>2, <2>1, <2>3 DEF Unsaved, Shown, Awaited
<1>4. StillWell(f, ok) /\ Unsaved(f)' => request.chain /\ f \in Range(stack)
  <2> SUFFICES ASSUME StillWell(f, ok), Unsaved(f)' PROVE request.chain /\ f \in Range(stack)
    OBVIOUS
  <2>1. stored'[f] = request.sent
    BY <1>1, <1>2, Keeping DEF StillWell
  <2>2. Carried(f)
    BY <1>3 DEF StillWell, TrackedInv, Tracked
  <2>3. QED
    BY <1>2, <2>1, <2>2 DEF Carried, Unsaved
<1>5. ASSUME NEW g \in Shown, StillWell(g, ok), Unsaved(g)'
      PROVE  g \in Range(stack) /\ (g = f => request.chain)
  BY <1>3, <1>4, <1>5 DEF StillWell, TrackedInv, Tracked
<1>6. CASE /\ request.chain /\ stack # << >> /\ Last(stack) \in Range(stack) /\ Last(stack) \in Forms
           /\ Range(stack') = Range(stack) \ {Last(stack)}
           /\ request' = Post(Last(stack), Target(Last(stack)), TRUE, TRUE)
           /\ \A g \in Forms \ {Last(stack)} : lapse'[g] = "none" => StillWell(g, ok)
  <2>1. PICK g \in Forms : g = Last(stack)
    BY <1>6
  <2>2. /\ request' = Post(g, Target(g), TRUE, TRUE) /\ Range(stack') = Range(stack) \ {g} /\ g \in Range(stack)
        /\ \A h \in Forms \ {g} : lapse'[h] = "none" => StillWell(h, ok)
    BY <1>6, <2>1
  <2>3. request'.form = g /\ request'.sent = value[g] /\ request' # None
    BY <2>2, PostingNext
  <2>4. Awaited(g)' /\ \A h \in Forms \ {g} : ~Awaited(h)'
    BY <2>3 DEF Awaited, currentlyLoading
  <2>5. g \in Shown
    BY <2>2 DEF TrackedInv
  <2>6. Tracked(g)'
    BY <1>2, <2>3, <2>4 DEF Tracked, Carried
  <2>7. \A h \in Shown \ {g} : Tracked(h)'
    BY <1>3, <1>5, <2>2, <2>4 DEF Tracked
  <2>8. QED
    BY <1>2, <1>3, <2>2, <2>3, <2>5, <2>6, <2>7 DEF TrackedInv
<1>7. CASE /\ request.chain /\ stack = << >> /\ stack' = stack /\ request' = None
           /\ \A g \in Forms : lapse'[g] = "none" => StillWell(g, ok)
  <2>1. ~currentlyLoading' /\ \A g : ~Awaited(g)'
    BY <1>7 DEF currentlyLoading, Awaited
  <2>2. \A g \in Shown : Tracked(g)'
    BY <1>3, <1>5, <1>7, <2>1 DEF Tracked
  <2>3. QED
    BY <1>2, <1>3, <1>7, <2>1, <2>2 DEF TrackedInv
<1>8. CASE /\ ~request.chain /\ Range(stack') = Range(stack) \ {f} /\ request' = None
           /\ \A g \in Forms : lapse'[g] = "none" => StillWell(g, ok)
  <2>1. ~currentlyLoading' /\ \A g : ~Awaited(g)'
    BY <1>8 DEF currentlyLoading, Awaited
  <2>2. \A g \in Shown : Tracked(g)'
    BY <1>3, <1>5, <1>8, <2>1 DEF Tracked
  <2>3. QED
    BY <1>2, <1>3, <1>8, <2>1, <2>2 DEF TrackedInv
<1>9. QED
  BY <1>1, <1>6, <1>7, <1>8, Alerted

\* A page brings forms that hold what the server has, and leaves none on the stack.
LEMMA PageTracked ==
  ASSUME TypeOK, TrackedInv, ~gone, NEW ok \in BOOLEAN, AnswerPage(ok)
  PROVE  TrackedInv' /\ Range(stack') = {}
<1>1. Stack(stack) /\ Hide(Shown) /\ request' = None /\ value' = stored'
  BY Zenon DEF AnswerPage, TypeOK, Stack
<1>2. Range(stack') = {}
  <2>1. Range(stack') = Range(stack) \ Shown
    BY <1>1, Hiding
  <2>2. QED
    BY <2>1 DEF TrackedInv
<1>3. \A f : ~Unsaved(f)' /\ ~Awaited(f)'
  BY <1>1 DEF Unsaved, Awaited, currentlyLoading
<1>4. QED
  BY <1>1, <1>2, <1>3 DEF TrackedInv, Tracked, currentlyLoading

LEMMA TrackedStep == TypeOK /\ TypeOK' /\ TrackedInv /\ [Next]_vars => TrackedInv'
<1> SUFFICES ASSUME TypeOK, TypeOK', TrackedInv, [Next]_vars PROVE TrackedInv'
  OBVIOUS
<1>1. CASE Answer
  BY <1>1, AlertsTracked, PageTracked DEF Answer
<1>2. CASE Fail
  BY <1>2 DEF Fail, TrackedInv
<1>3. ASSUME NEW p \in Pages, Reopen(p) PROVE TrackedInv'
  <2>1. value' = stored' /\ stack' = << >> /\ request' = None
    BY <1>3 DEF Reopen, Fresh
  <2>2. Range(stack') = {} /\ ~currentlyLoading' /\ \A f : ~Unsaved(f)' /\ ~Awaited(f)'
    BY <2>1 DEF Range, currentlyLoading, Unsaved, Awaited
  <2>3. QED
    BY <2>1, <2>2 DEF TrackedInv, Tracked
<1>4. CASE UNCHANGED vars
  BY <1>4 DEF vars, page, forms, history, TrackedInv, currentlyLoading, Shown, Tracked, Carried, Unsaved,
     Awaited
<1>5. QED
  BY <1>1, <1>2, <1>3, <1>4, UserTracked, EditTracked, Submitted DEF Next

LEMMA TrackedInvariant == Spec => [](TypeOK /\ TrackedInv)
<1>1. Init => TrackedInv
  BY DEF Init, TrackedInv, Tracked, currentlyLoading, Range, Unsaved, Awaited
<1>2. QED
  BY <1>1, TypeInit, TypeStep, TrackedStep, PTL DEF Spec

\* A form that holds neither what the server has nor what it held when it was shown is offered to be
\* saved, and nothing else is: through edits, Save! of several, buttons and pages that change, but for
\* a form refused, edited before its own answer, saved too early or posted elsewhere.
THEOREM ChangesTrackedTheorem == Spec => []ChangesTracked
<1>1. TrackedInv => ChangesTracked
  BY DEF TrackedInv, Tracked, ChangesTracked, Unsaved, Awaited
<1>2. QED
  BY <1>1, TrackedInvariant, PTL

-----------------------------------------------------------------------------
(* The address.                                                            *)

\* The page on the screen has the address shown, and the last answer was not for another page.
Settled == content = pathname /\ (lastLoc \in Pages => lastLoc = content)

\* What is asked for is the page of the address shown, or one that is to be pushed; a form is
\* posted to an action, or from the page of the address shown to that address.
AddressInv == ~gone /\ ~strayed =>
                IF currentlyLoading
                  THEN \/ request.push
                       \/ request.form = None /\ request.to = pathname
                       \/ request.form # None /\ Settled /\ request.to \in Destinations
                  ELSE Settled

\* A form is posted while the address is the page's.
LEMMA PostedAddress ==
  ASSUME TypeOK, ~gone', strayed' = strayed, UNCHANGED <<content, entries, pos, lastLoc>>,
         ~strayed => Settled, NEW f \in Forms, request' # None, request'.form = f,
         request'.to \in Destinations
  PROVE  AddressInv'
<1>1. pathname' = pathname /\ (Settled' <=> Settled) /\ Destinations' = Destinations
  BY DEF pathname, Settled, Destinations
<1>2. f # None
  BY NoneAssumption
<1>3. QED
  BY <1>1, <1>2 DEF AddressInv, currentlyLoading

LEMMA UserAddress ==
  ASSUME TypeOK, TypeOK', TrackedInv, AddressInv
  PROVE  /\ \A p \in Pages : Click(p) => AddressInv'
         /\ \A to \in 1 .. MaxEntries : Travel(to) => AddressInv'
         /\ \A f \in Forms, v \in Values : Edit(f, v) => AddressInv'
         /\ \A f \in Forms, to \in Destinations, alerts \in BOOLEAN : SubmitForm(f, to, alerts) => AddressInv'
         /\ SaveOne \/ SaveAll => AddressInv'
         /\ \A p \in Pages : Reopen(p) => AddressInv'
<1>1. ASSUME NEW p \in Pages, Click(p) PROVE AddressInv'
  <2>1. request' = Get(p, TRUE) /\ Get(p, TRUE).push = TRUE /\ Get(p, TRUE) # None
    BY <1>1, Getting, NoneAssumption DEF Click
  <2>2. QED
    BY <2>1 DEF AddressInv, currentlyLoading
<1>2. ASSUME NEW to \in 1 .. MaxEntries, Travel(to) PROVE AddressInv'
  <2>1. /\ ~gone /\ to \in DOMAIN entries /\ pos' = to
        /\ UNCHANGED <<entries, content, lastLoc>>
        /\ IF entries[to] # lastLoc /\ ~currentlyLoading
             THEN request' = Get(entries[to], FALSE) /\ strayed' = FALSE
             ELSE request' = request /\ strayed' = (strayed \/ currentlyLoading)
    BY <1>2 DEF Travel
  <2>2. entries[to] \in Pages /\ pathname' = entries[to]
    BY <2>1, Entries DEF pathname
  <2>3. CASE entries[to] # lastLoc /\ ~currentlyLoading
    <3>1. request'.form = None /\ request'.to = pathname'
      BY <2>1, <2>2, <2>3, Getting
    <3>2. request' # None
      BY <2>1, <2>2, <2>3, Getting, NoneAssumption
    <3>3. QED
      BY <3>1, <3>2 DEF AddressInv, currentlyLoading
  <2>4. CASE entries[to] = lastLoc /\ ~currentlyLoading
    <3>1. request' = request /\ ~currentlyLoading' /\ (strayed' <=> strayed)
      BY <2>1, <2>4 DEF currentlyLoading
    <3>2. ~strayed => content = entries[to]
      BY <2>1, <2>2, <2>4 DEF AddressInv, Settled
    <3>3. ~strayed => Settled'
      BY <2>1, <2>2, <2>4, <3>2 DEF Settled
    <3>4. QED
      BY <3>1, <3>3 DEF AddressInv
  <2>5. CASE currentlyLoading
    <3>1. strayed'
      BY <2>1, <2>5
    <3>2. QED
      BY <3>1 DEF AddressInv
  <2>6. QED
    BY <2>3, <2>4, <2>5
<1>3. ASSUME NEW f \in Forms, NEW v \in Values, Edit(f, v) PROVE AddressInv'
  BY <1>3 DEF Edit, page, AddressInv, currentlyLoading, pathname, Settled, Destinations
<1>4. ASSUME NEW f \in Forms, NEW to \in Destinations, NEW alerts \in BOOLEAN, SubmitForm(f, to, alerts)
      PROVE  AddressInv'
  <2>1. /\ ~gone /\ ~currentlyLoading /\ ~gone' /\ strayed' = strayed
        /\ UNCHANGED <<content, entries, pos, lastLoc>>
        /\ request' # None /\ request'.form = f /\ request'.to \in Destinations
    BY <1>4, Submitting
  <2>2. ~strayed => Settled
    BY <2>1 DEF AddressInv
  <2>3. QED
    BY <2>1, <2>2, PostedAddress
<1>5. ASSUME SaveOne PROVE AddressInv'
  <2>1. Stack(stack) /\ Len(stack) = 1 /\ ~gone
    BY <1>5 DEF SaveOne, TypeOK, Stack
  <2>2. PICK f \in Forms : f = stack[1]
    BY <2>1, Lone
  <2>3. /\ request' = IF currentlyLoading THEN request ELSE Post(f, Target(f), f \in AlertsOnly, FALSE)
        /\ ~gone' /\ strayed' = strayed /\ UNCHANGED <<content, entries, pos, lastLoc, gone>>
    BY <1>5, <2>2, Zenon DEF SaveOne
  <2>4. CASE currentlyLoading
    BY <2>3, <2>4 DEF AddressInv, currentlyLoading, pathname, Settled, Destinations
  <2>5. CASE ~currentlyLoading
    <3>1. request'.form = f /\ request' # None /\ request'.to \in Destinations
      BY <2>3, <2>5, PostingAlone, Zenon
    <3>2. ~strayed => Settled
      BY <2>1, <2>5 DEF AddressInv
    <3>3. QED
      BY <2>3, <3>1, <3>2, PostedAddress
  <2>6. QED
    BY <2>4, <2>5
<1>6. ASSUME SaveAll PROVE AddressInv'
  <2>1. Stack(stack) /\ stack # << >> /\ ~gone
    BY <1>6, EmptySeq DEF SaveAll, TypeOK, Stack
  <2>2. PICK f \in Forms : f = Last(stack)
    BY <2>1, Popped
  <2>3. /\ request' = IF ~currentlyLoading THEN Post(f, Target(f), TRUE, TRUE) ELSE request
        /\ ~gone' /\ strayed' = strayed /\ UNCHANGED <<content, entries, pos, lastLoc, gone>>
    BY <1>6, <2>2, Zenon DEF SaveAll, SaveNext
  <2>4. CASE currentlyLoading
    BY <2>3, <2>4 DEF AddressInv, currentlyLoading, pathname, Settled, Destinations
  <2>5. CASE ~currentlyLoading
    <3>1. request'.form = f /\ request' # None /\ request'.to \in Destinations
      BY <2>3, <2>5, PostingNext
    <3>2. ~strayed => Settled
      BY <2>1, <2>5 DEF AddressInv
    <3>3. QED
      BY <2>3, <3>1, <3>2, PostedAddress
  <2>6. QED
    BY <2>4, <2>5
<1>7. ASSUME NEW p \in Pages, Reopen(p) PROVE AddressInv'
  <2>1. pathname' = p
    BY <1>7 DEF Reopen, pathname
  <2>2. QED
    BY <1>7, <2>1 DEF Reopen, Fresh, AddressInv, currentlyLoading, Settled
<1>8. QED
  BY <1>1, <1>2, <1>3, <1>4, <1>5, <1>6, <1>7

\* What an answer is for is the address shown, or becomes it.
LEMMA AnswerAddress ==
  ASSUME TypeOK, TypeOK', TrackedInv, AddressInv, Answer
  PROVE  AddressInv'
<1>1. /\ currentlyLoading /\ ~gone /\ request \in Requests
  BY DEF Answer, TypeOK, currentlyLoading
<1>2. /\ request.to \in Address /\ request.push \in BOOLEAN
      /\ request.form # None => request.form \in Forms /\ ~request.push
      /\ request.form = None => request.to \in Pages
  BY <1>1, RequestFields
<1>3. Arrived /\ gone' = gone
  BY DEF Answer, AnswerPage, AnswerAlerts
<1>4. /\ lastLoc' = request.to
      /\ request.push => pathname' = request.to
      /\ ~request.push => pathname' = pathname
  BY <1>1, <1>3, Arriving DEF pathname
<1>5. ~strayed /\ request.form # None => Settled /\ request.to \in Destinations
  BY <1>1, <1>2 DEF AddressInv
<1>6. ASSUME NEW ok \in BOOLEAN, AnswerPage(ok) PROVE AddressInv'
  <2>1. /\ content' = PageAt(request.to) /\ request' = None
        /\ strayed' = IF request.push THEN FALSE ELSE strayed \/ LedAway
    BY <1>6 DEF AnswerPage
  <2>2. request.to \in Pages => content' = request.to
    BY <2>1 DEF PageAt
  <2>3. ~strayed' => Settled'
    <3>1. CASE request.push
      BY <1>2, <1>4, <2>2, <3>1 DEF Settled
    <3>2. CASE ~request.push /\ request.form = None
      <4>1. strayed' \/ request.to = pathname
        BY <1>1, <2>1, <3>2 DEF AddressInv
      <4>2. QED
        BY <1>2, <1>4, <2>2, <3>2, <4>1 DEF Settled
    <3>3. CASE request.form # None
      <4>1. content = PageOf[request.form] /\ pathname' = pathname /\ pathname \in Pages
        BY <1>1, <1>2, <1>4, <3>3, Entries DEF TrackedInv, Shown, pathname
      <4>2. ASSUME ~strayed' PROVE Settled /\ request.to \in Destinations /\ ~LedAway
        BY <1>2, <1>5, <2>1, <3>3, <4>2
      <4>3. ASSUME ~strayed', request.to \in Actions PROVE Settled'
        <5>1. request.to \notin Pages /\ Leads[request.to] = PageOf[request.form]
          BY <4>2, <4>3, PanelAssumption DEF LedAway
        <5>2. content' = content
          BY <2>1, <4>1, <5>1 DEF PageAt
        <5>3. QED
          BY <1>4, <4>1, <4>2, <4>3, <5>1, <5>2 DEF Settled
      <4>4. ASSUME ~strayed', request.to = pathname PROVE Settled'
        BY <1>4, <2>2, <4>1, <4>2, <4>4 DEF Settled
      <4>5. QED
        BY <4>2, <4>3, <4>4 DEF Destinations
    <3>4. QED
      BY <1>2, <3>1, <3>2, <3>3
  <2>4. QED
    BY <2>1, <2>3 DEF AddressInv, currentlyLoading
<1>7. ASSUME NEW ok \in BOOLEAN, AnswerAlerts(ok) PROVE AddressInv'
  <2>1. /\ request.form \in Forms /\ request.form # None /\ content' = content /\ strayed' = strayed
    BY <1>1, <1>7, Alerted, NoneAssumption DEF AnswerAlerts
  <2>2. pathname' = pathname /\ Destinations' = Destinations
    BY <1>2, <1>4, <2>1 DEF Destinations
  <2>3. ~strayed' => Settled'
    BY <1>4, <1>5, <2>1, <2>2, PanelAssumption DEF Settled, Destinations
  <2>4. CASE request' = None
    BY <2>3, <2>4 DEF AddressInv, currentlyLoading
  <2>5. CASE Last(stack) \in Forms /\ request' = Post(Last(stack), Target(Last(stack)), TRUE, TRUE)
    <3>1. PICK f \in Forms : f = Last(stack)
      BY <2>5
    <3>2. request'.form = f /\ f # None /\ request'.to \in Destinations
      BY <2>5, <3>1, PostingNext, NoneAssumption
    <3>3. QED
      BY <2>2, <2>3, <3>2 DEF AddressInv
  <2>6. QED
    BY <1>1, <1>7, <2>4, <2>5, Alerted
<1>8. QED
  BY <1>6, <1>7 DEF Answer

\* The address is that of the page on the screen, and a form without an action is posted to its own
\* page, as long as Back and Forward are left alone while an answer is awaited and no button leads away.
THEOREM AddressMatchesTheorem == Spec => []AddressMatches
<1>1. Init => AddressInv
  BY DEF Init, AddressInv, currentlyLoading, Settled, pathname
<1>2. TypeOK /\ TypeOK' /\ TrackedInv /\ AddressInv /\ [Next]_vars => AddressInv'
  <2> SUFFICES ASSUME TypeOK, TypeOK', TrackedInv, AddressInv, [Next]_vars PROVE AddressInv'
    OBVIOUS
  <2>1. CASE Fail
    BY <2>1 DEF Fail, AddressInv
  <2>2. CASE UNCHANGED vars
    BY <2>2 DEF vars, page, forms, history, AddressInv, currentlyLoading, pathname, Settled, Destinations
  <2>3. QED
    BY <2>1, <2>2, UserAddress, AnswerAddress, Submitted DEF Next
<1>3. TypeOK /\ TrackedInv /\ AddressInv => AddressMatches
  <2> SUFFICES ASSUME TypeOK, TrackedInv, AddressInv, ~gone, ~strayed
               PROVE  IF ~currentlyLoading THEN content = pathname
                      ELSE request.form # None /\ request.to \in Pages => request.to = PageOf[request.form]
    BY DEF AddressMatches
  <2>1. CASE ~currentlyLoading
    BY <2>1 DEF AddressInv, Settled
  <2>2. CASE currentlyLoading /\ request.form # None /\ request.to \in Pages
    <3>1. request.form \in Forms /\ ~request.push
      BY <2>2, RequestFields DEF TypeOK, currentlyLoading
    <3>2. Settled /\ request.to \in Destinations
      BY <2>2, <3>1 DEF AddressInv
    <3>3. content = PageOf[request.form] /\ request.to \notin Actions
      BY <2>2, <3>1, PanelAssumption DEF TrackedInv, Shown
    <3>4. QED
      BY <3>2, <3>3 DEF Settled, Destinations
  <2>3. QED
    BY <2>1, <2>2
<1>4. QED
  BY <1>1, <1>2, <1>3, TrackedInvariant, PTL DEF Spec

-----------------------------------------------------------------------------
(* The popup.                                                              *)

Chained == currentlyLoading /\ request.chain

\* The popup is hidden while there is nothing to save, except while Save! goes through its forms; its
\* button is gone then, and stays away only if Save! was pressed too early.
PopupInv == ~gone => /\ Chained => Mobile /\ request.alerts
                     /\ ~Mobile => popup = "hidden"
                     /\ Mobile /\ popup = "hidden" => stack = << >>
                     /\ stack = << >> => popup = "hidden" \/ Chained
                     /\ popup = "saving" => Chained \/ early

\* A step keeps the popup, or shows what there is to save.
LEMMA PopupKept ==
  ASSUME PopupInv, ~gone,
         Chained' => Mobile /\ request'.alerts,
         \/ UNCHANGED <<stack, popup, early>> /\ (Chained => Chained')
         \/ popup' = PopupFor(stack')
  PROVE  PopupInv'
<1>1. Mobile \in BOOLEAN
  BY PanelAssumption
<1>2. CASE popup' = PopupFor(stack')
  <2>1. /\ stack' = << >> => popup' = "hidden"
        /\ stack' # << >> /\ Mobile => popup' = "offering"
        /\ ~Mobile => popup' = "hidden"
    BY <1>1, <1>2 DEF PopupFor, PopupInv
  <2>2. QED
    BY <2>1 DEF PopupInv
<1>3. CASE UNCHANGED <<stack, popup, early>> /\ (Chained => Chained')
  BY <1>3 DEF PopupInv
<1>4. QED
  BY <1>2, <1>3

LEMMA UserPopup ==
  ASSUME TypeOK, TypeOK', TrackedInv, PopupInv
  PROVE  /\ \A p \in Pages : Click(p) => PopupInv'
         /\ \A to \in 1 .. MaxEntries : Travel(to) => PopupInv'
         /\ \A f \in Forms, v \in Values : Edit(f, v) => PopupInv'
         /\ \A f \in Forms, to \in Destinations, alerts \in BOOLEAN : SubmitForm(f, to, alerts) => PopupInv'
         /\ SaveOne \/ SaveAll => PopupInv'
         /\ \A p \in Pages : Reopen(p) => PopupInv'
<1>0. Stack(stack) /\ Stack(stack')
  BY DEF TypeOK, Stack
<1>1. ASSUME NEW p \in Pages, Click(p) PROVE PopupInv'
  <2>1. ~gone /\ ~gone' /\ ~Chained /\ UNCHANGED <<stack, popup, early>>
    BY <1>1 DEF Click, forms, Chained
  <2>2. ~Chained'
    <3>1. request' \in Requests /\ request'.form = None
      BY <1>1, Getting DEF Click
    <3>2. QED
      BY <3>1, RequestFields DEF Chained
  <2>3. QED
    BY <1>0, <2>1, <2>2, PopupKept
<1>2. ASSUME NEW to \in 1 .. MaxEntries, Travel(to) PROVE PopupInv'
  <2>1. ~gone /\ ~gone' /\ UNCHANGED <<stack, popup, early>>
    BY <1>2 DEF Travel, forms
  <2>2. CASE request' = request
    <3>1. Chained' <=> Chained
      BY <2>2 DEF Chained, currentlyLoading
    <3>2. Chained' => Mobile /\ request'.alerts
      BY <2>1, <2>2, <3>1 DEF PopupInv
    <3>3. QED
      BY <1>0, <2>1, <3>1, <3>2, PopupKept
  <2>3. CASE ~currentlyLoading /\ request' = Get(entries[to], FALSE)
    <3>1. entries[to] \in Pages
      BY <1>2, Entries DEF Travel
    <3>2. request' \in Requests /\ request'.form = None
      BY <2>3, <3>1, Getting
    <3>3. ~Chained' /\ ~Chained
      BY <2>3, <3>2, RequestFields DEF Chained
    <3>4. QED
      BY <1>0, <2>1, <3>3, PopupKept
  <2>4. QED
    BY <1>2, <2>2, <2>3, Zenon DEF Travel
<1>3. ASSUME NEW f \in Forms, NEW v \in Values, Edit(f, v) PROVE PopupInv'
  <2>1. ~gone /\ ~gone' /\ request' = request
    BY <1>3 DEF Edit, page
  <2>2. (Chained' <=> Chained) /\ (Chained' => Mobile /\ request'.alerts)
    BY <2>1 DEF Chained, currentlyLoading, PopupInv
  <2>3. UNCHANGED <<stack, popup>> \/ popup' = PopupFor(stack')
    <3>1. Show(f) \/ Hide({f})
      BY <1>3, Zenon DEF Edit
    <3>2. QED
      BY <1>0, <3>1, Showing, Hiding
  <2>4. early' = early
    BY <1>3 DEF Edit
  <2>5. QED
    BY <2>1, <2>2, <2>3, <2>4, PopupKept
<1>4. ASSUME NEW f \in Forms, NEW to \in Destinations, NEW alerts \in BOOLEAN, SubmitForm(f, to, alerts)
      PROVE  PopupInv'
  <2>1. ~gone /\ ~gone' /\ ~Chained /\ ~Chained' /\ UNCHANGED <<stack, popup, early>>
    BY <1>4, Submitting DEF Chained
  <2>2. QED
    BY <2>1, PopupKept
<1>5. ASSUME SaveOne PROVE PopupInv'
  <2>1. ~gone /\ ~gone' /\ stack # << >> /\ stack' = << >> /\ popup' = PopupFor(stack')
    <3>1. Len(stack) # 0
      BY <1>5 DEF SaveOne
    <3>2. QED
      BY <1>5, <3>1, EmptySeq DEF SaveOne
  <2>2. stack[1] \in Forms
    BY <1>0, <1>5, Lone DEF SaveOne
  <2>3. CASE currentlyLoading
    <3>1. request' = request
      BY <1>5, <2>3, Zenon DEF SaveOne
    <3>2. (Chained' <=> Chained) /\ (Chained' => Mobile /\ request'.alerts)
      BY <2>1, <3>1 DEF Chained, currentlyLoading, PopupInv
    <3>3. QED
      BY <1>0, <2>1, <3>2, PopupKept
  <2>4. CASE ~currentlyLoading
    <3>1. request' = Post(stack[1], Target(stack[1]), stack[1] \in AlertsOnly, FALSE)
      BY <1>5, <2>4, Zenon DEF SaveOne
    <3>2. ~request'.chain
      BY <2>2, <3>1, PostingAlone, Zenon
    <3>3. ~Chained' /\ ~Chained
      BY <2>4, <3>2 DEF Chained
    <3>4. QED
      BY <1>0, <2>1, <3>3, PopupKept
  <2>5. QED
    BY <2>3, <2>4
<1>6. ASSUME SaveAll PROVE PopupInv'
  <2>1. ~gone /\ ~gone' /\ popup = "offering" /\ popup' = "saving" /\ stack # << >> /\ Len(stack) > 1
    <3>1. ~gone /\ gone' = gone /\ popup = "offering" /\ popup' = "saving" /\ Len(stack) > 1
      BY <1>6, Zenon DEF SaveAll, SaveNext
    <3>2. Len(<< >>) = 0
      BY EmptySeq
    <3>3. QED
      BY <3>1, <3>2
  <2>2. Mobile /\ Last(stack) \in Forms
    BY <1>0, <2>1, Popped DEF PopupInv
  <2>3. CASE currentlyLoading
    <3>1. request' = request /\ early'
      BY <1>6, <2>3, Zenon DEF SaveAll, SaveNext
    <3>2. (Chained' <=> Chained) /\ (Chained' => Mobile /\ request'.alerts)
      BY <2>1, <3>1 DEF Chained, currentlyLoading, PopupInv
    <3>3. stack' # << >>
      BY <1>0, <1>6, <2>1, Popped DEF SaveAll, SaveNext
    <3>4. QED
      BY <2>1, <2>2, <3>1, <3>2, <3>3 DEF PopupInv
  <2>4. CASE ~currentlyLoading
    <3>1. request' = Post(Last(stack), Target(Last(stack)), TRUE, TRUE)
      BY <1>6, <2>4, Zenon DEF SaveAll, SaveNext
    <3>2. request' # None /\ request'.chain /\ request'.alerts
      BY <2>2, <3>1, PostingNext
    <3>3. QED
      BY <2>1, <2>2, <3>2 DEF PopupInv, Chained, currentlyLoading
  <2>5. QED
    BY <2>3, <2>4
<1>7. ASSUME NEW p \in Pages, Reopen(p) PROVE PopupInv'
  BY <1>7 DEF Reopen, Fresh, PopupInv, Chained, currentlyLoading
<1>8. QED
  BY <1>1, <1>2, <1>3, <1>4, <1>5, <1>6, <1>7

\* When Save! has gone through its forms the popup is put right, and a page leaves nothing to save.
LEMMA AnswerPopup ==
  ASSUME TypeOK, TypeOK', TrackedInv, PopupInv, Answer
  PROVE  PopupInv'
<1>1. ~gone /\ ~gone' /\ currentlyLoading /\ Stack(stack) /\ Stack(stack')
  <2>1. ~gone /\ gone' = gone /\ currentlyLoading
    BY Zenon DEF Answer, AnswerPage, AnswerAlerts
  <2>2. QED
    BY <2>1 DEF TypeOK, Stack
<1>2. ASSUME NEW ok \in BOOLEAN, AnswerPage(ok) PROVE PopupInv'
  <2>1. ~Chained /\ ~Chained'
    BY <1>1, <1>2 DEF AnswerPage, PopupInv, Chained, currentlyLoading
  <2>2. Hide(Shown) /\ Range(stack') = {}
    BY <1>1, <1>2, PageTracked, Zenon DEF AnswerPage
  <2>3. stack' = << >>
    BY <1>1, <2>2, EmptyStack
  <2>4. popup' = "hidden"
    <3>1. CASE UNCHANGED <<stack, popup>>
      BY <1>1, <2>1, <2>3, <3>1 DEF PopupInv
    <3>2. CASE popup' = PopupFor(stack')
      BY <2>3, <3>2 DEF PopupFor
    <3>3. QED
      BY <1>1, <2>2, <3>1, <3>2, Hiding
  <2>5. QED
    BY <2>1, <2>3, <2>4 DEF PopupInv
<1>3. ASSUME NEW ok \in BOOLEAN, AnswerAlerts(ok) PROVE PopupInv'
  <2>1. CASE /\ request.chain /\ stack # << >> /\ popup' = "saving" /\ Last(stack) \in Forms
             /\ request' = Post(Last(stack), Target(Last(stack)), TRUE, TRUE)
    <3>1. request' # None /\ request'.chain /\ request'.alerts
      BY <2>1, PostingNext
    <3>2. Mobile
      BY <1>1, <2>1 DEF PopupInv, Chained
    <3>3. QED
      BY <2>1, <3>1, <3>2 DEF PopupInv, Chained, currentlyLoading
  <2>2. CASE request.chain /\ stack = << >> /\ stack' = stack /\ request' = None /\ popup' = PopupFor(stack)
    <3>1. popup' = "hidden" /\ ~Chained'
      BY <2>2 DEF PopupFor, Chained, currentlyLoading
    <3>2. QED
      BY <2>2, <3>1 DEF PopupInv
  <2>3. CASE /\ ~request.chain /\ request' = None
             /\ UNCHANGED <<stack, popup>> \/ popup' = PopupFor(stack')
    <3>1. ~Chained /\ ~Chained'
      BY <2>3 DEF Chained, currentlyLoading
    <3>2. early' = early
      BY <1>3 DEF AnswerAlerts
    <3>3. QED
      BY <1>1, <2>3, <3>1, <3>2, PopupKept
  <2>4. QED
    BY <1>1, <1>3, <2>1, <2>2, <2>3, Alerted
<1>4. QED
  BY <1>2, <1>3 DEF Answer

\* On a telephone the popup is on the screen exactly while there is something to save, once no answer is
\* awaited, with a button that works whatever the server refused, unless Save! was last pressed too early.
THEOREM PopupTellsTheorem == Spec => []PopupTells
<1>1. Init => PopupInv
  BY DEF Init, PopupInv, Chained, currentlyLoading
<1>2. TypeOK /\ TypeOK' /\ TrackedInv /\ PopupInv /\ [Next]_vars => PopupInv'
  <2> SUFFICES ASSUME TypeOK, TypeOK', TrackedInv, PopupInv, [Next]_vars PROVE PopupInv'
    OBVIOUS
  <2>1. CASE Fail
    BY <2>1 DEF Fail, PopupInv
  <2>2. CASE UNCHANGED vars
    BY <2>2 DEF vars, page, forms, history, PopupInv, Chained, currentlyLoading
  <2>3. QED
    BY <2>1, <2>2, UserPopup, AnswerPopup, Submitted DEF Next
<1>3. PopupInv => PopupTells
  BY DEF PopupInv, PopupTells, Chained
<1>4. QED
  BY <1>1, <1>2, <1>3, TrackedInvariant, PTL DEF Spec
=============================================================================
