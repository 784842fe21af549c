--------------------------- MODULE SessionsProofs ----------------------------
(***************************************************************************)
(* Proofs about Sessions, for any pages, devices, passwords and lifetimes: *)
(* a page keeps to one session, the session ends in time, and a user is    *)
(* refused only then.                                                      *)
(***************************************************************************)
EXTENDS SessionsInv, TLAPS

States == Calls \cup Idle \cup {"blank", "out"}

-----------------------------------------------------------------------------
(* Steps of one page.                                                      *)

\* What the invariant says of one page.
LEMMA PageFacts ==
    ASSUME SessionInv, NEW p \in Pages
    PROVE  /\ now \in Nat /\ at[p] \in States /\ sent[p] \in Nat
           /\ form[p] \in Forms \cup {None}
           /\ device[p] \in Devices \cup {None}
           /\ token[p] \in Claims \cup {None}
           /\ renewal[p] \in Claims \cup {None}
           /\ FormOK(at[p], form[p])
           /\ HeldOK(at[p], device[p], token[p], renewal[p])
           /\ TimedOK(at[p], sent[p], now, token[p], renewal[p])
           /\ Moments(p) \subseteq Nat
           /\ CacheOK(cache) /\ clients \subseteq Rows /\ told \subseteq Devices \X Passwords
<1>1. now \in Nat /\ sent[p] \in Nat
  BY MaxTimeAssumption DEF SessionInv, SessionTypeOK
<1>2. Moments(p) \subseteq Nat
  BY <1>1 DEF Moments
<1>3. PageInv(p)
  BY DEF SessionInv
<1>4. QED
  BY <1>1, <1>2, <1>3 DEF SessionInv, SessionTypeOK, States, PageInv

\* A function is what it is with one value put in its place.
LEMMA SameValues ==
    ASSUME SessionInv, NEW p \in Pages
    PROVE  /\ form = [form EXCEPT ![p] = form[p]]
           /\ device = [device EXCEPT ![p] = device[p]]
           /\ token = [token EXCEPT ![p] = token[p]]
           /\ renewal = [renewal EXCEPT ![p] = renewal[p]]
BY DEF SessionInv, SessionTypeOK

\* A step of one page keeps the invariant if that page's new values satisfy it.
LEMMA PageStep ==
    ASSUME SessionInv, NEW p \in Pages,
           NEW s \in States, NEW t \in Nat, NEW f \in Forms \cup {None},
           NEW d \in Devices \cup {None}, NEW a \in Claims \cup {None},
           NEW r \in Claims \cup {None},
           now' = now,
           at' = [at EXCEPT ![p] = s], sent' = [sent EXCEPT ![p] = t],
           form' = [form EXCEPT ![p] = f], device' = [device EXCEPT ![p] = d],
           token' = [token EXCEPT ![p] = a], renewal' = [renewal EXCEPT ![p] = r],
           clients' \subseteq Rows, told' \subseteq Devices \X Passwords, CacheOK(cache'),
           FormOK(s, f), HeldOK(s, d, a, r), TimedOK(s, t, now, a, r)
    PROVE  SessionInv'
<1>1. SessionTypeOK'
  <2>1. cache' \in [device : Devices, renewal : Claims] \cup {None}
    BY DEF CacheOK
  <2>2. QED
    BY <2>1 DEF SessionInv, SessionTypeOK, States
<1>2. ASSUME NEW q \in Pages
      PROVE  PageInv(q)'
  <2>1. CASE q = p
    <3>1. /\ at'[p] = s /\ sent'[p] = t /\ form'[p] = f
          /\ device'[p] = d /\ token'[p] = a /\ renewal'[p] = r
      BY DEF SessionInv, SessionTypeOK
    <3>2. QED
      BY <2>1, <3>1 DEF PageInv
  <2>2. CASE q # p
    <3>1. /\ at'[q] = at[q] /\ sent'[q] = sent[q] /\ form'[q] = form[q]
          /\ device'[q] = device[q] /\ token'[q] = token[q] /\ renewal'[q] = renewal[q]
      BY <2>2 DEF SessionInv, SessionTypeOK
    <3>2. PageInv(q)
      BY DEF SessionInv
    <3>3. QED
      BY <3>1, <3>2 DEF PageInv
  <2>3. QED
    BY <2>1, <2>2
<1>3. QED
  BY <1>1, <1>2 DEF SessionInv

\* The same for a step that leaves alone what the page holds.
LEMMA HoldingStep ==
    ASSUME SessionInv, NEW p \in Pages,
           NEW s \in States, NEW t \in Nat, NEW f \in Forms \cup {None},
           now' = now,
           at' = [at EXCEPT ![p] = s], sent' = [sent EXCEPT ![p] = t],
           form' = [form EXCEPT ![p] = f], UNCHANGED session,
           clients' \subseteq Rows, told' \subseteq Devices \X Passwords, CacheOK(cache'),
           FormOK(s, f), HeldOK(s, device[p], token[p], renewal[p]),
           TimedOK(s, t, now, token[p], renewal[p])
    PROVE  SessionInv'
<1>1. /\ device' = [device EXCEPT ![p] = device[p]]
      /\ token' = [token EXCEPT ![p] = token[p]]
      /\ renewal' = [renewal EXCEPT ![p] = renewal[p]]
  BY SameValues DEF session
<1>2. /\ device[p] \in Devices \cup {None}
      /\ token[p] \in Claims \cup {None} /\ renewal[p] \in Claims \cup {None}
  BY PageFacts
<1>3. QED
  BY <1>1, <1>2, PageStep

\* A page that is asked for nothing is never late.
LEMMA Unhurried ==
    ASSUME NEW s \in States \ (Calls \cup {"refused"}), NEW t, NEW n, NEW a, NEW r
    PROVE  TimedOK(s, t, n, a, r)
BY DEF TimedOK, Calls

\* A call just sent is in time, unless it is a second try.
LEMMA JustSent ==
    ASSUME SessionInv, NEW s \in Calls \ {"retry"}, NEW a, NEW r
    PROVE  TimedOK(s, now, now, a, r)
<1>1. now \in Nat
  BY MaxTimeAssumption DEF SessionInv, SessionTypeOK
<1>2. QED
  BY <1>1, LivesAssumption DEF TimedOK, Calls

\* Writing a good content, or failing to, leaves a good cache.
LEMMA Saved ==
    ASSUME SessionInv, NEW c, CacheOK(c), Save(c)
    PROVE  CacheOK(cache')
BY DEF Save, SessionInv

\* Minted tokens have the shape that pages hold.
LEMMA Minted ==
    ASSUME NEW d \in Devices, NEW l \in Nat, NEW s \in Nat
    PROVE  /\ AccessToken(d, l, s) \in Claims
           /\ IsRefresh(RefreshToken(d, l, l))
           /\ RefreshToken(d, l, l).device = d /\ RefreshToken(d, l, l).login = l
           /\ RefreshToken(d, l, l).exp = l + RefreshLife
           /\ AccessToken(d, l, s).type = "ACCESS" /\ AccessToken(d, l, s).device = d
           /\ AccessToken(d, l, s).login = l /\ AccessToken(d, l, s).exp = s + AccessLife
<1>1. l + RefreshLife \in Nat /\ s + AccessLife \in Nat
  BY LivesAssumption
<1>2. QED
  BY <1>1 DEF AccessToken, RefreshToken, IsRefresh, Claims

-----------------------------------------------------------------------------
(* The invariant.                                                          *)

\* A form is sent.
LEMMA SubmitInv ==
    ASSUME SessionInv, NEW p \in Pages, NEW call \in {"register", "login"}, Submit(p, call)
    PROVE  SessionInv'
<1>1. PICK f \in Forms : form' = [form EXCEPT ![p] = f]
  BY DEF Submit
<1>2. HeldOK(call, device[p], token[p], renewal[p])
  BY PageFacts DEF Submit, HeldOK, Outside, Inside, Idle
<1>3. FormOK(call, f)
  BY DEF FormOK
<1>4. TimedOK(call, now, now, token[p], renewal[p])
  BY JustSent DEF Calls
<1>5. call \in States
  BY DEF States, Calls
<1>6. /\ at' = [at EXCEPT ![p] = call] /\ sent' = [sent EXCEPT ![p] = now]
      /\ UNCHANGED session /\ UNCHANGED <<now, clients, told, cache>>
  BY DEF Submit, Send
<1>7. now \in Nat /\ CacheOK(cache') /\ clients' \subseteq Rows /\ told' \subseteq Devices \X Passwords
  BY <1>6, PageFacts
<1>8. QED
  BY <1>1, <1>2, <1>3, <1>4, <1>5, <1>6, <1>7, HoldingStep

\* A form that was answered leaves a page that is logged out.
LEMMA BackToForm ==
    ASSUME SessionInv, NEW p \in Pages, at[p] \in {"register", "login"},
           Goto(p, "out"), form' = [form EXCEPT ![p] = None],
           UNCHANGED <<now, cache, session>>,
           clients' \subseteq Rows, told' \subseteq Devices \X Passwords
    PROVE  SessionInv'
<1>1. HeldOK("out", device[p], token[p], renewal[p])
  BY PageFacts DEF HeldOK, Outside, Inside, Idle
<1>2. FormOK("out", None)
  BY DEF FormOK
<1>3. "out" \in States \ (Calls \cup {"refused"})
  BY DEF States, Calls
<1>4. TimedOK("out", 0, now, token[p], renewal[p])
  BY <1>3, Unhurried
<1>5. at' = [at EXCEPT ![p] = "out"] /\ sent' = [sent EXCEPT ![p] = 0]
  BY DEF Goto
<1>6. CacheOK(cache')
  BY PageFacts
<1>7. QED
  BY <1>1, <1>2, <1>3, <1>4, <1>5, <1>6, HoldingStep

\* A row that is inserted is a row.
LEMMA RegisterInv ==
    ASSUME SessionInv, NEW p \in Pages, Register(p)
    PROVE  SessionInv'
<1>1. form[p] \in Forms
  BY PageFacts DEF Register, FormOK
<1>2. Hash(form[p].password) \in Passwords \cup {None}
  BY <1>1 DEF Hash, Forms
<1>3. Insert(form[p]) => clients' \subseteq Rows
  BY <1>1, <1>2, PageFacts DEF Insert, Forms, Rows
<1>4. clients' \subseteq Rows
  BY <1>3, PageFacts DEF Register
<1>5. <<form[p].device, form[p].password>> \in Devices \X Passwords
  BY <1>1 DEF Forms
<1>6. told' \subseteq Devices \X Passwords
  BY <1>5, PageFacts DEF Register
<1>7. QED
  BY <1>4, <1>6, BackToForm DEF Register

\* A refused login changes nothing that is kept.
LEMMA FailLoginInv ==
    ASSUME SessionInv, NEW p \in Pages, FailLogin(p)
    PROVE  SessionInv'
<1>1. clients' \subseteq Rows /\ told' \subseteq Devices \X Passwords
  BY PageFacts DEF FailLogin
<1>2. QED
  BY <1>1, BackToForm DEF FailLogin

\* A login opens a session with two tokens of its own.
LEMMA LoginInv ==
    ASSUME SessionInv, NEW p \in Pages, Login(p)
    PROVE  SessionInv'
<1> DEFINE d    == form[p].device
           a(s) == AccessToken(d, s, s)
           r(s) == RefreshToken(d, s, s)
<1>1. form[p] \in Forms
  BY PageFacts DEF Login, FormOK
<1>2. d \in Devices
  BY <1>1 DEF Forms
<1>3. PICK s \in Moments(p) : Hold(p, d, a(s), r(s)) /\ Save([device |-> d, renewal |-> r(s)])
  BY DEF Login
<1>4. s \in Nat
  BY <1>3, PageFacts
<1>5. /\ a(s) \in Claims /\ IsRefresh(r(s)) /\ r(s).device = d /\ r(s).login = s
      /\ r(s).exp = s + RefreshLife
      /\ a(s).type = "ACCESS" /\ a(s).device = d /\ a(s).login = s /\ a(s).exp = s + AccessLife
  BY <1>2, <1>4, Minted
<1>6. r(s) \in Claims
  BY <1>5 DEF IsRefresh
<1> HIDE DEF d, a, r
<1>7. a(s).exp < r(s).exp + AccessLife
  BY <1>4, <1>5, LivesAssumption
<1>8. HeldOK("in", d, a(s), r(s))
  BY <1>2, <1>5, <1>7 DEF HeldOK, IsAccess, Outside
<1>9. CacheOK([device |-> d, renewal |-> r(s)])
  BY <1>2, <1>5, <1>6 DEF CacheOK
<1>10. CacheOK(cache')
  BY <1>3, <1>9, Saved
<1>11. "in" \in States \ (Calls \cup {"refused"})
  BY DEF States, Calls, Idle
<1>12. TimedOK("in", 0, now, a(s), r(s)) /\ FormOK("in", None)
  BY <1>11, Unhurried DEF FormOK
<1>13. QED
  BY <1>2, <1>3, <1>5, <1>6, <1>8, <1>10, <1>11, <1>12, PageFacts, PageStep
     DEF Login, Goto, Hold

\* A restored page holds the cached session and no access token yet.
LEMMA OpenInv ==
    ASSUME SessionInv, NEW p \in Pages, Open(p)
    PROVE  SessionInv'
<1>1. at[p] = "blank" /\ FormOK("out", form[p]) /\ FormOK("restore", form[p])
  BY DEF Open, FormOK
<1>2. CASE cache # None
  <2>1. /\ cache \in [device : Devices, renewal : Claims]
        /\ IsRefresh(cache.renewal) /\ cache.renewal.device = cache.device
    BY <1>2, PageFacts DEF CacheOK
  <2>2. cache.device \in Devices /\ cache.renewal \in Claims
    BY <2>1
  <2>3. HeldOK("restore", cache.device, None, cache.renewal)
    BY <2>1, <2>2 DEF HeldOK, Outside, Inside, Idle
  <2>4. "restore" \in States /\ "restore" \in Calls \ {"retry"}
    BY DEF States, Calls
  <2>5. TimedOK("restore", now, now, None, cache.renewal)
    BY <2>4, JustSent
  <2>6. /\ at' = [at EXCEPT ![p] = "restore"] /\ sent' = [sent EXCEPT ![p] = now]
        /\ device' = [device EXCEPT ![p] = cache.device]
        /\ token' = [token EXCEPT ![p] = None]
        /\ renewal' = [renewal EXCEPT ![p] = cache.renewal]
        /\ UNCHANGED <<now, clients, told, cache, form>>
    BY <1>2 DEF Open, Hold, Send
  <2>7. form' = [form EXCEPT ![p] = form[p]] /\ form[p] \in Forms \cup {None}
    BY <2>6, SameValues, PageFacts
  <2>8. now \in Nat /\ CacheOK(cache') /\ clients' \subseteq Rows /\ told' \subseteq Devices \X Passwords
    BY <2>6, PageFacts
  <2>9. QED
    BY <1>1, <2>2, <2>3, <2>4, <2>5, <2>6, <2>7, <2>8, PageStep
<1>3. CASE cache = None
  <2>1. HeldOK("out", device[p], token[p], renewal[p])
    BY <1>1, PageFacts DEF HeldOK, Outside, Inside, Idle
  <2>2. "out" \in States \ (Calls \cup {"refused"})
    BY DEF States, Calls
  <2>3. TimedOK("out", 0, now, token[p], renewal[p])
    BY <2>2, Unhurried
  <2>4. /\ at' = [at EXCEPT ![p] = "out"] /\ sent' = [sent EXCEPT ![p] = 0]
        /\ UNCHANGED <<now, clients, told, cache, form>> /\ UNCHANGED session
    BY <1>3 DEF Open, Goto
  <2>5. form' = [form EXCEPT ![p] = form[p]] /\ form[p] \in Forms \cup {None}
    BY <2>4, SameValues, PageFacts
  <2>6. CacheOK(cache') /\ clients' \subseteq Rows /\ told' \subseteq Devices \X Passwords
    BY <2>4, PageFacts
  <2>7. QED
    BY <1>1, <2>1, <2>2, <2>3, <2>4, <2>5, <2>6, HoldingStep
<1>4. QED
  BY <1>2, <1>3

\* A page in a session sends a call, or stops waiting, and keeps its tokens.
LEMMA StayInside ==
    ASSUME SessionInv, NEW p \in Pages, at[p] \in Inside, NEW s \in Inside, NEW t \in Nat,
           at' = [at EXCEPT ![p] = s], sent' = [sent EXCEPT ![p] = t],
           TimedOK(s, t, now, token[p], renewal[p]),
           UNCHANGED <<now, clients, told, cache, form, session>>
    PROVE  SessionInv'
<1>1. s \in States /\ s \notin Outside /\ s # "restore"
  BY DEF States, Inside, Idle, Outside, Calls
<1>2. HeldOK(s, device[p], token[p], renewal[p])
  BY <1>1, PageFacts DEF HeldOK, Inside, Idle, Outside
<1>3. FormOK(s, form[p])
  BY DEF FormOK, Inside, Idle
<1>4. form' = [form EXCEPT ![p] = form[p]] /\ form[p] \in Forms \cup {None}
  BY SameValues, PageFacts
<1>5. CacheOK(cache') /\ clients' \subseteq Rows /\ told' \subseteq Devices \X Passwords
  BY PageFacts
<1>6. QED
  BY <1>1, <1>2, <1>3, <1>4, <1>5, HoldingStep

\* The two calls that a page in a session sends by itself.
LEMMA SendInv ==
    ASSUME SessionInv, NEW p \in Pages, Refresh(p) \/ Ask(p)
    PROVE  SessionInv'
<1>1. PICK s \in {"refresh", "ask"} :
         /\ at[p] \in Idle /\ Send(p, s)
         /\ UNCHANGED <<now, clients, told, cache, form, session>>
  BY DEF Refresh, Ask
<1>2. s \in Inside /\ s \in Calls \ {"retry"} /\ at[p] \in Inside
  BY <1>1 DEF Inside, Calls
<1>3. TimedOK(s, now, now, token[p], renewal[p])
  BY <1>2, JustSent
<1>4. QED
  BY <1>1, <1>2, <1>3, PageFacts, StayInside DEF Send

\* A second answer to a 401, or an answer of any kind.
LEMMA AnswerInv ==
    ASSUME SessionInv, NEW p \in Pages, Answer(p)
    PROVE  SessionInv'
<1>1. at[p] \in Inside
  BY DEF Answer, Inside
<1>2. UNCHANGED <<now, clients, told, cache, form, session>>
  BY DEF Answer
<1>3. ASSUME Goto(p, "in")
      PROVE  SessionInv'
  <2>1. "in" \in Inside /\ "in" \in States \ (Calls \cup {"refused"})
    BY DEF Inside, Idle, States, Calls
  <2>2. TimedOK("in", 0, now, token[p], renewal[p])
    BY <2>1, Unhurried
  <2>3. QED
    BY <1>1, <1>2, <1>3, <2>1, <2>2, StayInside DEF Goto
<1>4. ASSUME Send(p, "renew")
      PROVE  SessionInv'
  <2>1. "renew" \in Inside /\ "renew" \in Calls \ {"retry"} /\ now \in Nat
    BY PageFacts DEF Inside, Calls
  <2>2. TimedOK("renew", now, now, token[p], renewal[p])
    BY <2>1, JustSent
  <2>3. QED
    BY <1>1, <1>2, <1>4, <2>1, <2>2, StayInside DEF Send
<1>5. at[p] = "retry" => \A s \in Moments(p) : Accepts(token[p], s)
  <2>1. SUFFICES ASSUME at[p] = "retry", NEW s \in Moments(p)
                 PROVE  Accepts(token[p], s)
    OBVIOUS
  <2>2. /\ IsAccess(token[p], renewal[p]) /\ now =< sent[p] + Timeout
        /\ sent[p] + Timeout < token[p].exp
    BY <2>1, PageFacts DEF HeldOK, TimedOK, Inside, Calls
  <2>3. token[p].exp \in Nat /\ now \in Nat /\ sent[p] \in Nat /\ Timeout \in Nat
    BY <2>2, PageFacts, LivesAssumption DEF IsAccess, Claims
  <2>4. s \in Nat /\ s =< now
    BY <2>3 DEF Moments
  <2>5. s < token[p].exp
    BY <2>2, <2>3, <2>4
  <2>6. QED
    BY <2>2, <2>5 DEF Accepts, IsAccess
<1>6. Goto(p, "in") \/ Send(p, "renew")
  BY <1>5 DEF Answer
<1>7. QED
  BY <1>3, <1>4, <1>6

\* A refresh that is granted renews the access token, whose life is longer than
\* what is left of the call and the whole of the next one.
LEMMA RefreshedInv ==
    ASSUME SessionInv, NEW p \in Pages, Refreshed(p)
    PROVE  SessionInv'
<1>1. at[p] \in Inside \cup {"restore"} /\ at[p] \in Calls /\ at[p] \notin Outside
  BY DEF Refreshed, Inside, Calls, Outside
<1>2. /\ device[p] \in Devices /\ IsRefresh(renewal[p]) /\ renewal[p].device = device[p]
      /\ sent[p] =< now /\ now =< sent[p] + Timeout
  BY <1>1, PageFacts DEF HeldOK, TimedOK
<1>3. /\ renewal[p] \in Claims /\ renewal[p].device \in Devices
      /\ renewal[p].login \in Nat /\ renewal[p].exp \in Nat
  BY <1>2 DEF IsRefresh, Claims
<1>4. PICK s \in Moments(p) :
         /\ Renews(renewal[p], s)
         /\ KeepToken(p, AccessToken(renewal[p].device, renewal[p].login, s))
  BY DEF Refreshed
<1> DEFINE a == AccessToken(renewal[p].device, renewal[p].login, s)
<1>5. /\ s \in Nat /\ now \in Nat /\ sent[p] \in Nat /\ Timeout \in Nat /\ AccessLife \in Nat
      /\ sent[p] =< s /\ s < renewal[p].exp
  BY <1>4, PageFacts, LivesAssumption DEF Moments, Renews
<1>6. /\ a \in Claims /\ a.type = "ACCESS" /\ a.device = renewal[p].device
      /\ a.login = renewal[p].login /\ a.exp = s + AccessLife
  BY <1>3, <1>5, Minted
<1>7. /\ device' = [device EXCEPT ![p] = device[p]] /\ token' = [token EXCEPT ![p] = a]
      /\ renewal' = [renewal EXCEPT ![p] = renewal[p]]
  BY <1>4 DEF KeepToken, Hold
<1> HIDE DEF a
<1>8. IsAccess(a, renewal[p])
  BY <1>3, <1>5, <1>6 DEF IsAccess
<1>9. CacheOK(cache')
  <2>1. CacheOK([device |-> device[p], renewal |-> renewal[p]])
    BY <1>2, <1>3 DEF CacheOK
  <2>2. QED
    BY <2>1, Saved DEF Refreshed
<1>10. form' = [form EXCEPT ![p] = form[p]] /\ form[p] \in Forms \cup {None}
  BY SameValues, PageFacts DEF Refreshed
<1>11. UNCHANGED now /\ clients' \subseteq Rows /\ told' \subseteq Devices \X Passwords
  BY PageFacts DEF Refreshed
<1>12. CASE at[p] = "renew"
  <2>1. /\ at' = [at EXCEPT ![p] = "retry"] /\ sent' = [sent EXCEPT ![p] = now]
    BY <1>12 DEF Refreshed, Send
  <2>2. "retry" \in States /\ FormOK("retry", form[p])
    BY DEF States, Calls, FormOK
  <2>3. HeldOK("retry", device[p], a, renewal[p])
    BY <1>2, <1>8 DEF HeldOK, Outside
  <2>4. now + Timeout < a.exp
    BY <1>2, <1>5, <1>6, LivesAssumption
  <2>5. TimedOK("retry", now, now, a, renewal[p])
    BY <1>5, <2>4 DEF TimedOK
  <2>6. QED
    BY <1>2, <1>3, <1>5, <1>6, <1>7, <1>9, <1>10, <1>11, <2>1, <2>2, <2>3, <2>5, PageStep
<1>13. CASE at[p] # "renew"
  <2>1. /\ at' = [at EXCEPT ![p] = "in"] /\ sent' = [sent EXCEPT ![p] = 0]
    BY <1>13 DEF Refreshed, Goto
  <2>2. "in" \in States \ (Calls \cup {"refused"}) /\ FormOK("in", form[p])
    BY DEF States, Calls, Idle, FormOK
  <2>3. HeldOK("in", device[p], a, renewal[p])
    BY <1>2, <1>8 DEF HeldOK, Outside
  <2>4. TimedOK("in", 0, now, a, renewal[p])
    BY <2>2, Unhurried
  <2>5. QED
    BY <1>2, <1>3, <1>6, <1>7, <1>9, <1>10, <1>11, <2>1, <2>2, <2>3, <2>4, PageStep
<1>14. QED
  BY <1>12, <1>13

\* A page that loses or leaves its session.
LEMMA LeaveInv ==
    ASSUME SessionInv, NEW p \in Pages, NEW s \in {"blank", "out"},
           Goto(p, s), Hold(p, None, None, None), CacheOK(cache'),
           UNCHANGED <<now, clients, told, form>>
    PROVE  SessionInv'
<1>1. s \in States \ (Calls \cup {"refused"}) /\ FormOK(s, form[p])
  BY DEF States, Calls, FormOK
<1>2. HeldOK(s, None, None, None)
  BY DEF HeldOK, Outside, Inside, Idle
<1>3. TimedOK(s, 0, now, None, None)
  BY <1>1, Unhurried
<1>4. form' = [form EXCEPT ![p] = form[p]] /\ form[p] \in Forms \cup {None}
  BY SameValues, PageFacts
<1>5. clients' \subseteq Rows /\ told' \subseteq Devices \X Passwords
  BY PageFacts
<1>6. /\ at' = [at EXCEPT ![p] = s] /\ sent' = [sent EXCEPT ![p] = 0]
      /\ device' = [device EXCEPT ![p] = None] /\ token' = [token EXCEPT ![p] = None]
      /\ renewal' = [renewal EXCEPT ![p] = None]
  BY DEF Goto, Hold
<1>7. QED
  BY <1>1, <1>2, <1>3, <1>4, <1>5, <1>6, PageStep

\* A refresh that is refused has a refresh token that ran out.
LEMMA FailRefreshInv ==
    ASSUME SessionInv, NEW p \in Pages, FailRefresh(p)
    PROVE  SessionInv'
<1>1. CASE at[p] = "restore"
  <2>1. token[p] = None
    BY <1>1, PageFacts DEF HeldOK
  <2>2. Goto(p, "out") /\ Hold(p, None, None, None) /\ Save(None)
    BY <1>1, <2>1 DEF FailRefresh
  <2>3. CacheOK(cache')
    BY <2>2, Saved DEF CacheOK
  <2>4. QED
    BY <2>2, <2>3, LeaveInv DEF FailRefresh
<1>2. CASE at[p] \in {"refresh", "renew"}
  <2>1. at[p] \in Inside /\ at[p] \notin Outside /\ UNCHANGED <<now, clients, told, cache, form, session>>
    BY <1>2 DEF FailRefresh, Inside, Outside
  <2>2. PICK s \in {"in", "missed", "refused"} :
           /\ Goto(p, s)
           /\ s = "refused" => \E m \in Moments(p) : ~Renews(renewal[p], m)
    BY <1>2 DEF FailRefresh
  <2>3. IsRefresh(renewal[p])
    BY <2>1, PageFacts DEF HeldOK
  <2>4. s = "refused" => renewal[p].exp =< now
    <3>1. SUFFICES ASSUME NEW m \in Moments(p), ~Renews(renewal[p], m)
                   PROVE  renewal[p].exp =< now
      BY <2>2
    <3>2. renewal[p].exp \in Nat /\ renewal[p].type = "REFRESH" /\ now \in Nat /\ sent[p] \in Nat
      BY <2>3, PageFacts DEF IsRefresh, Claims
    <3>3. m \in Nat /\ m =< now
      BY <3>2 DEF Moments
    <3>4. ~(m < renewal[p].exp)
      BY <3>1, <3>2 DEF Renews
    <3>5. QED
      BY <3>2, <3>3, <3>4
  <2>5. TimedOK(s, 0, now, token[p], renewal[p])
    BY <2>4 DEF TimedOK, Calls
  <2>6. s \in Inside
    BY DEF Inside, Idle
  <2>7. QED
    BY <2>1, <2>2, <2>5, <2>6, StayInside DEF Goto
<1>3. QED
  BY <1>1, <1>2 DEF FailRefresh

\* No call is late when the clock moves on, and what has run out stays so.
LEMMA TickInv ==
    ASSUME SessionInv, Tick
    PROVE  SessionInv'
<1>1. now \in Nat /\ now' = now + 1 /\ now < MaxTime
  BY MaxTimeAssumption DEF SessionInv, SessionTypeOK, Tick
<1>2. SessionTypeOK'
  BY <1>1, MaxTimeAssumption DEF SessionInv, SessionTypeOK, Tick, session
<1>3. ASSUME NEW p \in Pages
      PROVE  PageInv(p)'
  <2>1. /\ at'[p] = at[p] /\ sent'[p] = sent[p] /\ form'[p] = form[p]
        /\ device'[p] = device[p] /\ token'[p] = token[p] /\ renewal'[p] = renewal[p]
    BY DEF Tick, session
  <2>2. at[p] \in Calls => now + 1 =< sent[p] + Timeout /\ sent[p] =< now + 1
    BY <1>1, PageFacts, LivesAssumption DEF Tick, TimedOK
  <2>3. at[p] = "refused" => renewal[p].exp =< now + 1
    <3>1. SUFFICES ASSUME at[p] = "refused"
                   PROVE  renewal[p].exp =< now + 1
      OBVIOUS
    <3>2. IsRefresh(renewal[p]) /\ renewal[p].exp =< now
      BY <3>1, PageFacts DEF HeldOK, TimedOK, Outside
    <3>3. renewal[p].exp \in Nat
      BY <3>2 DEF IsRefresh, Claims
    <3>4. QED
      BY <1>1, <3>2, <3>3
  <2>4. TimedOK(at[p], sent[p], now + 1, token[p], renewal[p])
    BY <2>2, <2>3, PageFacts DEF TimedOK
  <2>5. QED
    BY <1>1, <2>1, <2>4, PageFacts DEF PageInv
<1>4. CacheOK(cache')
  BY PageFacts DEF Tick, SessionInv
<1>5. QED
  BY <1>2, <1>3, <1>4 DEF SessionInv

\* At the start nobody holds anything.
LEMMA StartInv == SessionInit => SessionInv
<1>1. SUFFICES ASSUME SessionInit
               PROVE  SessionInv
  OBVIOUS
<1>2. SessionTypeOK
  BY <1>1, MaxTimeAssumption DEF SessionInit, SessionTypeOK
<1>3. ASSUME NEW p \in Pages
      PROVE  PageInv(p)
  BY <1>1 DEF SessionInit, PageInv, FormOK, HeldOK, TimedOK, Outside, Inside, Idle, Calls
<1>4. CacheOK(cache)
  BY <1>1 DEF SessionInit, CacheOK
<1>5. QED
  BY <1>2, <1>3, <1>4 DEF SessionInv

\* The invariant is inductive: one case per action.
LEMMA StepInv == SessionInv /\ [SessionNext]_sessionvars => SessionInv'
<1>1. SUFFICES ASSUME SessionInv, [SessionNext]_sessionvars
               PROVE  SessionInv'
  OBVIOUS
<1>2. CASE Tick
  BY <1>1, <1>2, TickInv
<1>3. ASSUME NEW p \in Pages, PageNext(p)
      PROVE  SessionInv'
  <2>1. CASE Submit(p, "register") \/ Submit(p, "login")
    BY <1>1, <2>1, SubmitInv
  <2>2. CASE Register(p)
    BY <1>1, <2>2, RegisterInv
  <2>3. CASE Login(p)
    BY <1>1, <2>3, LoginInv
  <2>4. CASE FailLogin(p)
    BY <1>1, <2>4, FailLoginInv
  <2>5. CASE Open(p)
    BY <1>1, <2>5, OpenInv
  <2>6. CASE Refresh(p) \/ Ask(p)
    BY <1>1, <2>6, SendInv
  <2>7. CASE Refreshed(p)
    BY <1>1, <2>7, RefreshedInv
  <2>8. CASE FailRefresh(p)
    BY <1>1, <2>8, FailRefreshInv
  <2>9. CASE Answer(p)
    BY <1>1, <2>9, AnswerInv
  <2>10. CASE Exit(p)
    <3>1. CacheOK(cache')
      BY <1>1, <2>10, Saved DEF Exit, CacheOK
    <3>2. QED
      BY <1>1, <2>10, <3>1, LeaveInv DEF Exit
  <2>11. CASE Reload(p)
    <3>1. CacheOK(cache')
      BY <1>1, <2>11 DEF Reload, SessionInv
    <3>2. QED
      BY <1>1, <2>11, <3>1, LeaveInv DEF Reload
  <2>12. QED
    BY <1>3, <2>1, <2>2, <2>3, <2>4, <2>5, <2>6, <2>7, <2>8, <2>9, <2>10, <2>11 DEF PageNext
<1>4. CASE UNCHANGED sessionvars
  <2>1. UNCHANGED <<now, clients, told, cache, at, sent, form, device, token, renewal>>
    BY <1>4 DEF sessionvars, session
  <2>2. QED
    BY <1>1, <2>1 DEF SessionInv, SessionTypeOK, PageInv
<1>5. QED
  BY <1>1, <1>2, <1>3, <1>4 DEF SessionNext

\* The invariant holds throughout.
LEMMA SessionInvariant == SessionSpec => []SessionInv
BY StartInv, StepInv, PTL DEF SessionSpec

-----------------------------------------------------------------------------
(* What follows.                                                           *)

\* Type correctness of accounts, pages, tokens and the cache file.
THEOREM SessionTypeCorrect == SessionSpec => []SessionTypeOK
<1>1. SessionInv => SessionTypeOK
  BY DEF SessionInv
<1>2. QED
  BY <1>1, SessionInvariant, PTL

\* A page orders as the device it shows, and the cache file holds one session,
\* however pages overwrite and remove it (save_auth_cache, clear_auth_cache).
THEOREM OneSession == SessionSpec => []OneSessionPerPage
<1>1. ASSUME SessionInv
      PROVE  OneSessionPerPage
  <2>1. cache # None => cache.renewal.device = cache.device
    BY <1>1 DEF SessionInv, CacheOK
  <2>2. ASSUME NEW p \in Pages, renewal[p] # None
        PROVE  /\ renewal[p].device = device[p]
               /\ token[p] # None => /\ token[p].device = device[p]
                                     /\ token[p].login = renewal[p].login
    <3>1. at[p] \notin Outside /\ renewal[p].device = device[p]
      BY <1>1, <2>2, PageFacts DEF HeldOK
    <3>2. at[p] \in Inside \cup {"restore"}
      BY <1>1, <3>1, PageFacts DEF States, Calls, Outside, Inside, Idle
    <3>3. QED
      BY <1>1, <3>1, <3>2, PageFacts DEF HeldOK, IsAccess
  <2>3. QED
    BY <2>1, <2>2 DEF OneSessionPerPage
<1>2. QED
  BY <1>1, SessionInvariant, PTL

\* No session outlives its password check by a refresh and an access token's
\* lifetime or more (GenerateRefreshToken, RefreshHandler).
THEOREM SessionsEnd == SessionSpec => []SessionEnds
<1>1. ASSUME SessionInv
      PROVE  SessionEnds
  <2>1. SUFFICES ASSUME NEW p \in Pages, token[p] # None
                 PROVE  token[p].exp < token[p].login + RefreshLife + AccessLife
    BY DEF SessionEnds
  <2>2. at[p] \in Inside
    BY <1>1, <2>1, PageFacts DEF HeldOK, States, Calls, Outside, Inside, Idle
  <2>3. IsAccess(token[p], renewal[p]) /\ IsRefresh(renewal[p])
    BY <1>1, <2>2, PageFacts DEF HeldOK, Outside, Inside, Idle
  <2>4. token[p].exp < renewal[p].exp + AccessLife /\ renewal[p].exp = token[p].login + RefreshLife
    BY <2>3 DEF IsAccess, IsRefresh
  <2>5. QED
    BY <2>4
<1>2. QED
  BY <1>1, SessionInvariant, PTL

\* A user sees a 401 only when the session is over or the refresh got no answer:
\* the second try of auth_request is always in time.
THEOREM RefusedLate == SessionSpec => []RefusedOnlyAtTheEnd
<1>1. ASSUME SessionInv
      PROVE  RefusedOnlyAtTheEnd
  BY <1>1, PageFacts DEF RefusedOnlyAtTheEnd, TimedOK
<1>2. QED
  BY <1>1, SessionInvariant, PTL

\* Rows are only added, and no two of a device.
LEMMA StepCanLogin ==
    ASSUME SessionInv, RegisteredCanLogin, [SessionNext]_sessionvars
    PROVE  RegisteredCanLogin'
<1>1. CASE \E p \in Pages : Register(p)
  <2>1. PICK p \in Pages : Register(p)
    BY <1>1
  <2>2. clients \subseteq clients'
    BY <2>1 DEF Register, Insert
  <2>3. SUFFICES ASSUME NEW d \in Devices, NEW w \in Passwords \ TooLong, <<d, w>> \in told'
                 PROVE  \E c \in clients' : c.device = d /\ c.hash = w
    BY DEF RegisteredCanLogin
  <2>4. CASE <<d, w>> \in told
    BY <2>2, <2>4 DEF RegisteredCanLogin
  <2>5. CASE <<d, w>> \notin told
    <3>1. /\ Insert(form[p]) /\ form[p].device = d /\ form[p].password = w
      BY <2>1, <2>3, <2>5 DEF Register
    <3>2. Hash(form[p].password) = w
      BY <3>1 DEF Hash
    <3>3. [device |-> d, email |-> form[p].email, hash |-> w] \in clients'
      BY <3>1, <3>2 DEF Insert
    <3>4. QED
      BY <3>3
  <2>6. QED
    BY <2>4, <2>5
<1>2. CASE ~\E p \in Pages : Register(p)
  <2>1. UNCHANGED <<clients, told>>
    BY <1>2 DEF SessionNext, PageNext, Tick, Submit, Login, FailLogin, Open, Refresh,
                Refreshed, FailRefresh, Ask, Answer, Exit, Reload, sessionvars
  <2>2. QED
    BY <2>1 DEF RegisteredCanLogin
<1>3. QED
  BY <1>1, <1>2

\* A registration that was answered 201 keeps its password (RegisterHandler,
\* CreateSmartClient).
THEOREM CanLogin == SessionSpec => []RegisteredCanLogin
<1>1. SessionInit => RegisteredCanLogin
  BY DEF SessionInit, RegisteredCanLogin
<1>2. SessionInv /\ RegisteredCanLogin /\ [SessionNext]_sessionvars => RegisteredCanLogin'
  BY StepCanLogin
<1>3. QED
  BY <1>1, <1>2, SessionInvariant, PTL DEF SessionSpec
=============================================================================
