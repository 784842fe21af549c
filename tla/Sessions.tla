------------------------------ MODULE Sessions -------------------------------
(***************************************************************************)
(* Accounts and sessions of the client terminal: registration, login and   *)
(* token refresh in the ordering service, and the terminal's pages, which  *)
(* share one cache file.  Tokens are signed and never looked up: the       *)
(* refresh token that login also stores in smart_clients is read by nobody *)
(* and is no variable here.  A call takes at most Timeout; the server acts *)
(* on it at some moment in between.                                        *)
(***************************************************************************)
EXTENDS Naturals

CONSTANTS
    Pages,          \* browser pages of the terminal
    Devices,
    Emails,
    Passwords,
    TooLong,        \* the passwords that bcrypt refuses to hash
    None,
    AccessLife,     \* lifetime of an access token
    RefreshLife,    \* lifetime of a refresh token
    Timeout,        \* how long the terminal waits for an answer
    MaxTime,        \* the bound on the clock
    SessionFaults   \* the kinds of failure that may happen

SessionFaultKinds ==
    {"loss",    \* a call or its answer is lost, or ordering is down
     "db",      \* a statement fails
     "cache"}   \* the cache file cannot be written or removed

ASSUME LivesAssumption ==
    /\ AccessLife \in Nat /\ RefreshLife \in Nat \ {0} /\ Timeout \in Nat
    /\ 2 * Timeout < AccessLife      \* 5 seconds against 15 minutes
ASSUME MaxTimeAssumption == MaxTime \in Nat
ASSUME PasswordsAssumption == TooLong \subseteq Passwords
ASSUME SessionFaultsAssumption == SessionFaults \subseteq SessionFaultKinds

\* The claims of a token; "login" is when its password was checked, which no code reads.
Claims == [type : {"ACCESS", "REFRESH"}, device : Devices, login : Nat, exp : Nat]

ASSUME NoneAssumption == None \notin Devices \cup Claims \cup Passwords

VARIABLES
    now,       \* the clock
    clients,   \* the rows of smart_clients
    told,      \* the registrations that were answered 201
    cache,     \* the cache file of the terminal
    at,        \* at[p]: what page p does
    sent,      \* sent[p]: when its call was sent, 0 without one
    form,      \* form[p]: what was typed into the form
    device,    \* device[p]: st.session_state.device_id
    token,     \* token[p]: st.session_state.token
    renewal    \* renewal[p]: st.session_state.refresh_token

session     == <<device, token, renewal>>
sessionvars == <<now, clients, told, cache, at, sent, form, session>>

Calls == {"register", "login", "restore", "refresh", "ask", "renew", "retry"}

\* Logged in.  "refused": a 401 was shown; "missed": one was, as the refresh got no answer.
Idle == {"in", "refused", "missed"}

Rows  == [device : Devices, email : Emails, hash : Passwords \cup {None}]
Forms == [device : Devices, email : Emails, password : Passwords]

SessionTypeOK ==
    /\ now \in 0 .. MaxTime
    /\ clients \subseteq Rows
    /\ told \subseteq Devices \X Passwords
    /\ cache \in [device : Devices, renewal : Claims] \cup {None}
    /\ at \in [Pages -> Calls \cup Idle \cup {"blank", "out"}]
    /\ sent \in [Pages -> Nat]
    /\ form \in [Pages -> Forms \cup {None}]
    /\ device \in [Pages -> Devices \cup {None}]
    /\ token \in [Pages -> Claims \cup {None}]
    /\ renewal \in [Pages -> Claims \cup {None}]

SessionInit ==
    /\ now = 0 /\ clients = {} /\ told = {} /\ cache = None
    /\ at = [p \in Pages |-> "blank"]
    /\ sent = [p \in Pages |-> 0]
    /\ form = [p \in Pages |-> None]
    /\ device = [p \in Pages |-> None]
    /\ token = [p \in Pages |-> None]
    /\ renewal = [p \in Pages |-> None]

-----------------------------------------------------------------------------
(* Pages and the cache file.                                               *)

\* A hash that fails leaves the empty string, which no password matches.
Hash(w) == IF w \in TooLong THEN None ELSE w

Save(contents) ==
    \/ cache' = contents
    \/ "cache" \in SessionFaults /\ UNCHANGED cache

\* When the server may act on the call of page p.
Moments(p) == sent[p] .. now

Send(p, call) ==
    /\ at' = [at EXCEPT ![p] = call]
    /\ sent' = [sent EXCEPT ![p] = now]

\* A page that waits for nothing.
Goto(p, s) ==
    /\ at' = [at EXCEPT ![p] = s]
    /\ sent' = [sent EXCEPT ![p] = 0]

\* What page p holds: a device, an access and a refresh token.
Hold(p, d, a, r) ==
    /\ device' = [device EXCEPT ![p] = d]
    /\ token' = [token EXCEPT ![p] = a]
    /\ renewal' = [renewal EXCEPT ![p] = r]

-----------------------------------------------------------------------------
(* The same code with a plausible bug, for the properties to find.         *)

\* A registration that overwrites the row of its device.
Overwrite(f) ==
    clients' = {c \in clients : c.device # f.device}
               \cup {[device |-> f.device, email |-> f.email, hash |-> Hash(f.password)]}

\* A refresh handler that looks only at the kind of the token.
RenewsAny(c, s) == c.type = "REFRESH"

\* An access token that ends when one of the login would have ended.
AccessFromLogin(d, l, s) ==
    [type |-> "ACCESS", device |-> d, login |-> l, exp |-> l + AccessLife]

\* A refresh that takes up the session of the cache file, as a restored page does.
KeepCached(p, c) ==
    IF cache # None THEN Hold(p, cache.device, c, cache.renewal)
                    ELSE Hold(p, device[p], c, renewal[p])

\* An exit that empties the cached token and leaves the file.
ExitEmptied(p) ==
    /\ at[p] \in Idle
    /\ Goto(p, "blank")
    /\ Hold(p, None, None, None)
    /\ Save([device |-> device[p], renewal |-> None])
    /\ UNCHANGED <<now, clients, told, form>>

-----------------------------------------------------------------------------
(* Tokens.                                                                 *)

AccessToken(d, l, s)  == [type |-> "ACCESS", device |-> d, login |-> l, exp |-> s + AccessLife]
RefreshToken(d, l, s) == [type |-> "REFRESH", device |-> d, login |-> l, exp |-> s + RefreshLife]

\* The middleware serves a request that carries c at time s.
Accepts(c, s) == c.type = "ACCESS" /\ s < c.exp

\* The refresh handler answers c at time s.
Renews(c, s) == c.type = "REFRESH" /\ s < c.exp

-----------------------------------------------------------------------------
(* Accounts: the form of the terminal and its two handlers.                *)

Submit(p, call) ==
    /\ at[p] = "out"
    /\ Send(p, call)
    /\ \E f \in Forms : form' = [form EXCEPT ![p] = f]
    /\ UNCHANGED <<now, clients, told, cache, session>>

\* The row, unless one has this device or this email.
Insert(f) ==
    /\ \A c \in clients : c.device # f.device /\ c.email # f.email
    /\ clients' = clients \cup {[device |-> f.device, email |-> f.email, hash |-> Hash(f.password)]}

\* Answered 201; or 409, or not at all and then the row may be there.
Register(p) ==
    /\ at[p] = "register"
    /\ \/ /\ Insert(form[p])
          /\ told' = told \cup {<<form[p].device, form[p].password>>}
       \/ /\ "loss" \in SessionFaults \/ "db" \in SessionFaults
          /\ Insert(form[p])
          /\ UNCHANGED told
       \/ /\ \/ "loss" \in SessionFaults \/ "db" \in SessionFaults
             \/ \E c \in clients : c.device = form[p].device \/ c.email = form[p].email
          /\ UNCHANGED <<clients, told>>
    /\ Goto(p, "out")
    /\ form' = [form EXCEPT ![p] = None]
    /\ UNCHANGED <<now, cache, session>>

\* The page keeps both tokens and caches the refresh token.
Login(p) ==
    /\ at[p] = "login"
    /\ \E c \in clients : c.device = form[p].device /\ c.hash = form[p].password
    /\ \E s \in Moments(p) : LET d == form[p].device
                                 r == RefreshToken(d, s, s)
                             IN  /\ Hold(p, d, AccessToken(d, s, s), r)
                                 /\ Save([device |-> d, renewal |-> r])
    /\ Goto(p, "in")
    /\ form' = [form EXCEPT ![p] = None]
    /\ UNCHANGED <<now, clients, told>>

FailLogin(p) ==
    /\ at[p] = "login"
    /\ \/ "loss" \in SessionFaults \/ "db" \in SessionFaults
       \/ \A c \in clients : c.device = form[p].device => c.hash # form[p].password
    /\ Goto(p, "out")
    /\ form' = [form EXCEPT ![p] = None]
    /\ UNCHANGED <<now, clients, told, cache, session>>

-----------------------------------------------------------------------------
(* Sessions: refresh and authorized requests.                              *)

\* A new page takes up the cached session, if there is one.
Open(p) ==
    /\ at[p] = "blank"
    /\ IF cache # None THEN /\ Hold(p, cache.device, None, cache.renewal)
                            /\ Send(p, "restore")
                       ELSE Goto(p, "out") /\ UNCHANGED session
    /\ UNCHANGED <<now, clients, told, cache, form>>

\* The periodic refresh, which comes every four minutes, or the button.
Refresh(p) ==
    /\ at[p] \in Idle
    /\ Send(p, "refresh")
    /\ UNCHANGED <<now, clients, told, cache, form, session>>

\* A request to an endpoint behind the middleware.
Ask(p) ==
    /\ at[p] \in Idle
    /\ Send(p, "ask")
    /\ UNCHANGED <<now, clients, told, cache, form, session>>

KeepToken(p, c) == Hold(p, device[p], c, renewal[p])

\* A new access token.  The page writes its own session into the cache file again.
Refreshed(p) ==
    /\ at[p] \in {"restore", "refresh", "renew"}
    /\ \E s \in Moments(p) :
          /\ Renews(renewal[p], s)
          /\ KeepToken(p, AccessToken(renewal[p].device, renewal[p].login, s))
    /\ Save([device |-> device[p], renewal |-> renewal[p]])
    /\ IF at[p] = "renew" THEN Send(p, "retry") ELSE Goto(p, "in")
    /\ UNCHANGED <<now, clients, told, form>>

\* A page that cannot be restored removes the cache file, whatever it holds by then.
FailRefresh(p) ==
    /\ at[p] \in {"restore", "refresh", "renew"}
    /\ \E lost \in BOOLEAN :
          /\ IF lost THEN "loss" \in SessionFaults
                     ELSE \E s \in Moments(p) : ~Renews(renewal[p], s)
          /\ \/ at[p] = "restore" /\ Goto(p, "out")
             \/ at[p] = "refresh" /\ Goto(p, "in")
             \/ at[p] = "renew" /\ Goto(p, IF lost THEN "missed" ELSE "refused")
    /\ IF at[p] = "restore" THEN Hold(p, None, token[p], None) /\ Save(None)
                            ELSE UNCHANGED <<session, cache>>
    /\ UNCHANGED <<now, clients, told, form>>

\* A 401 leads to a refresh and one more try.
Answer(p) ==
    /\ at[p] \in {"ask", "retry"}
    /\ \/ (\E s \in Moments(p) : Accepts(token[p], s)) /\ Goto(p, "in")
       \/ "loss" \in SessionFaults /\ Goto(p, "in")
       \/ /\ \E s \in Moments(p) : ~Accepts(token[p], s)
          /\ IF at[p] = "ask" THEN Send(p, "renew") ELSE Goto(p, "refused")
    /\ UNCHANGED <<now, clients, told, cache, form, session>>

-----------------------------------------------------------------------------
(* The user and the clock.                                                 *)

Exit(p) ==
    /\ at[p] \in Idle
    /\ Goto(p, "blank")
    /\ Hold(p, None, None, None)
    /\ Save(None)
    /\ UNCHANGED <<now, clients, told, form>>

\* The page is closed, and a new one may be opened in its place.
Reload(p) ==
    /\ at[p] \in Idle \cup {"out"}
    /\ Goto(p, "blank")
    /\ Hold(p, None, None, None)
    /\ UNCHANGED <<now, clients, told, cache, form>>

\* No call outlasts its time-out.
Tick ==
    /\ now < MaxTime
    /\ \A p \in Pages : at[p] \in Calls => now < sent[p] + Timeout
    /\ now' = now + 1
    /\ UNCHANGED <<clients, told, cache, at, sent, form, session>>

PageNext(p) ==
    \/ Submit(p, "register") \/ Register(p)
    \/ Submit(p, "login") \/ Login(p) \/ FailLogin(p)
    \/ Open(p) \/ Refresh(p) \/ Refreshed(p) \/ FailRefresh(p)
    \/ Ask(p) \/ Answer(p)
    \/ Exit(p) \/ Reload(p)

SessionNext == Tick \/ \E p \in Pages : PageNext(p)

SessionSpec == SessionInit /\ [][SessionNext]_sessionvars

-----------------------------------------------------------------------------
(* Properties.                                                             *)

\* Whoever was told "Device Registered. Please Login." can log in with that
\* password ever after, whatever other pages register and whichever answers are
\* lost.  A password that bcrypt refuses is the exception: the handler stores an
\* empty hash and answers 201 all the same.
RegisteredCanLogin ==
    \A d \in Devices, w \in Passwords \ TooLong :
        <<d, w>> \in told => \E c \in clients : c.device = d /\ c.hash = w

\* Pages of different devices share a cache file, and any of them may write or
\* remove it while another waits for an answer.  Still a page orders as the device
\* it shows, with two tokens of one login, and the file never mixes two sessions.
OneSessionPerPage ==
    /\ cache # None => cache.renewal.device = cache.device
    /\ \A p \in Pages : renewal[p] # None =>
          /\ renewal[p].device = device[p]
          /\ token[p] # None => /\ token[p].device = device[p]
                                /\ token[p].login = renewal[p].login

\* However often a session is refreshed, cached, restored and written back by
\* another page, it ends a refresh and an access token's lifetime after the
\* password was checked.
SessionEnds ==
    \A p \in Pages : token[p] # None =>
        token[p].exp < token[p].login + RefreshLife + AccessLife

\* A 401 reaches the user only when the refresh token has run out, or the refresh
\* got no answer: the renewed token cannot run out before the second try.
RefusedOnlyAtTheEnd ==
    \A p \in Pages : at[p] = "refused" => renewal[p].exp =< now
=============================================================================
