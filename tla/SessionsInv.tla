----------------------------- MODULE SessionsInv -----------------------------
(***************************************************************************)
(* The inductive invariant of Sessions: what a page holds in each of its   *)
(* states, and how old it may be.  SessionsProofs proves it and            *)
(* MCSessions lets TLC check it.                                           *)
(***************************************************************************)
EXTENDS Sessions

\* Logged out, and in a session.
Outside == {"blank", "out", "register", "login"}
Inside  == Idle \cup {"refresh", "ask", "renew", "retry"}

\* A refresh token that lives as long as it did when its password was checked.
IsRefresh(r) ==
    r \in Claims /\ r.type = "REFRESH" /\ r.exp = r.login + RefreshLife

\* An access token of the session of r, minted while r was alive.
IsAccess(a, r) ==
    /\ a \in Claims /\ a.type = "ACCESS"
    /\ a.device = r.device /\ a.login = r.login
    /\ a.exp < r.exp + AccessLife

\* The tokens that a page in state s may hold.
HeldOK(s, d, a, r) ==
    /\ s \in Outside => d = None /\ a = None /\ r = None
    /\ s \notin Outside => d \in Devices /\ IsRefresh(r) /\ r.device = d
    /\ s = "restore" => a = None
    /\ s \in Inside => IsAccess(a, r)

\* What page s waits for, sent at time t, at time n.
TimedOK(s, t, n, a, r) ==
    /\ s \in Calls => t =< n /\ n =< t + Timeout
    /\ s = "retry" => t + Timeout < a.exp
    /\ s = "refused" => r.exp =< n

FormOK(s, f) == s \in {"register", "login"} => f \in Forms

PageInv(p) ==
    /\ FormOK(at[p], form[p])
    /\ HeldOK(at[p], device[p], token[p], renewal[p])
    /\ TimedOK(at[p], sent[p], now, token[p], renewal[p])

\* The cache file is removed or holds one session.
CacheOK(c) ==
    \/ c = None
    \/ /\ c \in [device : Devices, renewal : Claims]
       /\ IsRefresh(c.renewal) /\ c.renewal.device = c.device

SessionInv ==
    /\ SessionTypeOK
    /\ \A p \in Pages : PageInv(p)
    /\ CacheOK(cache)
=============================================================================
