------------------------------ MODULE WebClient -------------------------------
(***************************************************************************)
(* The web client of one user: what a tab keeps in memory (access token,   *)
(* status), its requests in flight and the refresh they share, and the     *)
(* cookie that all tabs of a browser use; composed with the sessions of    *)
(* AuthSessions.                                                           *)
(***************************************************************************)
EXTENDS AuthSessions, FiniteSets

CONSTANTS
    Requests,    \* API requests
    TabOf,       \* the tab that sends a request
    Kinds,       \* what a request may be
    LastVisit    \* bound: page loads, sign-ins, sign-outs and mishaps (an answer
                 \* is lost, a call fails)

ASSUME ClientConstants ==
    /\ TabOf \in [Requests -> Tabs]
    /\ Kinds \in [Requests -> SUBSET {"plain", "switch", "create", "endOthers",
                                     "endOther", "mistyped"}]
    /\ LastVisit \in Nat

VARIABLES
    tab,       \* what a page keeps: status and access token
    cookie,    \* the session whose refresh token a browser keeps
    req,       \* API requests
    expired,   \* sessions whose access token has expired
    visits,    \* page loads, sign-ins, sign-outs and mishaps so far
    excused    \* history: browsers whose cookie may be used up, see Excuses

vars == <<serverVars, tab, cookie, req, expired, visits, excused>>

Tab == [status: {"loading", "in", "out"}, token: Sessions \cup {NoSession}]
RequestKind == {"none"} \cup UNION {Kinds[r] : r \in Requests}
Request == [at: {"idle", "sent", "admitted", "committed", "refused",
                 "waiting", "over"},
            kind: RequestKind, token: Sessions \cup {NoSession},
            retried: BOOLEAN, done: 0..2]

TypeOK ==
    /\ session \in [Sessions -> Row]
    /\ issued \in 0..LastSession
    /\ ended \subseteq Sessions
    /\ call \in [Slots -> Call]
    /\ alarm \subseteq Browsers
    /\ tab \in [Tabs -> Tab]
    /\ cookie \in [Browsers -> Sessions \cup {NoSession}]
    /\ req \in [Requests -> Request]
    /\ expired \subseteq Sessions
    /\ visits \in 0..LastVisit
    /\ excused \subseteq Browsers

Init ==
    /\ ServerInit
    /\ tab = [b \in Tabs |-> [status |-> "out", token |-> NoSession]]
    /\ cookie = [d \in Browsers |-> NoSession]
    /\ req = [r \in Requests |-> [at |-> "idle", kind |-> "none",
                 token |-> NoSession, retried |-> FALSE, done |-> 0]]
    /\ expired = {}
    /\ visits = 0
    /\ excused = {}

Of(b) == {r \in Requests : TabOf[r] = b}
InFlight(r) == req[r].at \notin {"idle", "over"}

\* Of a request that is over only how often it was carried out is remembered.
Over(q) == [q EXCEPT !.at = "over", !.kind = "none", !.token = NoSession,
                     !.retried = FALSE]
RefreshSlot(b) == <<b, "refresh">>
SignSlot(b) == <<b, "sign">>
GoneSlot(b) == <<b, "gone">>
SlotsOf(d) == {s \in Slots : BrowserOf[s[1]] = d}

\* The calls of a browser that have been sent with its refresh token to use it.
UsesOf(d) == {s \in SlotsOf(d) : call[s].kind \in {"refresh", "logout"}}

\* Excuses: a browser is excused once one of its tabs sends the cookie to use
\* it while another call that does so is under way, of another tab or of a page
\* that is gone: nothing keeps tabs of a browser apart. So it is once the answer
\* to a rotation is lost, or a rotation fails between its two statements.
ExcuseIf(cond, d) == excused' = IF cond THEN excused \cup {d} ELSE excused

SignedOut == [status |-> "out", token |-> NoSession]
SignedIn(i) == [status |-> "in", token |-> i]

Sent(b, kind) == [Idle EXCEPT !.kind = kind, !.at = "sent",
                              !.session = cookie[BrowserOf[b]]]
Start(s, kind) == call' = [call EXCEPT ![s] = Sent(s[1], kind)]

\* Slip: only a sign-in sets the cookie.
KeepCookieOfLogin(d, c) ==
    cookie' = [cookie EXCEPT
        ![d] = CASE c.at = "granted" /\ c.kind = "login" -> c.session
                 [] c.at = "closed" /\ c.kind = "logout" -> NoSession
                 [] OTHER -> @]

\* The browser keeps the cookie that comes with an answer: sign-in and refresh
\* set it, a sign-out clears it, whatever has become of the session.
KeepCookie(d, c) ==
    cookie' = [cookie EXCEPT
        ![d] = CASE c.at = "granted" -> c.session
                 [] c.at = "closed" /\ c.kind = "logout" -> NoSession
                 [] OTHER -> @]

serverRows == <<session, issued, ended, alarm>>
-----------------------------------------------------------------------------
\* A page load: memory is gone, the cookie stays, and the session is restored
\* by a refresh of its own. One call that was under way is left behind (bound:
\* one at a time).
Load(b) ==
    /\ visits < LastVisit /\ visits' = visits + 1
    /\ call[GoneSlot(b)].at = "idle"
    /\ \E s, t \in {RefreshSlot(b), SignSlot(b)} :
          /\ s # t /\ call[t].at = "idle"
          /\ call' = [call EXCEPT ![GoneSlot(b)] = call[s],
                                  ![RefreshSlot(b)] = Idle,
                                  ![SignSlot(b)] = Sent(b, "refresh")]
    /\ tab' = [tab EXCEPT ![b] = [SignedOut EXCEPT !.status = "loading"]]
    /\ req' = [r \in Requests |-> IF r \in Of(b) /\ InFlight(r)
                                  THEN Over(req[r]) ELSE req[r]]
    /\ ExcuseIf(UsesOf(BrowserOf[b]) # {}, BrowserOf[b])
    /\ UNCHANGED <<serverRows, cookie, expired>>

Login(b) ==
    /\ tab[b].status = "out" /\ call[SignSlot(b)].at = "idle"
    /\ visits < LastVisit /\ visits' = visits + 1
    /\ Start(SignSlot(b), "login")
    /\ tab' = [tab EXCEPT ![b].status = "loading"]
    /\ UNCHANGED <<serverRows, cookie, req, expired, excused>>

Logout(b) ==
    /\ tab[b].status = "in" /\ call[SignSlot(b)].at = "idle"
    /\ visits < LastVisit /\ visits' = visits + 1
    /\ Start(SignSlot(b), "logout")
    /\ ExcuseIf(UsesOf(BrowserOf[b]) # {}, BrowserOf[b])
    /\ UNCHANGED <<serverRows, tab, cookie, req, expired>>

\* The answer to a sign-in, a sign-out or the refresh of a page load.
SignAnswered(b) ==
    LET c == call[SignSlot(b)] IN
    /\ c.at \in {"granted", "closed"}
    /\ call' = [call EXCEPT ![SignSlot(b)] = Idle]
    /\ tab' = [tab EXCEPT ![b] = IF c.at = "granted" THEN SignedIn(c.session)
                                 ELSE SignedOut]
    /\ KeepCookie(BrowserOf[b], c)
    /\ UNCHANGED <<serverRows, req, expired, visits, excused>>

\* Slip: nobody tells those who wait that the refresh has failed.
ResumedIfGranted(q, c) ==
    IF q.at = "waiting" /\ c.at = "granted"
    THEN [q EXCEPT !.at = "sent", !.retried = TRUE, !.token = c.session] ELSE q

\* What becomes of a request when the refresh c has been answered: if it waits,
\* it is sent again with the new token, or gives up.
Resumed(q, c) ==
    CASE q.at # "waiting" -> q
      [] q.at = "waiting" /\ c.at = "granted" ->
            [q EXCEPT !.at = "sent", !.retried = TRUE, !.token = c.session]
      [] OTHER -> Over(q)

ResumeAll(b, c) ==
    req' = [r \in Requests |-> IF r \in Of(b) THEN Resumed(req[r], c) ELSE req[r]]

\* The answer to the refresh that requests share.
RefreshAnswered(b) ==
    LET c == call[RefreshSlot(b)] IN
    /\ c.at \in {"granted", "closed"}
    /\ call' = [call EXCEPT ![RefreshSlot(b)] = Idle]
    /\ tab' = [tab EXCEPT ![b] = IF c.at = "granted" THEN SignedIn(c.session)
                                 ELSE SignedOut]
    /\ KeepCookie(BrowserOf[b], c)
    /\ ResumeAll(b, c)
    /\ UNCHANGED <<serverRows, expired, visits, excused>>

\* Nobody waits for the call of a page that is gone; the browser may keep the
\* cookie of its answer.
OrphanAnswered(b) ==
    LET c == call[GoneSlot(b)] IN
    /\ c.at \in {"granted", "closed"}
    /\ call' = [call EXCEPT ![GoneSlot(b)] = Idle]
    /\ KeepCookie(BrowserOf[b], c) \/ UNCHANGED cookie
    /\ UNCHANGED <<serverRows, tab, req, expired, visits, excused>>

\* The answer does not arrive: the client treats that as a refusal.
AnswerLost(s) ==
    LET b == s[1] IN
    /\ call[s].at \in {"granted", "closed"} /\ s # GoneSlot(b)
    /\ visits < LastVisit /\ visits' = visits + 1
    /\ call' = [call EXCEPT ![s] = Idle]
    /\ tab' = [tab EXCEPT ![b] = SignedOut]
    /\ IF s = RefreshSlot(b) THEN ResumeAll(b, Idle) ELSE UNCHANGED req
    /\ ExcuseIf(call[s].at = "granted" /\ call[s].kind = "refresh", BrowserOf[b])
    /\ UNCHANGED <<serverRows, cookie, expired>>

\* A call fails on the API (CallFails).
CallBreaks(s) ==
    /\ CallFails(s)
    /\ visits < LastVisit /\ visits' = visits + 1
    /\ ExcuseIf(call[s].at = "issuing" /\ call[s].kind = "refresh", BrowserOf[s[1]])
    /\ UNCHANGED <<tab, cookie, req, expired>>

-----------------------------------------------------------------------------
To(r, at) == req' = [req EXCEPT ![r].at = at]
GoesOver(r) == req' = [req EXCEPT ![r] = Over(@)]
Done(r) ==
    req' = [req EXCEPT ![r] = [Over(@) EXCEPT !.done = req[r].done + 1]]
OnlyRequest == UNCHANGED <<serverVars, tab, cookie, expired, visits, excused>>

\* sendRequest: a request takes the token the tab has.
Send(r) ==
    /\ req[r].at = "idle" /\ tab[TabOf[r]].token # NoSession
    /\ \E k \in Kinds[r] :
          req' = [req EXCEPT ![r].at = "sent", ![r].kind = k,
                             ![r].token = tab[TabOf[r]].token]
    /\ OnlyRequest

\* The guard refuses (401) a token that has expired or whose session is over.
Guard(r) ==
    LET i == req[r].token
        ok == Live(i) /\ i \notin expired
    IN
    /\ req[r].at = "sent"
    /\ To(r, IF ok THEN "admitted" ELSE "refused")
    /\ OnlyRequest

\* A request that has been carried out is over: its answer changes nothing in
\* the client, whether it arrives or not. Most handlers never answer 401 ...
Plain(r) ==
    /\ req[r].kind = "plain" /\ Done(r) /\ OnlyRequest

\* ... updateCurrentWorkspace does when the session is over by now: switching
\* the workspace does nothing else,
Switch(r) ==
    /\ req[r].kind = "switch"
    /\ IF Live(req[r].token) THEN Done(r) ELSE To(r, "refused")
    /\ OnlyRequest

Creates(r) == req' = [req EXCEPT ![r].at = "committed", ![r].done = @ + 1]

\* Slip: the second attempt creates another one.
CreateAgain(r) ==
    /\ req[r].kind = "create" /\ Creates(r) /\ OnlyRequest

\* creating one has committed by then, and its slug is taken: the second
\* attempt answers a conflict.
Create(r) ==
    /\ req[r].kind = "create"
    /\ IF req[r].done = 0 THEN Creates(r) ELSE GoesOver(r)
    /\ OnlyRequest

CreateSelects(r) ==
    /\ req[r].at = "committed"
    /\ IF Live(req[r].token) THEN GoesOver(r) ELSE To(r, "refused")
    /\ OnlyRequest

\* A wrong current password is answered like a session that is over.
Mistyped(r) ==
    /\ req[r].kind = "mistyped" /\ To(r, "refused") /\ OnlyRequest

\* Changing the password, or ending all other sessions.
EndOthersHandled(r) ==
    /\ req[r].kind = "endOthers" /\ EndOthers(req[r].token)
    /\ Done(r)
    /\ UNCHANGED <<tab, cookie, expired, visits, excused>>

\* Ending one other session of the list.
EndOtherHandled(r) ==
    /\ req[r].kind = "endOther"
    /\ \/ \E i \in Sessions : EndOther(req[r].token, i)
       \/ UNCHANGED serverVars
    /\ Done(r)
    /\ UNCHANGED <<tab, cookie, expired, visits, excused>>

Handle(r) ==
    /\ req[r].at = "admitted"
    /\ \/ Plain(r) \/ Switch(r) \/ Create(r) \/ Mistyped(r)
       \/ EndOthersHandled(r) \/ EndOtherHandled(r)

\* The refusal is lost: reported to the user, never sent again.
RefusalLost(r) ==
    /\ req[r].at = "refused" /\ visits < LastVisit /\ visits' = visits + 1
    /\ GoesOver(r)
    /\ UNCHANGED <<serverVars, tab, cookie, expired, excused>>

\* 401 at the client: a request that has been sent again signs the tab out.
GiveUp(r) ==
    /\ req[r].at = "refused" /\ req[r].retried
    /\ GoesOver(r)
    /\ tab' = [tab EXCEPT ![TabOf[r]] = SignedOut]
    /\ UNCHANGED <<serverVars, cookie, expired, visits, excused>>

\* Slip: every request starts a refresh.
AwaitOwnRefresh(r) ==
    LET s == RefreshSlot(TabOf[r])
        d == BrowserOf[TabOf[r]]
    IN
    /\ req[r].at = "refused" /\ ~req[r].retried
    /\ To(r, "waiting")
    /\ Start(s, "refresh") /\ ExcuseIf(UsesOf(d) \ {s} # {}, d)
    /\ UNCHANGED <<serverRows, tab, cookie, expired, visits>>

\* 401 at the client: another one waits for the refresh under way, or starts it.
AwaitRefresh(r) ==
    LET s == RefreshSlot(TabOf[r])
        d == BrowserOf[TabOf[r]]
    IN
    /\ req[r].at = "refused" /\ ~req[r].retried
    /\ To(r, "waiting")
    /\ IF call[s].at = "idle"
       THEN Start(s, "refresh") /\ ExcuseIf(UsesOf(d) # {}, d)
       ELSE UNCHANGED <<call, excused>>
    /\ UNCHANGED <<serverRows, tab, cookie, expired, visits>>

\* An access token outlives neither its fifteen minutes nor, in this model,
\* less than the retry it was obtained for.
AccessExpires(i) ==
    /\ Live(i) /\ i \notin expired /\ \E b \in Tabs : tab[b].token = i
    /\ \A r \in Requests :
          ~(InFlight(r) /\ req[r].retried /\ req[r].token = i)
    /\ expired' = expired \cup {i}
    /\ UNCHANGED <<serverVars, tab, cookie, req, visits, excused>>

ClientUnchanged == UNCHANGED <<tab, cookie, req, expired, visits, excused>>

RequestStep(r) ==
    \/ Guard(r) \/ Handle(r) \/ CreateSelects(r)
    \/ GiveUp(r) \/ AwaitRefresh(r)

Answered(b) == SignAnswered(b) \/ RefreshAnswered(b) \/ OrphanAnswered(b)

Next ==
    \/ \E b \in Tabs : Load(b) \/ Login(b) \/ Logout(b) \/ Answered(b)
    \/ \E s \in Slots : (CallStep(s) /\ ClientUnchanged) \/ CallBreaks(s)
                         \/ AnswerLost(s)
    \/ \E r \in Requests : Send(r) \/ RequestStep(r) \/ RefusalLost(r)
    \/ \E i \in Sessions : AccessExpires(i)
    \/ EndAll /\ ClientUnchanged

Spec == Init /\ [][Next]_vars

\* The API answers what it has received, and a tab handles what it receives.
Fairness ==
    /\ \A b \in Tabs : WF_vars(Answered(b))
    /\ \A s \in Slots : WF_vars(CallStep(s) /\ ClientUnchanged)
    /\ \A r \in Requests : WF_vars(RequestStep(r))

FairSpec == Spec /\ Fairness

-----------------------------------------------------------------------------
\* The user stays signed in: whenever no call that uses the cookie of a browser
\* is under way, the cookie names a live session, unless the session has been
\* ended on request, here or from elsewhere. Tabs that refresh it one after the
\* other keep it so; the exceptions are the excuses.
KeptSignedIn ==
    \A d \in Browsers \ excused :
        UsesOf(d) = {} /\ cookie[d] # NoSession =>
            Live(cookie[d]) \/ Ended(cookie[d])

\* Reuse of a refresh token, which ends every session of the user, is detected
\* for no browser that is not excused.
NoFalseAlarm == alarm \subseteq excused

\* Sending a request again never carries it out a second time.
ExecutedOnce == \A r \in Requests : req[r].done <= 1

\* A request ends, and so does the restoring of a session: nobody waits for a
\* refresh that nobody runs, or for an answer that nobody gives. (Sessions are
\* never used up in the code.)
RequestsEnd ==
    /\ \A r \in Requests :
          InFlight(r) ~> (~InFlight(r) \/ issued = LastSession)
    /\ \A b \in Tabs :
          tab[b].status = "loading" ~>
             (tab[b].status # "loading" \/ issued = LastSession)
=============================================================================
