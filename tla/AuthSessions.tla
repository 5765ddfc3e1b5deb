----------------------------- MODULE AuthSessions -----------------------------
(***************************************************************************)
(* The sessions of one user on the API: rows of AuthSession, and the calls *)
(* that sign in, rotate a refresh token and sign out. No call uses a       *)
(* transaction, so each of its database statements is an action of its     *)
(* own and two calls may meet between any two of them.                     *)
(***************************************************************************)
EXTENDS Naturals

CONSTANTS
    Tabs,          \* open pages of the web client
    Browsers,
    BrowserOf,     \* whose cookies a tab uses: tabs of one browser share them
    LastSession    \* bound: sessions ever issued

ASSUME SessionConstants ==
    /\ LastSession \in Nat
    /\ BrowserOf \in [Tabs -> Browsers]

Sessions == 1..LastSession
NoSession == 0

VARIABLES
    session,   \* rows by session number
    issued,    \* rows created so far
    ended,     \* history: sessions revoked because somebody asked for it
    call,      \* the calls of a tab to /auth, by slot
    alarm      \* history: browsers whose token was found used, not ended

serverVars == <<session, issued, ended, call, alarm>>

\* A page has one refresh under way at most (inFlightRefresh, a variable of the
\* page) and, beside it, one of: sign in, sign out, the refresh it starts with.
\* The page that was in the tab before may have left one of these behind.
Slots == Tabs \X {"refresh", "sign", "gone"}
Idle == [kind |-> "none", at |-> "idle", session |-> NoSession, late |-> FALSE]
NoRow == [status |-> "none", line |-> {}, late |-> FALSE]

\* History of a row: its line are the sessions it was rotated from and itself,
\* late says that one of them was revoked while it was being rotated.
Row == [status: {"none", "live", "revoked"}, line: SUBSET Sessions,
        late: BOOLEAN]
Call == [kind: {"none", "refresh", "login", "logout"},
         at: {"idle", "sent", "reused", "revoking", "issuing", "granted",
              "closed"},
         session: Sessions \cup {NoSession}, late: BOOLEAN]

ServerInit ==
    /\ session = [i \in Sessions |-> NoRow]
    /\ issued = 0
    /\ ended = {}
    /\ call = [s \in Slots |-> Idle]
    /\ alarm = {}

Live(i) == i \in Sessions /\ session[i].status = "live"

\* Somebody asked to end the session, or one it was rotated from.
Ended(i) == session[i].line \cap ended # {}

\* Slip: the condition on the row is forgotten, only the first row goes.
RevokedOldest(S) ==
    [i \in Sessions |-> IF i \in S /\ Live(i) /\ \A j \in S : Live(j) => j >= i
                        THEN [session[i] EXCEPT !.status = "revoked"]
                        ELSE session[i]]

\* Slip: the rows are deleted.
Deleted(S) == [i \in Sessions \ S |-> session[i]]

\* updateMany: the rows of S that are not revoked yet are revoked.
RevokedRows(S) ==
    [i \in Sessions |-> IF i \in S /\ Live(i)
                        THEN [session[i] EXCEPT !.status = "revoked"]
                        ELSE session[i]]

\* The sessions S are revoked because somebody asked for it.
End(S) ==
    /\ session' = RevokedRows(S)
    /\ ended' = ended \cup {i \in S : Live(i)}

GoTo(s, at) == call' = [call EXCEPT ![s].at = at]

-----------------------------------------------------------------------------
\* resolveRefreshSession: the token names a row. A revoked row means that the
\* token has been used before.
Resolve(s) ==
    LET k == call[s].session IN
    /\ call[s].at = "sent"
    /\ call[s].kind \in {"refresh", "logout"}
    /\ GoTo(s, IF k = NoSession THEN "closed"
               ELSE IF Live(k) THEN "revoking" ELSE "reused")
    /\ UNCHANGED <<session, issued, ended, alarm>>

\* Reuse: every session of the user is revoked, the call is refused.
RevokeReused(s) ==
    /\ call[s].at = "reused"
    /\ End(Sessions)
    /\ GoTo(s, "closed")
    /\ alarm' = IF Ended(call[s].session) THEN alarm ELSE alarm \cup {BrowserOf[s[1]]}
    /\ UNCHANGED issued

\* revokeSession: of a refresh, before the next session is issued; whether the
\* row was still there to be revoked is not looked at ...
RevokeOld(s) ==
    LET k == call[s].session IN
    /\ call[s].at = "revoking" /\ call[s].kind = "refresh"
    /\ session' = RevokedRows({k})
    /\ call' = [call EXCEPT ![s].at = "issuing",
                            ![s].late = session[k].late \/ ~Live(k)]
    /\ UNCHANGED <<issued, ended, alarm>>

\* ... and of a sign-out.
RevokeOwn(s) ==
    /\ call[s].at = "revoking" /\ call[s].kind = "logout"
    /\ End({call[s].session})
    /\ GoTo(s, "closed")
    /\ UNCHANGED <<issued, alarm>>

\* login: the user is read and the password compared.
Verify(s) ==
    /\ call[s].at = "sent" /\ call[s].kind = "login"
    /\ GoTo(s, "issuing")
    /\ UNCHANGED <<session, issued, ended, alarm>>

\* issueSession, of a login or a refresh.
Issue(s) ==
    LET i == issued + 1
        old == IF call[s].kind = "refresh" THEN session[call[s].session].line
               ELSE {}
    IN
    /\ call[s].at = "issuing"
    /\ i \in Sessions
    /\ issued' = i
    /\ session' = [session EXCEPT ![i] = [status |-> "live", line |-> old \cup {i},
                                          late |-> call[s].late]]
    /\ call' = [call EXCEPT ![s].at = "granted", ![s].session = i]
    /\ UNCHANGED <<ended, alarm>>

\* A reset of the password (in its transaction) and an administrator's
\* revocation end every session of the user.
EndAll ==
    /\ \E i \in Sessions : Live(i)
    /\ End(Sessions)
    /\ UNCHANGED <<issued, call, alarm>>

\* changePassword, revokeOtherUserSessions: all but the session k of the
\* request. A session that k has been rotated into meanwhile is one of them.
EndOthers(k) ==
    /\ End(Sessions \ {k})
    /\ UNCHANGED <<issued, call, alarm>>

\* revokeUserSession: one other session, by its number. If it has been rotated
\* meanwhile nothing happens.
EndOther(k, i) ==
    /\ i # k /\ Live(i)
    /\ End({i})
    /\ UNCHANGED <<issued, call, alarm>>

\* A call fails: the rate limit refuses it, a statement fails, the API is
\* restarted. What has been done so far stays.
CallFails(s) ==
    /\ call[s].at \in {"sent", "reused", "revoking", "issuing"}
    /\ GoTo(s, "closed")
    /\ UNCHANGED <<session, issued, ended, alarm>>

CallStep(s) ==
    \/ Resolve(s) \/ RevokeReused(s) \/ RevokeOld(s) \/ RevokeOwn(s)
    \/ Verify(s) \/ Issue(s)

-----------------------------------------------------------------------------
\* A session that has been ended, by signing out, from another device, by a
\* change or reset of the password or because of a reused token, is not live,
\* and no session it was rotated into is, unless the refresh had read its token
\* before the end and revoked it after.
EndedStaysEnded == \A i \in Sessions : Live(i) /\ Ended(i) => session[i].late
=============================================================================
