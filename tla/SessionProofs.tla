---------------------------- MODULE SessionProofs -----------------------------
(***************************************************************************)
(* Theorems about the sessions of a user and the web client, for any       *)
(* number of browsers, tabs, requests and sessions: the type invariant,    *)
(* that a session which has been ended stays ended, that a request is      *)
(* carried out at most once, and that a browser which is not excused       *)
(* raises no false alarm and keeps a cookie it can use, unless the session *)
(* has been ended. The last two rest on one fact: such a browser has one   *)
(* call under way at most that uses its cookie, and the cookie is live,    *)
(* has been ended, or is being rotated by that call.                       *)
(***************************************************************************)
EXTENDS WebClient, TLAPS

Given == 1..issued

\* Rows are numbered as they are created, and a row is in its own line.
RowsNumbered ==
    /\ ended \subseteq Given
    /\ \A i \in Sessions : session[i].line \subseteq Given
    /\ \A i \in Sessions :
          session[i].status # "none" => i \in Given /\ i \in session[i].line

\* A session is rotated only once it is no longer live.
LineOver == \A i \in Sessions : \A j \in session[i].line \ {i} : ~Live(j)

\* Between its two statements, a refresh has a row that is no longer live and,
\* unless it is late, has not been ended.
Placed(c) ==
    /\ c \in Call
    /\ c.at = "revoking" => c.session \in Given
    /\ c.at = "issuing" /\ c.kind = "refresh" =>
          /\ c.session \in Given
          /\ \A j \in {c.session} \cup session[c.session].line : ~Live(j)
          /\ c.late \/ ~Ended(c.session)

RowsTyped ==
    /\ session \in [Sessions -> Row]
    /\ issued \in 0..LastSession
    /\ alarm \subseteq Browsers

ServerInv ==
    /\ RowsTyped
    /\ RowsNumbered
    /\ LineOver
    /\ EndedStaysEnded
    /\ call \in [Slots -> Call]
    /\ \A s \in Slots : Placed(call[s])

\* A request that has been carried out is over, except the creation of a
\* workspace, whose second attempt finds what the first has left.
Once(q) ==
    /\ q \in Request
    /\ q.at = "idle" => q.done = 0 /\ ~q.retried
    /\ q.done = 0 \/ (q.done = 1 /\ (q.at = "over" \/ q.kind = "create"))

ClientInv ==
    /\ tab \in [Tabs -> Tab]
    /\ cookie \in [Browsers -> Sessions \cup {NoSession}]
    /\ req \in [Requests -> Request]
    /\ \A r \in Requests : Once(req[r])
    /\ expired \subseteq Sessions
    /\ visits \in 0..LastVisit
    /\ excused \subseteq Browsers

Inv == ServerInv /\ ClientInv

-----------------------------------------------------------------------------
LEMMA SessionsAreNumbers ==
  /\ Sessions \subseteq Nat /\ NoSession \notin Sessions
  /\ \A i \in Sessions : 1 <= i /\ i <= LastSession
  BY SessionConstants DEF Sessions, NoSession

LEMMA GivenAreSessions ==
  ASSUME RowsTyped  PROVE  Given \subseteq Sessions /\ issued \in Nat
  BY SessionConstants DEF RowsTyped, Given, Sessions

LEMMA IdleTyped == Idle \in Call
  BY DEF Idle, Call, NoSession

LEMMA KindsTyped ==
  "none" \in RequestKind /\ \A r \in Requests : Kinds[r] \subseteq RequestKind
<1>1. ASSUME NEW r \in Requests, NEW k \in Kinds[r]  PROVE k \in RequestKind
  <2>1. Kinds[r] \in {Kinds[q] : q \in Requests}
    OBVIOUS
  <2>2. k \in UNION {Kinds[q] : q \in Requests}
    BY <2>1
  <2>. QED  BY <2>2 DEF RequestKind
<1>2. "none" \in RequestKind
  BY DEF RequestKind
<1>. QED  BY <1>1, <1>2

\* The initial states satisfy the invariant.
LEMMA InitInv == Init => Inv
<1>. SUFFICES ASSUME Init  PROVE Inv
  OBVIOUS
<1>1. NoRow \in Row /\ NoRow.status = "none" /\ NoRow.line = {}
  BY DEF NoRow, Row
<1>2. RowsTyped /\ RowsNumbered /\ LineOver /\ EndedStaysEnded
  BY <1>1, SessionConstants DEF Init, ServerInit, RowsTyped, RowsNumbered,
     LineOver, EndedStaysEnded, Live
<1>3. call \in [Slots -> Call] /\ \A s \in Slots : call[s] = Idle
  BY IdleTyped DEF Init, ServerInit
<1>4. Placed(Idle)
  BY IdleTyped DEF Placed, Idle
<1>5. ServerInv
  BY <1>2, <1>3, <1>4 DEF ServerInv
<1>6. tab \in [Tabs -> Tab] /\ cookie \in [Browsers -> Sessions \cup {NoSession}]
  BY DEF Init, Tab, NoSession
<1>7. ASSUME NEW q, q = [at |-> "idle", kind |-> "none", token |-> NoSession,
                         retried |-> FALSE, done |-> 0]
      PROVE  q \in Request /\ Once(q)
  <2>1. q \in Request
    BY <1>7, KindsTyped DEF Request, NoSession
  <2>. QED  BY <1>7, <2>1 DEF Once
<1>8. req \in [Requests -> Request] /\ \A r \in Requests : Once(req[r])
  BY <1>7 DEF Init
<1>9. 0 \in 0..LastVisit
  BY ClientConstants
<1>10. ClientInv
  BY <1>6, <1>8, <1>9 DEF Init, ClientInv
<1>. QED  BY <1>5, <1>10 DEF Inv

-----------------------------------------------------------------------------
\* Calls move, the rows stay.
LEMMA CallsMove ==
  ASSUME ServerInv, call' \in [Slots -> Call], \A t \in Slots : Placed(call'[t]),
         UNCHANGED <<session, issued, ended>>, alarm' \subseteq Browsers
  PROVE  ServerInv'
<1>1. \A t \in Slots : Placed(call[t])'
  BY DEF Placed, Given, Live, Ended
<1>2. (RowsTyped /\ RowsNumbered /\ LineOver /\ EndedStaysEnded)'
  BY DEF ServerInv, RowsTyped, RowsNumbered, LineOver, EndedStaysEnded, Given,
     Live, Ended
<1>. QED  BY <1>1, <1>2 DEF ServerInv

\* One call moves, the rows stay.
LEMMA CallMoves ==
  ASSUME ServerInv, NEW s \in Slots, NEW c, Placed(c),
         call' = [call EXCEPT ![s] = c],
         UNCHANGED <<session, issued, ended>>, alarm' \subseteq Browsers
  PROVE  ServerInv'
<1>1. c \in Call /\ call \in [Slots -> Call] /\ \A t \in Slots : Placed(call[t])
  BY DEF Placed, ServerInv
<1>2. call' \in [Slots -> Call] /\ \A t \in Slots : Placed(call'[t])
  BY <1>1
<1>. QED  BY <1>2, CallsMove

\* What revoking rows does to them.
LEMMA RevokedRowsAre ==
  ASSUME RowsTyped, NEW S, session' = RevokedRows(S)
  PROVE  /\ session' \in [Sessions -> Row]
         /\ \A i \in Sessions :
               /\ session'[i].line = session[i].line
               /\ session'[i].late = session[i].late
               /\ session'[i].status = "none" <=> session[i].status = "none"
               /\ Live(i)' <=> Live(i) /\ i \notin S
<1>1. \A i \in Sessions : session[i] \in Row
  BY DEF RowsTyped
<1>2. \A i \in Sessions :
         [session[i] EXCEPT !.status = "revoked"] \in Row
  BY <1>1 DEF Row
<1>3. session' \in [Sessions -> Row]
  BY <1>1, <1>2 DEF RevokedRows
<1>4. ASSUME NEW i \in Sessions
      PROVE  /\ session'[i].line = session[i].line
             /\ session'[i].late = session[i].late
             /\ session'[i].status = "none" <=> session[i].status = "none"
             /\ Live(i)' <=> Live(i) /\ i \notin S
  BY <1>1 DEF RevokedRows, Row, Live
<1>. QED  BY <1>3, <1>4

\* Sessions are ended: those that stay live have none of them in their line.
LEMMA EndKeepsRows ==
  ASSUME ServerInv, NEW S, End(S), issued' = issued
  PROVE  /\ (session \in [Sessions -> Row])'
         /\ RowsNumbered' /\ LineOver' /\ EndedStaysEnded'
         /\ \A s \in Slots : \A c : c = call[s] /\ Placed(c) => Placed(c)'
<1>. DEFINE New == {i \in S : Live(i)}
<1>1. /\ RowsTyped /\ RowsNumbered /\ LineOver /\ EndedStaysEnded
      /\ Given \subseteq Sessions /\ Given' = Given
  BY GivenAreSessions DEF ServerInv, Given
<1>2. /\ session' \in [Sessions -> Row]
      /\ \A i \in Sessions :
            /\ session'[i].line = session[i].line
            /\ session'[i].late = session[i].late
            /\ session'[i].status = "none" <=> session[i].status = "none"
            /\ Live(i)' <=> Live(i) /\ i \notin S
  BY <1>1, RevokedRowsAre DEF End
<1>3. ended' = ended \cup New /\ New \subseteq Given
  BY <1>1 DEF End, Live, RowsNumbered
<1>4. RowsNumbered'
  BY <1>1, <1>2, <1>3 DEF RowsNumbered
<1>5. LineOver'
  BY <1>1, <1>2 DEF LineOver, Live
<1>6. ASSUME NEW i \in Sessions, Live(i)', Ended(i)'
      PROVE  session'[i].late
  <2>1. Live(i) /\ i \notin S
    BY <1>2, <1>6 DEF Live
  <2>2. session[i].line \cap New = {}
    BY <1>1, <2>1 DEF LineOver
  <2>3. Ended(i)
    BY <1>2, <1>3, <1>6, <2>2 DEF Ended
  <2>. QED  BY <1>1, <1>2, <2>1, <2>3 DEF EndedStaysEnded
<1>7. EndedStaysEnded'
  BY <1>6 DEF EndedStaysEnded
<1>8. ASSUME NEW c, Placed(c)  PROVE Placed(c)'
  <2>1. CASE c.at = "issuing" /\ c.kind = "refresh"
    <3>. DEFINE k == c.session
    <3>1. k \in Given /\ k \in Sessions
      BY <1>1, <1>8, <2>1 DEF Placed
    <3>2. \A j \in {k} \cup session[k].line : ~Live(j)
      BY <1>8, <2>1 DEF Placed
    <3>3. \A j \in {k} \cup session'[k].line : ~Live(j)'
      BY <1>1, <1>2, <3>1, <3>2 DEF RowsNumbered
    <3>4. Ended(k)' => Ended(k)
      BY <1>2, <1>3, <3>1, <3>2 DEF Ended
    <3>. QED  BY <1>1, <1>8, <2>1, <3>1, <3>3, <3>4 DEF Placed
  <2>2. CASE ~(c.at = "issuing" /\ c.kind = "refresh")
    BY <1>1, <1>8, <2>2 DEF Placed
  <2>. QED  BY <2>1, <2>2
<1>. QED  BY <1>2, <1>4, <1>5, <1>7, <1>8

\* Sessions are ended, and at most one call moves.
LEMMA EndInv ==
  ASSUME ServerInv, NEW S, End(S), issued' = issued, alarm' \subseteq Browsers,
         \/ call' = call
         \/ \E s \in Slots : \E c : Placed(c) /\ c.at = "closed"
                                  /\ call' = [call EXCEPT ![s] = c]
  PROVE  ServerInv'
<1>1. /\ (session \in [Sessions -> Row])'
      /\ RowsNumbered' /\ LineOver' /\ EndedStaysEnded'
      /\ \A s \in Slots : Placed(call[s]) => \A c : c = call[s] => Placed(c)'
  BY EndKeepsRows
<1>2. RowsTyped'
  BY <1>1 DEF ServerInv, RowsTyped
<1>3. CASE call' = call
  BY <1>1, <1>2, <1>3 DEF ServerInv, Placed
<1>4. ASSUME NEW s \in Slots, NEW c, Placed(c), c.at = "closed",
             call' = [call EXCEPT ![s] = c]
      PROVE  ServerInv'
  <2>1. c \in Call /\ Placed(c)'
    BY <1>4 DEF Placed
  <2>2. call' \in [Slots -> Call]
    BY <1>4, <2>1 DEF ServerInv
  <2>3. ASSUME NEW t \in Slots  PROVE Placed(call[t])'
    <3>1. CASE t = s
      BY <1>4, <2>1, <3>1 DEF ServerInv, Placed
    <3>2. CASE t # s
      <4>1. call'[t] = call[t] /\ Placed(call[t])
        BY <1>4, <3>2 DEF ServerInv
      <4>. QED  BY <1>1, <4>1 DEF Placed
    <3>. QED  BY <3>1, <3>2
  <2>. QED  BY <1>1, <1>2, <2>2, <2>3 DEF ServerInv
<1>. QED  BY <1>3, <1>4

\* The first statement of a rotation. If the row was live and not late, nobody
\* has ended it or one it was rotated from.
LEMMA RevokeOldInv ==
  ASSUME ServerInv, NEW s \in Slots, RevokeOld(s)
  PROVE  ServerInv'
<1>. DEFINE k == call[s].session
            c == call'[s]
<1>1. /\ RowsTyped /\ RowsNumbered /\ LineOver /\ EndedStaysEnded
      /\ Given \subseteq Sessions /\ Given' = Given
      /\ call \in [Slots -> Call] /\ \A t \in Slots : Placed(call[t])
  BY GivenAreSessions DEF ServerInv, Given, RevokeOld
<1>2. /\ session' \in [Sessions -> Row]
      /\ \A i \in Sessions :
            /\ session'[i].line = session[i].line
            /\ session'[i].late = session[i].late
            /\ session'[i].status = "none" <=> session[i].status = "none"
            /\ Live(i)' <=> Live(i) /\ i \notin {k}
  BY <1>1, RevokedRowsAre DEF RevokeOld
<1>3. k \in Given /\ k \in Sessions
  BY <1>1 DEF RevokeOld, Placed
<1>4. ended' = ended /\ alarm' = alarm /\ issued' = issued
  BY DEF RevokeOld
<1>5. RowsTyped' /\ RowsNumbered' /\ LineOver' /\ EndedStaysEnded'
  <2>1. RowsTyped'
    BY <1>1, <1>2, <1>4 DEF RowsTyped
  <2>2. RowsNumbered'
    BY <1>1, <1>2, <1>4 DEF RowsNumbered
  <2>3. LineOver'
    BY <1>1, <1>2 DEF LineOver, Live
  <2>4. EndedStaysEnded'
    BY <1>1, <1>2, <1>4 DEF EndedStaysEnded, Ended, Live
  <2>. QED  BY <2>1, <2>2, <2>3, <2>4
<1>6. c = [call[s] EXCEPT !.at = "issuing", !.late = session[k].late \/ ~Live(k)]
      /\ call' = [call EXCEPT ![s] = c]
  BY <1>1 DEF RevokeOld
<1>7. /\ c \in Call /\ c.at = "issuing" /\ c.session = k
      /\ c.late <=> session[k].late \/ ~Live(k)
  <2>1. call[s] \in Call /\ session[k].late \in BOOLEAN
    BY <1>1, <1>3 DEF RowsTyped, Row
  <2>. QED  BY <1>6, <2>1 DEF Call
<1>8. ASSUME NEW d, Placed(d)  PROVE Placed(d)'
  <2>1. CASE d.at = "issuing" /\ d.kind = "refresh"
    <3>1. d.session \in Given /\ d.session \in Sessions
          /\ (\A j \in {d.session} \cup session[d.session].line : ~Live(j))
          /\ (d.late \/ ~Ended(d.session))
      BY <1>1, <1>8, <2>1 DEF Placed
    <3>2. \A j \in {d.session} \cup session'[d.session].line : ~Live(j)'
      BY <1>1, <1>2, <3>1 DEF RowsNumbered
    <3>3. Ended(d.session)' <=> Ended(d.session)
      BY <1>2, <1>4, <3>1 DEF Ended
    <3>. QED  BY <1>1, <1>8, <2>1, <3>1, <3>2, <3>3 DEF Placed
  <2>2. CASE ~(d.at = "issuing" /\ d.kind = "refresh")
    BY <1>1, <1>8, <2>2 DEF Placed
  <2>. QED  BY <2>1, <2>2
<1>9. Placed(call[s])'
  <2>1. \A j \in {k} \cup session'[k].line : ~Live(j)'
    BY <1>1, <1>2, <1>3 DEF RowsNumbered, LineOver
  <2>2. c.late \/ session'[k].line \cap ended' = {}
    BY <1>1, <1>2, <1>3, <1>4, <1>7 DEF EndedStaysEnded, Ended
  <2>. QED  BY <1>1, <1>3, <1>7, <2>1, <2>2 DEF Placed, Ended
<1>10. call' \in [Slots -> Call]
  BY <1>1, <1>6, <1>7
<1>11. ASSUME NEW t \in Slots  PROVE Placed(call[t])'
  <2>1. CASE t = s
    BY <1>9, <2>1 DEF Placed
  <2>2. CASE t # s
    <3>1. call'[t] = call[t] /\ Placed(call[t])
      BY <1>1, <1>6, <2>2
    <3>2. \A d : d = call[t] => Placed(d)'
      BY <1>8, <3>1
    <3>. QED  BY <3>1, <3>2 DEF Placed
  <2>. QED  BY <2>1, <2>2
<1>. QED  BY <1>5, <1>10, <1>11 DEF ServerInv

\* The second statement: the new row has a number nobody has ended and no line
\* contains, and inherits a line nobody has ended unless the refresh is late.
LEMMA IssueInv ==
  ASSUME ServerInv, NEW s \in Slots, Issue(s)
  PROVE  ServerInv'
<1>. DEFINE i == issued + 1
            k == call[s].session
            old == IF call[s].kind = "refresh" THEN session[k].line ELSE {}
            row == [status |-> "live", line |-> old \cup {i},
                    late |-> call[s].late]
            c == call'[s]
<1>1. /\ RowsTyped /\ RowsNumbered /\ LineOver /\ EndedStaysEnded
      /\ Given \subseteq Sessions
      /\ call \in [Slots -> Call] /\ \A t \in Slots : Placed(call[t])
      /\ call[s] \in Call
  BY GivenAreSessions DEF ServerInv
<1>2. issued \in Nat /\ i \in Sessions /\ i \notin Given /\ Given' = Given \cup {i}
  BY <1>1, GivenAreSessions, SessionsAreNumbers DEF Issue, Given
<1>3. session' = [session EXCEPT ![i] = row] /\ ended' = ended /\ alarm' = alarm
      /\ issued' = i
  BY DEF Issue
<1>4. /\ old \subseteq Given
      /\ \A j \in old : ~Live(j)
      /\ call[s].late \/ old \cap ended = {}
  BY <1>1 DEF Issue, Placed, RowsNumbered, Ended
<1>5. row \in Row
  BY <1>1, <1>2, <1>4 DEF Row, Call
<1>6. /\ session' \in [Sessions -> Row] /\ session'[i] = row
      /\ \A j \in Sessions \ {i} : session'[j] = session[j]
      /\ \A j : j # i => (Live(j)' <=> Live(j))
  BY <1>1, <1>2, <1>3, <1>5 DEF RowsTyped, Live
<1>7. RowsTyped'
  BY <1>1, <1>2, <1>3, <1>6 DEF RowsTyped, Sessions
<1>8. RowsNumbered'
  BY <1>1, <1>2, <1>3, <1>4, <1>6 DEF RowsNumbered
<1>9. LineOver'
  <2>1. \A j \in old : j # i /\ ~Live(j)'
    BY <1>2, <1>4, <1>6
  <2>2. ASSUME NEW m \in Sessions \ {i}, NEW j \in session[m].line \ {m}
        PROVE  ~Live(j)'
    BY <1>1, <1>2, <1>6 DEF LineOver, RowsNumbered
  <2>. QED  BY <1>6, <2>1, <2>2 DEF LineOver, Live
<1>10. EndedStaysEnded'
  <2>1. ASSUME session'[i].line \cap ended' # {}  PROVE session'[i].late
    BY <1>1, <1>2, <1>3, <1>4, <1>6, <2>1 DEF RowsNumbered
  <2>2. ASSUME NEW m \in Sessions \ {i}, Live(m)', Ended(m)'
        PROVE  session'[m].late
    BY <1>1, <1>3, <1>6, <2>2 DEF EndedStaysEnded, Ended, Live
  <2>. QED  BY <2>1, <2>2 DEF EndedStaysEnded, Ended
<1>11. ASSUME NEW d, Placed(d)  PROVE Placed(d)'
  <2>1. CASE d.at = "issuing" /\ d.kind = "refresh"
    <3>1. d.session \in Given /\ d.session \in Sessions \ {i}
          /\ (\A j \in {d.session} \cup session[d.session].line : ~Live(j))
          /\ (d.late \/ ~Ended(d.session))
          /\ session'[d.session] = session[d.session]
          /\ session[d.session].line \subseteq Given
      BY <1>1, <1>2, <1>6, <1>11, <2>1 DEF Placed, RowsNumbered
    <3>2. \A j \in {d.session} \cup session'[d.session].line : ~Live(j)'
      BY <1>2, <1>6, <3>1
    <3>3. Ended(d.session)' <=> Ended(d.session)
      BY <1>3, <3>1 DEF Ended
    <3>. QED  BY <1>2, <1>11, <2>1, <3>1, <3>2, <3>3 DEF Placed
  <2>2. CASE ~(d.at = "issuing" /\ d.kind = "refresh")
    BY <1>2, <1>11, <2>2 DEF Placed
  <2>. QED  BY <2>1, <2>2
<1>12. call' = [call EXCEPT ![s] = c] /\ c \in Call /\ c.at = "granted"
  BY <1>1, <1>2 DEF Issue, Call
<1>13. call' \in [Slots -> Call]
  BY <1>1, <1>12
<1>14. ASSUME NEW t \in Slots  PROVE Placed(call[t])'
  <2>1. CASE t = s
    BY <1>12, <2>1 DEF Placed
  <2>2. CASE t # s
    <3>1. call'[t] = call[t] /\ Placed(call[t])
      BY <1>1, <1>12, <2>2
    <3>2. \A d : d = call[t] => Placed(d)'
      BY <1>11, <3>1
    <3>. QED  BY <3>1, <3>2 DEF Placed
  <2>. QED  BY <2>1, <2>2
<1>. QED  BY <1>7, <1>8, <1>9, <1>10, <1>13, <1>14 DEF ServerInv

-----------------------------------------------------------------------------
\* A call begins with the cookie of its browser.
LEMMA SentPlaced ==
  ASSUME Inv, NEW b \in Tabs, NEW kind \in {"refresh", "login", "logout"}
  PROVE  Placed(Sent(b, kind)) /\ Sent(b, kind) \in Call
<1>1. cookie[BrowserOf[b]] \in Sessions \cup {NoSession}
  BY SessionConstants DEF Inv, ClientInv
<1>2. Sent(b, kind) \in Call /\ Sent(b, kind).at = "sent"
  BY <1>1 DEF Sent, Idle, Call
<1>. QED  BY <1>2 DEF Placed

LEMMA IdlePlaced == Placed(Idle)
  BY IdleTyped DEF Placed, Idle

\* A call that moves on, its fields kept.
LEMMA MovedPlaced ==
  ASSUME ServerInv, NEW s \in Slots, NEW at \in {"closed", "revoking", "reused"},
         GoTo(s, at), at = "revoking" => call[s].session \in Given
  PROVE  \E c : /\ Placed(c) /\ c.at = at
                /\ call' = [call EXCEPT ![s] = c]
<1>. DEFINE c == [call[s] EXCEPT !.at = at]
<1>1. call[s] \in Call /\ call \in [Slots -> Call]
  BY DEF ServerInv
<1>2. c \in Call /\ c.at = at /\ c.session = call[s].session
  BY <1>1 DEF Call
<1>3. call' = [call EXCEPT ![s] = c]
  BY <1>1 DEF GoTo
<1>. QED  BY <1>2, <1>3 DEF Placed

\* The steps of a call on the server.
LEMMA CallStepInv ==
  ASSUME ServerInv, NEW s \in Slots, CallStep(s)
  PROVE  ServerInv'
<1>. DEFINE k == call[s].session
<1>1. /\ call[s] \in Call /\ call \in [Slots -> Call] /\ Placed(call[s])
      /\ RowsNumbered /\ alarm \subseteq Browsers
      /\ s[1] \in Tabs /\ BrowserOf[s[1]] \in Browsers
  BY SessionConstants DEF ServerInv, RowsTyped, Slots
<1>2. CASE Resolve(s)
  <2>1. Live(k) => k \in Given
    BY <1>1 DEF RowsNumbered, Live
  <2>2. CASE k = NoSession
    BY <1>1, <1>2, <2>2, MovedPlaced, CallMoves DEF Resolve
  <2>3. CASE k # NoSession /\ Live(k)
    BY <1>1, <1>2, <2>1, <2>3, MovedPlaced, CallMoves DEF Resolve
  <2>4. CASE k # NoSession /\ ~Live(k)
    BY <1>1, <1>2, <2>4, MovedPlaced, CallMoves DEF Resolve
  <2>. QED  BY <2>2, <2>3, <2>4
<1>3. CASE RevokeReused(s)
  <2>1. \E c : Placed(c) /\ c.at = "closed" /\ call' = [call EXCEPT ![s] = c]
    BY <1>3, MovedPlaced DEF RevokeReused
  <2>2. End(Sessions) /\ issued' = issued /\ alarm' \subseteq Browsers
    BY <1>1, <1>3 DEF RevokeReused
  <2>. QED  BY <2>1, <2>2, EndInv
<1>4. CASE RevokeOld(s)
  BY <1>4, RevokeOldInv
<1>5. CASE RevokeOwn(s)
  <2>1. \E c : Placed(c) /\ c.at = "closed" /\ call' = [call EXCEPT ![s] = c]
    BY <1>5, MovedPlaced DEF RevokeOwn
  <2>2. End({k}) /\ issued' = issued /\ alarm' \subseteq Browsers
    BY <1>1, <1>5 DEF RevokeOwn
  <2>. QED  BY <2>1, <2>2, EndInv
<1>6. CASE Verify(s)
  <2>. DEFINE c == [call[s] EXCEPT !.at = "issuing"]
  <2>1. c \in Call /\ c.kind = "login" /\ c.at = "issuing"
    BY <1>1, <1>6 DEF Call, Verify
  <2>2. Placed(c) /\ call' = [call EXCEPT ![s] = c]
    BY <1>1, <1>6, <2>1 DEF Placed, Verify, GoTo
  <2>. QED  BY <1>1, <1>6, <2>2, CallMoves DEF Verify
<1>7. CASE Issue(s)
  BY <1>7, IssueInv
<1>. QED  BY <1>2, <1>3, <1>4, <1>5, <1>6, <1>7 DEF CallStep

\* A call fails.
LEMMA CallFailsInv ==
  ASSUME ServerInv, NEW s \in Slots, CallFails(s)
  PROVE  ServerInv'
<1>1. \E c : Placed(c) /\ c.at = "closed" /\ call' = [call EXCEPT ![s] = c]
  BY MovedPlaced DEF CallFails
<1>. QED  BY <1>1, CallMoves DEF CallFails, ServerInv, RowsTyped

\* Nothing happens on the server.
LEMMA ServerIdle ==
  ASSUME ServerInv, UNCHANGED serverVars  PROVE ServerInv'
  BY DEF ServerInv, serverVars, RowsTyped, RowsNumbered, LineOver,
     EndedStaysEnded, Given, Live, Ended, Placed

\* Every step keeps the invariant of the server.
LEMMA ServerNext ==
  ASSUME Inv, Next  PROVE ServerInv'
<1>1. /\ ServerInv /\ alarm \subseteq Browsers
      /\ call \in [Slots -> Call] /\ \A t \in Slots : Placed(call[t])
  BY DEF Inv, ServerInv, RowsTyped
<1>2. ASSUME NEW s \in Slots, NEW kind \in {"refresh", "login", "logout"},
             Start(s, kind), UNCHANGED serverRows
      PROVE  ServerInv'
  <2>1. s[1] \in Tabs
    BY DEF Slots
  <2>. QED  BY <1>1, <1>2, <2>1, SentPlaced, CallMoves DEF Start, serverRows
<1>3. ASSUME NEW s \in Slots, call' = [call EXCEPT ![s] = Idle],
             UNCHANGED serverRows
      PROVE  ServerInv'
  BY <1>1, <1>3, IdlePlaced, CallMoves DEF serverRows
<1>4. ASSUME NEW b \in Tabs, Load(b) \/ Login(b) \/ Logout(b) \/ Answered(b)
      PROVE  ServerInv'
  <2>1. /\ SignSlot(b) \in Slots /\ RefreshSlot(b) \in Slots
        /\ GoneSlot(b) \in Slots
    BY DEF SignSlot, RefreshSlot, GoneSlot, Slots
  <2>2. CASE Load(b)
    <3>1. PICK s \in {RefreshSlot(b), SignSlot(b)} :
             call' = [call EXCEPT ![GoneSlot(b)] = call[s],
                                  ![RefreshSlot(b)] = Idle,
                                  ![SignSlot(b)] = Sent(b, "refresh")]
      BY <2>2 DEF Load
    <3>2. \A c \in {Idle, Sent(b, "refresh"), call[s]} : Placed(c) /\ c \in Call
      BY <1>1, <2>1, SentPlaced, IdlePlaced, IdleTyped
    <3>3. call' \in [Slots -> Call] /\ \A t \in Slots : Placed(call'[t])
      BY <1>1, <2>1, <3>1, <3>2
    <3>. QED  BY <1>1, <2>2, <3>3, CallsMove DEF Load, serverRows
  <2>3. CASE Login(b)
    BY <1>2, <2>1, <2>3 DEF Login
  <2>4. CASE Logout(b)
    BY <1>2, <2>1, <2>4 DEF Logout
  <2>5. CASE SignAnswered(b)
    BY <1>3, <2>1, <2>5 DEF SignAnswered
  <2>6. CASE RefreshAnswered(b)
    BY <1>3, <2>1, <2>6 DEF RefreshAnswered
  <2>7. CASE OrphanAnswered(b)
    BY <1>3, <2>1, <2>7 DEF OrphanAnswered
  <2>. QED  BY <1>4, <2>2, <2>3, <2>4, <2>5, <2>6, <2>7 DEF Answered
<1>5. ASSUME NEW s \in Slots, CallStep(s) \/ CallBreaks(s) \/ AnswerLost(s)
      PROVE  ServerInv'
  <2>1. CASE AnswerLost(s)
    BY <1>3, <2>1 DEF AnswerLost
  <2>. QED  BY <1>1, <1>5, <2>1, CallStepInv, CallFailsInv DEF CallBreaks
<1>6. ASSUME NEW r \in Requests, Send(r) \/ RequestStep(r) \/ RefusalLost(r)
      PROVE  ServerInv'
  <2>1. CASE EndOthersHandled(r)
    BY <1>1, <2>1, EndInv DEF EndOthersHandled, EndOthers
  <2>2. CASE EndOtherHandled(r)
    <3>1. CASE UNCHANGED serverVars
      BY <1>1, <3>1, ServerIdle
    <3>2. CASE \E i \in Sessions : EndOther(req[r].token, i)
      BY <1>1, <3>2, EndInv DEF EndOther
    <3>. QED  BY <2>2, <3>1, <3>2 DEF EndOtherHandled
  <2>3. CASE AwaitRefresh(r)
    <3>1. RefreshSlot(TabOf[r]) \in Slots
      BY ClientConstants DEF RefreshSlot, Slots
    <3>2. CASE UNCHANGED call
      BY <1>1, <2>3, <3>2, ServerIdle DEF AwaitRefresh, serverRows, serverVars
    <3>3. CASE Start(RefreshSlot(TabOf[r]), "refresh")
      BY <1>2, <2>3, <3>1, <3>3 DEF AwaitRefresh
    <3>. QED  BY <2>3, <3>2, <3>3 DEF AwaitRefresh
  <2>4. CASE UNCHANGED serverVars
    BY <1>1, <2>4, ServerIdle
  <2>. QED
    BY <1>6, <2>1, <2>2, <2>3, <2>4 DEF RequestStep, Send, RefusalLost, Guard,
       Handle, CreateSelects, GiveUp, Plain, Switch, Create, Mistyped, OnlyRequest
<1>7. ASSUME NEW i \in Sessions, AccessExpires(i)
      PROVE  ServerInv'
  BY <1>1, <1>7, ServerIdle DEF AccessExpires
<1>8. CASE EndAll
  BY <1>1, <1>8, EndInv DEF EndAll
<1>. QED  BY <1>4, <1>5, <1>6, <1>7, <1>8 DEF Next

-----------------------------------------------------------------------------
\* One request changes.
LEMMA RequestMoves ==
  ASSUME ClientInv, NEW r \in Requests, NEW q, Once(q),
         req' = [req EXCEPT ![r] = q]
  PROVE  req' \in [Requests -> Request] /\ \A p \in Requests : Once(req[p])'
<1>1. q \in Request
  BY DEF Once
<1>2. \A p \in Requests : req'[p] = IF p = r THEN q ELSE req[p]
  BY DEF ClientInv
<1>. QED  BY <1>1, <1>2 DEF ClientInv, Once

\* A request that is over.
LEMMA OverKeeps ==
  ASSUME NEW q, Once(q)
  PROVE  Once(Over(q))
<1>1. Over(q) \in Request /\ Over(q).at = "over" /\ Over(q).done = q.done
  BY KindsTyped DEF Once, Over, Request, NoSession
<1>. QED  BY <1>1 DEF Once

\* A request moves, without having been carried out.
LEMMA RequestGoes ==
  ASSUME ClientInv, NEW r \in Requests, GoesOver(r) \/ To(r, "refused")
            \/ To(r, "admitted") \/ To(r, "waiting"),
         req[r].at # "idle", req[r].at # "over"
  PROVE  req' \in [Requests -> Request] /\ \A p \in Requests : Once(req[p])'
<1>1. req[r] \in Request /\ Once(req[r]) /\ req \in [Requests -> Request]
  BY DEF ClientInv
<1>2. CASE GoesOver(r)
  <2>1. req' = [req EXCEPT ![r] = Over(req[r])]
    BY <1>1, <1>2 DEF GoesOver
  <2>. QED  BY <1>1, <2>1, OverKeeps, RequestMoves
<1>3. CASE To(r, "refused") \/ To(r, "admitted") \/ To(r, "waiting")
  <2>. DEFINE q == req'[r]
  <2>1. Once(q) /\ req' = [req EXCEPT ![r] = q]
    BY <1>1, <1>3 DEF To, Once, Request
  <2>. QED  BY <2>1, RequestMoves
<1>. QED  BY <1>2, <1>3

\* A request is carried out, for the first time.
LEMMA RequestDone ==
  ASSUME ClientInv, NEW r \in Requests, req[r].at = "admitted",
         \/ Done(r) /\ req[r].kind # "create"
         \/ Creates(r) /\ req[r].kind = "create" /\ req[r].done = 0
  PROVE  req' \in [Requests -> Request] /\ \A p \in Requests : Once(req[p])'
<1>. DEFINE q == req'[r]
<1>1. req[r] \in Request /\ Once(req[r]) /\ req \in [Requests -> Request]
  BY DEF ClientInv
<1>2. req[r].done = 0
  BY <1>1 DEF Once
<1>3. q.done = 1 /\ (q.at = "over" \/ (q.at = "committed" /\ q.kind = "create"))
      /\ q \in Request /\ req' = [req EXCEPT ![r] = q]
  <2>1. CASE Done(r)
    <3>. DEFINE o == Over(req[r])
    <3>1. o \in Request /\ o.at = "over"
      BY <1>1, KindsTyped DEF Over, Request, NoSession
    <3>2. o.done = 0
      BY <1>1, <1>2 DEF Over, Request
    <3>3. req' = [req EXCEPT ![r] = [o EXCEPT !.done = req[r].done + 1]]
      BY <1>1, <2>1 DEF Done
    <3>4. q = [o EXCEPT !.done = 1]
      BY <1>1, <1>2, <3>3
    <3>. QED  BY <1>1, <3>1, <3>2, <3>3, <3>4 DEF Request
  <2>2. CASE Creates(r) /\ req[r].kind = "create"
    BY <1>1, <1>2, <2>2 DEF Creates, Request
  <2>. QED  BY <2>1, <2>2
<1>4. Once(q)
  BY <1>3 DEF Once
<1>. QED  BY <1>3, <1>4, RequestMoves

\* Requests resume, or give up, when the refresh c is answered.
LEMMA ResumeTyped ==
  ASSUME ClientInv, NEW b \in Tabs, NEW c \in Call, ResumeAll(b, c)
  PROVE  req' \in [Requests -> Request] /\ \A p \in Requests : Once(req[p])'
<1>1. ASSUME NEW r \in Requests
      PROVE  Resumed(req[r], c) \in Request /\ Once(Resumed(req[r], c))
  <2>1. req[r] \in Request /\ Once(req[r]) /\ Once(Over(req[r]))
    BY OverKeeps DEF ClientInv
  <2>2. c.session \in Sessions \cup {NoSession}
    BY DEF Call
  <2>3. CASE req[r].at = "waiting" /\ c.at = "granted"
    BY <2>1, <2>2, <2>3 DEF Resumed, Once, Request
  <2>4. CASE ~(req[r].at = "waiting" /\ c.at = "granted")
    <3>1. Resumed(req[r], c) \in {req[r], Over(req[r])}
      BY <2>4 DEF Resumed
    <3>. QED  BY <2>1, <3>1 DEF Once
  <2>. QED  BY <2>3, <2>4
<1>2. \A r \in Requests : req'[r] \in Request /\ Once(req'[r])
  BY <1>1 DEF ResumeAll, ClientInv
<1>. QED  BY <1>2 DEF ResumeAll, Once

\* What signing in and out does to a tab.
LEMMA TabsTyped ==
  /\ SignedOut \in Tab /\ [SignedOut EXCEPT !.status = "loading"] \in Tab
  /\ \A i \in Sessions \cup {NoSession} : SignedIn(i) \in Tab
  /\ \A t \in Tab : [t EXCEPT !.status = "loading"] \in Tab
  BY DEF SignedOut, SignedIn, Tab, NoSession

\* The cookie a browser keeps with an answer.
LEMMA CookieTyped ==
  ASSUME ClientInv, NEW d \in Browsers, NEW c \in Call, KeepCookie(d, c)
  PROVE  cookie' \in [Browsers -> Sessions \cup {NoSession}]
  BY DEF ClientInv, KeepCookie, Call, NoSession

\* The client's part of the invariant, put together.
LEMMA ClientMoves ==
  ASSUME ClientInv,
         tab' = tab \/ \E b \in Tabs, t \in Tab : tab' = [tab EXCEPT ![b] = t],
         UNCHANGED cookie \/ cookie' \in [Browsers -> Sessions \cup {NoSession}],
         \/ UNCHANGED req
         \/ req' \in [Requests -> Request] /\ \A p \in Requests : Once(req[p])',
         expired' \subseteq Sessions,
         visits' = visits \/ (visits < LastVisit /\ visits' = visits + 1),
         \/ UNCHANGED excused
         \/ \E cond \in BOOLEAN, d \in Browsers : ExcuseIf(cond, d)
  PROVE  ClientInv'
<1>1. tab' \in [Tabs -> Tab]
  BY DEF ClientInv
<1>2. req' \in [Requests -> Request] /\ \A p \in Requests : Once(req[p])'
  BY DEF ClientInv, Once
<1>3. visits' \in 0..LastVisit
  BY ClientConstants DEF ClientInv
<1>4. excused' \subseteq Browsers
  BY DEF ClientInv, ExcuseIf
<1>5. cookie' \in [Browsers -> Sessions \cup {NoSession}]
  BY DEF ClientInv
<1>. QED  BY <1>1, <1>2, <1>3, <1>4, <1>5 DEF ClientInv

\* The steps of a tab, and the answers it gets.
LEMMA TabStepTyped ==
  ASSUME Inv, NEW b \in Tabs,
         Load(b) \/ Login(b) \/ Logout(b) \/ Answered(b)
  PROVE  ClientInv'
<1>. DEFINE cs == call[SignSlot(b)]
            cr == call[RefreshSlot(b)]
            cg == call[GoneSlot(b)]
            d == BrowserOf[b]
<1>1. /\ ClientInv /\ tab[b] \in Tab /\ expired \subseteq Sessions
      /\ cs \in Call /\ cr \in Call /\ cg \in Call
      /\ d \in Browsers /\ (UsesOf(d) # {}) \in BOOLEAN
      /\ cs.session \in Sessions \cup {NoSession}
      /\ cr.session \in Sessions \cup {NoSession}
  BY SessionConstants DEF Inv, ServerInv, ClientInv, Slots, SignSlot, RefreshSlot,
     GoneSlot, Call
<1>2. CASE Load(b)
  <2>1. ASSUME NEW r \in Requests  PROVE Once(req'[r])
    <3>1. Once(req[r]) /\ Once(Over(req[r]))
      BY <1>1, OverKeeps DEF ClientInv
    <3>2. req'[r] \in {req[r], Over(req[r])}
      BY <1>2 DEF Load
    <3>. QED  BY <3>1, <3>2
  <2>2. req' \in [Requests -> Request]
    BY <1>2, <2>1 DEF Load, Once
  <2>3. \E t \in Tab : tab' = [tab EXCEPT ![b] = t]
    BY <1>2, TabsTyped DEF Load
  <2>. QED  BY <1>1, <1>2, <2>1, <2>2, <2>3, ClientMoves DEF Load, Once
<1>3. CASE Login(b)
  <2>1. \E t \in Tab : tab' = [tab EXCEPT ![b] = t]
    BY <1>1, <1>3, TabsTyped DEF Login
  <2>. QED  BY <1>1, <1>3, <2>1, ClientMoves DEF Login
<1>4. CASE Logout(b)
  BY <1>1, <1>4, ClientMoves DEF Logout
<1>5. CASE SignAnswered(b)
  <2>1. \E t \in Tab : tab' = [tab EXCEPT ![b] = t]
    BY <1>1, <1>5, TabsTyped DEF SignAnswered
  <2>2. cookie' \in [Browsers -> Sessions \cup {NoSession}]
    BY <1>1, <1>5, CookieTyped DEF SignAnswered
  <2>. QED  BY <1>1, <1>5, <2>1, <2>2, ClientMoves DEF SignAnswered
<1>6. CASE RefreshAnswered(b)
  <2>1. \E t \in Tab : tab' = [tab EXCEPT ![b] = t]
    BY <1>1, <1>6, TabsTyped DEF RefreshAnswered
  <2>2. req' \in [Requests -> Request] /\ \A p \in Requests : Once(req[p])'
    BY <1>1, <1>6, ResumeTyped DEF RefreshAnswered
  <2>3. cookie' \in [Browsers -> Sessions \cup {NoSession}]
    BY <1>1, <1>6, CookieTyped DEF RefreshAnswered
  <2>. QED  BY <1>1, <1>6, <2>1, <2>2, <2>3, ClientMoves DEF RefreshAnswered
<1>7. CASE OrphanAnswered(b)
  <2>1. UNCHANGED cookie \/ cookie' \in [Browsers -> Sessions \cup {NoSession}]
    BY <1>1, <1>7, CookieTyped DEF OrphanAnswered
  <2>. QED  BY <1>1, <1>7, <2>1, ClientMoves DEF OrphanAnswered
<1>. QED  BY <1>2, <1>3, <1>4, <1>5, <1>6, <1>7 DEF Answered

\* An answer is lost, or a call fails.
LEMMA MishapTyped ==
  ASSUME Inv, NEW s \in Slots, AnswerLost(s) \/ CallBreaks(s)
  PROVE  ClientInv'
<1>1. /\ ClientInv /\ s[1] \in Tabs /\ expired \subseteq Sessions
      /\ BrowserOf[s[1]] \in Browsers
  BY SessionConstants DEF Inv, ClientInv, Slots
<1>2. CASE AnswerLost(s)
  <2>1. \E t \in Tab : tab' = [tab EXCEPT ![s[1]] = t]
    BY <1>2, TabsTyped DEF AnswerLost
  <2>2. \/ UNCHANGED req
        \/ req' \in [Requests -> Request] /\ \A p \in Requests : Once(req[p])'
    BY <1>1, <1>2, ResumeTyped, IdleTyped DEF AnswerLost
  <2>. QED  BY <1>1, <1>2, <2>1, <2>2, ClientMoves DEF AnswerLost
<1>3. CASE CallBreaks(s)
  BY <1>1, <1>3, ClientMoves DEF CallBreaks
<1>. QED  BY <1>2, <1>3

\* The steps of a request.
LEMMA RequestStepTyped ==
  ASSUME Inv, NEW r \in Requests, Send(r) \/ RequestStep(r) \/ RefusalLost(r)
  PROVE  ClientInv'
<1>. DEFINE Typed == req' \in [Requests -> Request]
                     /\ \A p \in Requests : Once(req[p])'
<1>1. /\ ClientInv /\ TabOf[r] \in Tabs /\ tab[TabOf[r]] \in Tab
      /\ BrowserOf[TabOf[r]] \in Browsers
      /\ req[r] \in Request /\ Once(req[r]) /\ expired \subseteq Sessions
  BY ClientConstants, SessionConstants DEF Inv, ClientInv
<1>2. CASE Send(r)
  <2>1. PICK k \in Kinds[r] :
           req' = [req EXCEPT ![r].at = "sent", ![r].kind = k,
                              ![r].token = tab[TabOf[r]].token]
    BY <1>2 DEF Send
  <2>. DEFINE q == [req[r] EXCEPT !.at = "sent", !.kind = k,
                                  !.token = tab[TabOf[r]].token]
  <2>2. tab[TabOf[r]].token \in Sessions \cup {NoSession} /\ k \in RequestKind
    BY <1>1, KindsTyped DEF Tab
  <2>3. Once(q)
    BY <1>1, <1>2, <2>2 DEF Once, Request, Send
  <2>4. req' = [req EXCEPT ![r] = q]
    BY <1>1, <2>1 DEF ClientInv
  <2>5. Typed
    BY <1>1, <2>3, <2>4, RequestMoves
  <2>. QED  BY <1>1, <1>2, <2>5, ClientMoves DEF Send, OnlyRequest
<1>3. CASE Guard(r)
  <2>1. Typed
    BY <1>1, <1>3, RequestGoes DEF Guard
  <2>. QED  BY <1>1, <1>3, <2>1, ClientMoves DEF Guard, OnlyRequest
<1>4. CASE Handle(r)
  <2>1. Typed
    <3>1. CASE Plain(r) \/ EndOthersHandled(r) \/ EndOtherHandled(r)
      BY <1>1, <1>4, <3>1, RequestDone DEF Handle, Plain, EndOthersHandled,
         EndOtherHandled
    <3>2. CASE Switch(r)
      BY <1>1, <1>4, <3>2, RequestDone, RequestGoes DEF Handle, Switch
    <3>3. CASE Create(r)
      BY <1>1, <1>4, <3>3, RequestDone, RequestGoes DEF Handle, Create
    <3>4. CASE Mistyped(r)
      BY <1>1, <1>4, <3>4, RequestGoes DEF Handle, Mistyped
    <3>. QED  BY <1>4, <3>1, <3>2, <3>3, <3>4 DEF Handle
  <2>. QED
    BY <1>1, <1>4, <2>1, ClientMoves DEF Handle, Plain, Switch, Create, Mistyped,
       EndOthersHandled, EndOtherHandled, OnlyRequest
<1>5. CASE CreateSelects(r)
  <2>1. Typed
    BY <1>1, <1>5, RequestGoes DEF CreateSelects
  <2>. QED  BY <1>1, <1>5, <2>1, ClientMoves DEF CreateSelects, OnlyRequest
<1>6. CASE GiveUp(r)
  <2>1. Typed
    BY <1>1, <1>6, RequestGoes DEF GiveUp
  <2>2. \E t \in Tab : tab' = [tab EXCEPT ![TabOf[r]] = t]
    BY <1>1, <1>6, TabsTyped DEF GiveUp
  <2>. QED  BY <1>1, <1>6, <2>1, <2>2, ClientMoves DEF GiveUp
<1>7. CASE AwaitRefresh(r)
  <2>1. Typed
    BY <1>1, <1>7, RequestGoes DEF AwaitRefresh
  <2>2. (UsesOf(BrowserOf[TabOf[r]]) # {}) \in BOOLEAN
    OBVIOUS
  <2>. QED  BY <1>1, <1>7, <2>1, <2>2, ClientMoves DEF AwaitRefresh
<1>8. CASE RefusalLost(r)
  <2>1. Typed
    BY <1>1, <1>8, RequestGoes DEF RefusalLost
  <2>. QED  BY <1>1, <1>8, <2>1, ClientMoves DEF RefusalLost
<1>. QED  BY <1>2, <1>3, <1>4, <1>5, <1>6, <1>7, <1>8 DEF RequestStep

\* Every step keeps the invariant of the client.
LEMMA ClientNext ==
  ASSUME Inv, Next  PROVE ClientInv'
<1>1. ClientInv /\ expired \subseteq Sessions
  BY DEF Inv, ClientInv
<1>2. CASE ClientUnchanged
  BY <1>1, <1>2, ClientMoves DEF ClientUnchanged
<1>3. ASSUME NEW i \in Sessions, AccessExpires(i)  PROVE ClientInv'
  BY <1>1, <1>3, ClientMoves DEF AccessExpires
<1>. QED
  BY <1>2, <1>3, TabStepTyped, MishapTyped, RequestStepTyped DEF Next

LEMMA Stutter ==
  ASSUME Inv, UNCHANGED vars  PROVE Inv'
<1>1. ServerInv'
  BY ServerIdle DEF Inv, vars
<1>2. ClientInv'
  BY DEF Inv, ClientInv, vars, Once
<1>. QED  BY <1>1, <1>2 DEF Inv

THEOREM SessionInvariant == Spec => []Inv
<1>1. Inv /\ [Next]_vars => Inv'
  BY ServerNext, ClientNext, Stutter DEF Inv
<1>. QED  BY InitInv, <1>1, PTL DEF Spec

\* Rows of sessions, the calls that are under way and everything a tab keeps
\* have their types: a rotation always knows the row it rotates.
THEOREM SessionsTyped == Spec => []TypeOK
<1>1. Inv => TypeOK
  BY SessionConstants DEF Inv, ServerInv, ClientInv, TypeOK, RowsTyped,
     RowsNumbered, Given, Sessions
<1>. QED  BY SessionInvariant, <1>1, PTL

\* A session that has been ended stays ended, with every session it is rotated
\* into, but for the refresh that had read it before (resolveRefreshSession).
THEOREM EndedForGood == Spec => []EndedStaysEnded
<1>1. Inv => EndedStaysEnded
  BY DEF Inv, ServerInv
<1>. QED  BY SessionInvariant, <1>1, PTL

\* A request that is sent a second time after a refresh is not carried out a
\* second time (sendRequest).
THEOREM ExecutedAtMostOnce == Spec => []ExecutedOnce
<1>1. Inv => ExecutedOnce
  BY DEF Inv, ClientInv, Once, ExecutedOnce
<1>. QED  BY SessionInvariant, <1>1, PTL

-----------------------------------------------------------------------------
(* One browser and its sessions                                              *)

\* The sessions a browser has the refresh token of, or will have.
HeldBy(d) ==
    ({cookie[d]} \cup {call[s].session : s \in SlotsOf(d)}) \ {NoSession}

Held ==
    /\ \A d \in Browsers : HeldBy(d) \subseteq Given
    /\ \A d, e \in Browsers : d # e => HeldBy(d) \cap HeldBy(e) = {}

\* The session can be rotated or has been ended: it was not used up.
Sound(i) == i = NoSession \/ Live(i) \/ Ended(i)

\* A call has used up the session it was sent with.
Rotating(s) == call[s].kind = "refresh" /\ call[s].at \in {"issuing", "granted"}

OneUse(d) == \A s, t \in UsesOf(d) : s = t

NoneGone(d) == \A b \in Tabs : GoneSlot(b) \notin UsesOf(d)

\* The cookie is sound or its rotation is under way.
CookieKept(d) == Sound(cookie[d]) \/ \E s \in SlotsOf(d) : Rotating(s)

\* A session that has been granted is known to nobody before its answer arrives.
CallKept(s) ==
    LET c == call[s]
        d == BrowserOf[s[1]]
    IN
    /\ c.at \in {"sent", "revoking"} /\ s \in UsesOf(d) => Sound(c.session)
    /\ c.at = "reused" => c.session # NoSession /\ Ended(c.session)
    /\ c.at = "granted" =>
          /\ Sound(c.session) /\ c.session \notin {NoSession, cookie[d]}
          /\ \A t \in SlotsOf(d) \ {s} : call[t].session # c.session

Kept(d) ==
    /\ OneUse(d)
    /\ NoneGone(d)
    /\ CookieKept(d)
    /\ \A s \in SlotsOf(d) : CallKept(s)

BrowserInv ==
    /\ Held
    /\ \A d \in Browsers \ excused : Kept(d)
    /\ NoFalseAlarm

FullInv == Inv /\ BrowserInv

-----------------------------------------------------------------------------
\* A step keeps the rows: no line changes, what has been ended stays ended.
RowsKept ==
    /\ Given \subseteq Given'
    /\ \A i \in Given : /\ session'[i].line = session[i].line
                        /\ Ended(i) => Ended(i)'

\* A live session stays live or is ended, but for those that are rotated.
LivesOn(i) == Live(i) => Live(i)' \/ Ended(i)'

\* What the invariant says of rows and slots, for short.
LEMMA Basics ==
  ASSUME Inv
  PROVE  /\ RowsTyped /\ RowsNumbered /\ LineOver
         /\ Given \subseteq Sessions /\ NoSession \notin Given
         /\ call \in [Slots -> Call]
         /\ \A i : Live(i) => i \in Given /\ i \in session[i].line
<1>1. RowsTyped /\ RowsNumbered /\ LineOver /\ call \in [Slots -> Call]
  BY DEF Inv, ServerInv
<1>2. Given \subseteq Sessions /\ NoSession \notin Given
  BY <1>1, GivenAreSessions, SessionsAreNumbers
<1>3. \A i : Live(i) => i \in Given /\ i \in session[i].line
  BY <1>1 DEF RowsNumbered, Live
<1>. QED  BY <1>1, <1>2, <1>3

\* Ending sessions keeps the rows, and no live session is lost otherwise.
LEMMA EndRows ==
  ASSUME Inv, NEW S, End(S), issued' = issued
  PROVE  RowsKept /\ \A i \in Given : LivesOn(i)
<1>1. /\ RowsTyped /\ Given \subseteq Sessions
      /\ \A i : Live(i) => i \in Given /\ i \in session[i].line
  BY Basics
<1>2. \A i \in Sessions : session'[i].line = session[i].line
                          /\ (Live(i)' <=> Live(i) /\ i \notin S)
  BY <1>1, RevokedRowsAre DEF End
<1>3. ended' = ended \cup {i \in S : Live(i)} /\ Given' = Given
  BY DEF End, Given
<1>4. RowsKept
  BY <1>1, <1>2, <1>3 DEF RowsKept, Ended
<1>5. ASSUME NEW i \in Given, Live(i)  PROVE Live(i)' \/ Ended(i)'
  <2>1. CASE i \in S
    <3>1. i \in session'[i].line /\ i \in ended'
      BY <1>1, <1>2, <1>3, <1>5, <2>1
    <3>. QED  BY <3>1 DEF Ended
  <2>2. CASE i \notin S
    <3>1. i \in Sessions
      BY <1>1
    <3>. QED  BY <1>2, <1>5, <2>2, <3>1
  <2>. QED  BY <2>1, <2>2
<1>. QED  BY <1>4, <1>5 DEF LivesOn

LEMMA RevokeOldRows ==
  ASSUME Inv, NEW s \in Slots, RevokeOld(s)
  PROVE  RowsKept /\ \A i \in Given \ {call[s].session} : LivesOn(i)
<1>. DEFINE k == call[s].session
<1>1. RowsTyped /\ Given \subseteq Sessions
  BY Basics
<1>2. \A i \in Sessions : session'[i].line = session[i].line
                          /\ (Live(i)' <=> Live(i) /\ i \notin {k})
  BY <1>1, RevokedRowsAre DEF RevokeOld
<1>3. ended' = ended /\ Given' = Given
  BY DEF RevokeOld, Given
<1>4. RowsKept
  BY <1>1, <1>2, <1>3 DEF RowsKept, Ended
<1>5. ASSUME NEW i \in Given \ {k}, Live(i)  PROVE Live(i)'
  <2>1. i \in Sessions /\ i \notin {k}
    BY <1>1
  <2>. QED  BY <1>2, <1>5, <2>1
<1>. QED  BY <1>4, <1>5 DEF LivesOn

LEMMA IssueRows ==
  ASSUME Inv, NEW s \in Slots, Issue(s)
  PROVE  RowsKept /\ \A i \in Given : LivesOn(i)
<1>1. RowsTyped /\ Given \subseteq Sessions /\ issued \in Nat
  BY Basics, GivenAreSessions
<1>2. ended' = ended /\ Given \subseteq Given' /\ issued + 1 \notin Given
  BY <1>1 DEF Issue, Given
<1>3. \A i \in Sessions \ {issued + 1} : session'[i] = session[i]
  BY <1>1 DEF Issue, RowsTyped
<1>. QED  BY <1>1, <1>2, <1>3 DEF RowsKept, LivesOn, Live, Ended

LEMMA SameRows ==
  ASSUME UNCHANGED <<session, issued, ended>>
  PROVE  RowsKept /\ \A i \in Given : LivesOn(i)
  BY DEF RowsKept, LivesOn, Live, Ended, Given

\* What is sound stays so while the session lives on.
LEMMA SoundStays ==
  ASSUME RowsKept, NEW i \in Given \cup {NoSession}, Sound(i),
         i \in Given => LivesOn(i)
  PROVE  Sound(i)'
  BY DEF Sound, RowsKept, LivesOn

\* What is known of a browser before something happens in it.
LEMMA BrowserBasics ==
  ASSUME FullInv, NEW d \in Browsers
  PROVE  /\ Inv /\ Held /\ HeldBy(d) \subseteq Given
         /\ Given \subseteq Sessions /\ NoSession \notin Given
         /\ call \in [Slots -> Call]
         /\ cookie \in [Browsers -> Sessions \cup {NoSession}]
         /\ cookie[d] \in HeldBy(d) \cup {NoSession}
         /\ \A s \in SlotsOf(d) :
               /\ s \in Slots /\ BrowserOf[s[1]] = d /\ call[s] \in Call
               /\ call[s].session \in HeldBy(d) \cup {NoSession}
         /\ UsesOf(d) \subseteq SlotsOf(d)
         /\ \A e \in Browsers \ {d} : \A s \in SlotsOf(e) :
               s \in Slots \ SlotsOf(d)
         /\ d \notin excused => Kept(d)
<1>1. Inv /\ Held /\ (d \notin excused => Kept(d))
  BY DEF FullInv, BrowserInv
<1>2. /\ Given \subseteq Sessions /\ NoSession \notin Given
      /\ call \in [Slots -> Call]
  BY <1>1, Basics
<1>3. \A s \in SlotsOf(d) : s \in Slots /\ BrowserOf[s[1]] = d /\ call[s] \in Call
  BY <1>2 DEF SlotsOf
<1>4. \A s \in SlotsOf(d) : call[s].session \in HeldBy(d) \cup {NoSession}
  BY DEF HeldBy
<1>5. HeldBy(d) \subseteq Given /\ cookie[d] \in HeldBy(d) \cup {NoSession}
  BY <1>1 DEF Held, HeldBy
<1>6. cookie \in [Browsers -> Sessions \cup {NoSession}]
  BY <1>1 DEF Inv, ClientInv
<1>7. \A e \in Browsers \ {d} : \A s \in SlotsOf(e) : s \in Slots \ SlotsOf(d)
  BY DEF SlotsOf
<1>. QED  BY <1>1, <1>2, <1>3, <1>4, <1>5, <1>6, <1>7 DEF UsesOf

\* A slot belongs to the browser of its tab.
LEMMA SlotBasics ==
  /\ \A s \in Slots : /\ s[1] \in Tabs /\ BrowserOf[s[1]] \in Browsers
                      /\ s \in SlotsOf(BrowserOf[s[1]])
  /\ \A b \in Tabs : /\ BrowserOf[b] \in Browsers
                     /\ {SignSlot(b), RefreshSlot(b), GoneSlot(b)}
                           \subseteq SlotsOf(BrowserOf[b])
                     /\ SignSlot(b)[1] = b /\ RefreshSlot(b)[1] = b
                     /\ SignSlot(b) # RefreshSlot(b)
                     /\ \A c \in Tabs : GoneSlot(c) # SignSlot(b)
                                        /\ GoneSlot(c) # RefreshSlot(b)
                                        /\ (c # b => GoneSlot(c) # GoneSlot(b))
  BY SessionConstants DEF Slots, SlotsOf, SignSlot, RefreshSlot, GoneSlot

\* A browser is kept if its cookie and calls stay and its sessions live on.
LEMMA Undisturbed ==
  ASSUME FullInv, NEW d \in Browsers, Kept(d), RowsKept,
         \A i \in HeldBy(d) : LivesOn(i),
         cookie'[d] = cookie[d], \A s \in SlotsOf(d) : call'[s] = call[s]
  PROVE  Kept(d)'
<1>1. /\ HeldBy(d) \subseteq Given /\ NoSession \notin Given
      /\ cookie[d] \in HeldBy(d) \cup {NoSession}
      /\ \A s \in SlotsOf(d) :
            call[s].session \in HeldBy(d) \cup {NoSession} /\ BrowserOf[s[1]] = d
  BY BrowserBasics
<1>2. \A i \in HeldBy(d) \cup {NoSession} : Sound(i) => Sound(i)'
  BY <1>1, SoundStays
<1>3. \A i \in Given : Ended(i) => Ended(i)'
  BY DEF RowsKept
<1>4. SlotsOf(d)' = SlotsOf(d) /\ UsesOf(d)' = UsesOf(d)
  BY DEF SlotsOf, UsesOf
<1>5. OneUse(d)' /\ NoneGone(d)'
  BY <1>4 DEF Kept, OneUse, NoneGone
<1>6. CookieKept(d)'
  BY <1>1, <1>2, <1>4 DEF Kept, CookieKept, Rotating
<1>7. ASSUME NEW s \in SlotsOf(d)  PROVE CallKept(s)'
  <2>1. CallKept(s) /\ BrowserOf[s[1]] = d /\ call'[s] = call[s]
    BY <1>1 DEF Kept
  <2>2. /\ Sound(call[s].session) => Sound(call[s].session)'
        /\ call[s].session # NoSession /\ Ended(call[s].session)
              => Ended(call[s].session)'
    BY <1>1, <1>2, <1>3
  <2>. QED  BY <1>4, <2>1, <2>2 DEF CallKept
<1>. QED  BY <1>4, <1>5, <1>6, <1>7 DEF Kept

\* The other browsers do not notice what happens in one of them: nobody else
\* holds its sessions.
LEMMA BrowserMoves ==
  ASSUME FullInv, NEW d \in Browsers, RowsKept, excused \subseteq excused',
         \A i \in Given \ HeldBy(d) : LivesOn(i),
         \A s \in Slots \ SlotsOf(d) : call'[s] = call[s],
         \A e \in Browsers \ {d} : cookie'[e] = cookie[e],
         \A i \in HeldBy(d)' : i \in HeldBy(d) \/ i \in Given' \ Given,
         alarm' \subseteq excused',
         d \notin excused' => Kept(d)'
  PROVE  BrowserInv'
<1>1. /\ Held /\ Given \subseteq Given'
      /\ \A e \in Browsers \ excused : Kept(e)
  BY DEF FullInv, BrowserInv, RowsKept
<1>2. \A e \in Browsers \ {d} : \A s \in SlotsOf(e) : call'[s] = call[s]
  BY BrowserBasics
<1>3. \A e \in Browsers \ {d} : HeldBy(e)' = HeldBy(e)
  BY <1>2 DEF HeldBy, SlotsOf
<1>4. Held'
  <2>1. \A e \in Browsers : HeldBy(e)' \subseteq Given'
    BY <1>1, <1>3 DEF Held
  <2>2. ASSUME NEW e \in Browsers, NEW f \in Browsers, e # f
        PROVE  HeldBy(e)' \cap HeldBy(f)' = {}
    BY <1>1, <1>3, <2>2 DEF Held
  <2>. QED  BY <2>1, <2>2 DEF Held
<1>5. ASSUME NEW e \in Browsers, e \notin excused', e # d  PROVE Kept(e)'
  <2>1. Kept(e) /\ \A i \in HeldBy(e) : i \in Given \ HeldBy(d)
    BY <1>1, <1>5 DEF Held
  <2>. QED  BY <1>2, <1>5, <2>1, Undisturbed
<1>6. \A e \in Browsers : e \notin excused' => Kept(e)'
  BY <1>5
<1>. QED  BY <1>4, <1>6 DEF BrowserInv, NoFalseAlarm

\* No browser notices anything.
LEMMA NobodyMoves ==
  ASSUME FullInv, RowsKept, \A i \in Given : LivesOn(i),
         UNCHANGED <<cookie, call, alarm, excused>>
  PROVE  BrowserInv'
<1>1. /\ Held /\ Given \subseteq Given'
      /\ \A d \in Browsers \ excused : Kept(d)
  BY DEF FullInv, BrowserInv, RowsKept
<1>2. Held'
  <2>1. \A d \in Browsers : HeldBy(d)' = HeldBy(d)
    BY DEF HeldBy, SlotsOf
  <2>. QED  BY <1>1, <2>1 DEF Held
<1>3. ASSUME NEW d \in Browsers, d \notin excused'  PROVE Kept(d)'
  <2>1. Kept(d) /\ \A i \in HeldBy(d) : LivesOn(i)
    BY <1>1, <1>3 DEF Held
  <2>. QED  BY <2>1, Undisturbed
<1>. QED  BY <1>2, <1>3 DEF BrowserInv, NoFalseAlarm, FullInv

-----------------------------------------------------------------------------
\* One call of a browser moves on: what it knows stays or is a session that is
\* new, and a rotation goes on.
LEMMA CallKeepsBrowser ==
  ASSUME FullInv, NEW d \in Browsers, Kept(d), NEW s \in SlotsOf(d), NEW c,
         call' = [call EXCEPT ![s] = c], c.kind = call[s].kind,
         UNCHANGED cookie, RowsKept, \A i \in Given : LivesOn(i),
         c.session = call[s].session \/ c.session \notin Given \cup {NoSession},
         Rotating(s) => Rotating(s)', CallKept(s)'
  PROVE  Kept(d)'
<1>1. /\ HeldBy(d) \subseteq Given /\ cookie[d] \in HeldBy(d) \cup {NoSession}
      /\ call \in [Slots -> Call] /\ s \in Slots
      /\ \A t \in SlotsOf(d) :
            /\ t \in Slots /\ BrowserOf[t[1]] = d
            /\ call[t].session \in HeldBy(d) \cup {NoSession}
  BY BrowserBasics
<1>2. \A i \in HeldBy(d) \cup {NoSession} : Sound(i) => Sound(i)'
  BY <1>1, SoundStays
<1>3. /\ call'[s] = c
      /\ \A t \in SlotsOf(d) \ {s} : call'[t] = call[t]
      /\ \A t \in SlotsOf(d) : call'[t].kind = call[t].kind
  BY <1>1
<1>4. SlotsOf(d)' = SlotsOf(d) /\ UsesOf(d)' = UsesOf(d)
  BY <1>3 DEF SlotsOf, UsesOf
<1>5. OneUse(d)' /\ NoneGone(d)'
  BY <1>4 DEF Kept, OneUse, NoneGone
<1>6. CookieKept(d)'
  <2>1. CASE Sound(cookie[d])
    BY <1>1, <1>2, <2>1 DEF CookieKept
  <2>2. ASSUME NEW t \in SlotsOf(d), Rotating(t)  PROVE Rotating(t)'
    BY <1>3, <2>2 DEF Rotating
  <2>. QED  BY <1>4, <2>1, <2>2 DEF Kept, CookieKept
<1>7. ASSUME NEW t \in SlotsOf(d) \ {s}  PROVE CallKept(t)'
  <2>1. CallKept(t) /\ BrowserOf[t[1]] = d /\ call'[t] = call[t]
    BY <1>1, <1>3 DEF Kept
  <2>2. /\ Sound(call[t].session) => Sound(call[t].session)'
        /\ call[t].session # NoSession /\ Ended(call[t].session)
              => Ended(call[t].session)'
    BY <1>1, <1>2 DEF RowsKept
  <2>3. call[s].session # call[t].session => c.session # call[t].session
    BY <1>1
  <2>4. call[t].at = "granted" =>
           \A u \in SlotsOf(d) \ {t} : call'[u].session # call[t].session
    BY <1>3, <2>1, <2>3 DEF CallKept
  <2>. QED  BY <1>4, <2>1, <2>2, <2>4 DEF CallKept
<1>. QED  BY <1>4, <1>5, <1>6, <1>7 DEF Kept

\* The first statement of a rotation uses up the session of its own call: the
\* cookie may be that session, but the rotation is now under way.
LEMMA RevokeOldKeepsBrowser ==
  ASSUME FullInv, NEW d \in Browsers, Kept(d), NEW s \in SlotsOf(d), RevokeOld(s),
         UNCHANGED cookie
  PROVE  Kept(d)'
<1>. DEFINE k == call[s].session
<1>1. /\ HeldBy(d) \subseteq Given /\ Inv
      /\ call \in [Slots -> Call] /\ s \in Slots /\ call[s] \in Call
      /\ \A t \in SlotsOf(d) :
            /\ t \in Slots /\ BrowserOf[t[1]] = d
            /\ call[t].session \in HeldBy(d) \cup {NoSession}
  BY BrowserBasics
<1>2. RowsKept /\ \A i \in Given \ {k} : LivesOn(i)
  BY <1>1, RevokeOldRows
<1>3. \A i \in (HeldBy(d) \cup {NoSession}) \ {k} : Sound(i) => Sound(i)'
  BY <1>1, <1>2, SoundStays
<1>4. /\ call'[s].kind = "refresh" /\ call'[s].at = "issuing"
      /\ call'[s].session = k /\ s \in UsesOf(d)
      /\ \A t \in SlotsOf(d) \ {s} : call'[t] = call[t]
      /\ \A t \in SlotsOf(d) : call'[t].kind = call[t].kind
  BY <1>1 DEF RevokeOld, Call, UsesOf
<1>5. SlotsOf(d)' = SlotsOf(d) /\ UsesOf(d)' = UsesOf(d)
  BY <1>4 DEF SlotsOf, UsesOf
<1>6. OneUse(d)' /\ NoneGone(d)'
  BY <1>5 DEF Kept, OneUse, NoneGone
<1>7. CookieKept(d)'
  BY <1>4, <1>5 DEF CookieKept, Rotating
<1>8. ASSUME NEW t \in SlotsOf(d) \ {s}  PROVE CallKept(t)'
  <2>1. CallKept(t) /\ BrowserOf[t[1]] = d /\ call'[t] = call[t] /\ t \notin UsesOf(d)
    BY <1>1, <1>4 DEF Kept, OneUse
  <2>2. /\ call[t].at = "granted" => Sound(call[t].session)'
        /\ call[t].session # NoSession /\ Ended(call[t].session)
              => Ended(call[t].session)'
    BY <1>1, <1>2, <1>3, <2>1 DEF RowsKept, CallKept
  <2>3. call[t].at = "granted" =>
           \A u \in SlotsOf(d) \ {t} : call'[u].session # call[t].session
    BY <1>4, <2>1 DEF CallKept
  <2>. QED  BY <1>5, <2>1, <2>2, <2>3 DEF CallKept
<1>9. CallKept(s)'
  BY <1>4 DEF CallKept
<1>. QED  BY <1>5, <1>6, <1>7, <1>8, <1>9 DEF Kept

\* An answer arrives or not. Its cookie is kept, unless it brings none.
LEMMA AnswerKeepsBrowser ==
  ASSUME FullInv, NEW d \in Browsers, Kept(d), NEW s \in SlotsOf(d),
         call[s].at \in {"granted", "closed"}, call' = [call EXCEPT ![s] = Idle],
         UNCHANGED serverRows,
         KeepCookie(d, call[s]) \/ (UNCHANGED cookie /\ ~Rotating(s))
  PROVE  Kept(d)'
<1>1. /\ cookie \in [Browsers -> Sessions \cup {NoSession}]
      /\ call \in [Slots -> Call] /\ s \in Slots
      /\ \A t \in SlotsOf(d) : t \in Slots /\ BrowserOf[t[1]] = d
  BY BrowserBasics
<1>2. /\ call'[s] = Idle /\ Idle.at = "idle" /\ Idle.kind = "none"
      /\ Idle.session = NoSession
      /\ \A t \in SlotsOf(d) \ {s} : call'[t] = call[t]
  BY <1>1 DEF Idle
<1>3. SlotsOf(d)' = SlotsOf(d) /\ UsesOf(d)' \subseteq UsesOf(d)
  BY <1>2 DEF SlotsOf, UsesOf
<1>4. OneUse(d)' /\ NoneGone(d)'
  BY <1>3 DEF Kept, OneUse, NoneGone
<1>5. \A i : (Sound(i)' <=> Sound(i)) /\ (Ended(i)' <=> Ended(i))
  BY DEF serverRows, Sound, Live, Ended
<1>6. CallKept(s)
  BY DEF Kept
<1>7. \/ call[s].at = "granted" /\ cookie'[d] = call[s].session
      \/ call[s].at = "closed" /\ cookie'[d] = NoSession
      \/ cookie'[d] = cookie[d] /\ ~Rotating(s)
  BY <1>1 DEF KeepCookie, Rotating
<1>8. CookieKept(d)'
  <2>1. CASE cookie'[d] # cookie[d]
    <3>1. Sound(cookie'[d])
      BY <1>6, <1>7, <2>1 DEF CallKept, Sound
    <3>. QED  BY <1>5, <3>1 DEF CookieKept, Sound
  <2>2. CASE cookie'[d] = cookie[d]
    <3>1. CASE Sound(cookie[d])
      BY <1>5, <2>2, <3>1 DEF CookieKept
    <3>2. ASSUME NEW t \in SlotsOf(d), Rotating(t), ~Sound(cookie[d])
          PROVE  CookieKept(d)'
      <4>1. CASE t = s
        BY <1>6, <1>7, <2>2, <3>2, <4>1 DEF CallKept, Rotating, Sound
      <4>2. CASE t # s
        BY <1>2, <1>3, <3>2, <4>2 DEF CookieKept, Rotating
      <4>. QED  BY <4>1, <4>2
    <3>. QED  BY <3>1, <3>2 DEF Kept, CookieKept
  <2>. QED  BY <2>1, <2>2
<1>9. ASSUME NEW t \in SlotsOf(d) \ {s}  PROVE CallKept(t)'
  <2>1. CallKept(t) /\ BrowserOf[t[1]] = d /\ call'[t] = call[t]
    BY <1>1, <1>2 DEF Kept
  <2>2. t \in UsesOf(d)' => t \in UsesOf(d)
    BY <1>3
  <2>3. call[t].at = "granted" =>
           /\ call[t].session \notin {NoSession, cookie'[d]}
           /\ \A u \in SlotsOf(d) \ {t} : call'[u].session # call[t].session
    BY <1>2, <1>7, <2>1 DEF CallKept
  <2>. QED  BY <1>3, <1>5, <2>1, <2>2, <2>3 DEF CallKept
<1>10. CallKept(s)'
  BY <1>2 DEF CallKept
<1>. QED  BY <1>3, <1>4, <1>8, <1>9, <1>10 DEF Kept

\* While no call uses the cookie of a browser, the cookie is sound.
LEMMA CookieSound ==
  ASSUME FullInv, NEW d \in Browsers, Kept(d), UsesOf(d) = {}
  PROVE  Sound(cookie[d])
<1>1. \A s \in SlotsOf(d) : ~Rotating(s)
  BY DEF UsesOf, Rotating
<1>. QED  BY <1>1 DEF Kept, CookieKept

\* A call starts; none is under way that uses the cookie, if it does.
LEMMA StartKeepsBrowser ==
  ASSUME FullInv, NEW d \in Browsers, Kept(d), NEW b \in Tabs, BrowserOf[b] = d,
         NEW s \in {SignSlot(b), RefreshSlot(b)}, call[s].at = "idle",
         NEW kind \in {"refresh", "login", "logout"}, Start(s, kind),
         UNCHANGED <<serverRows, cookie>>, kind = "login" \/ UsesOf(d) = {}
  PROVE  Kept(d)'
<1>1. /\ call \in [Slots -> Call] /\ s \in Slots /\ s \in SlotsOf(d) /\ s[1] = b
      /\ \A c \in Tabs : GoneSlot(c) # s
      /\ \A t \in SlotsOf(d) : t \in Slots /\ BrowserOf[t[1]] = d
  BY BrowserBasics, SlotBasics
<1>2. /\ call'[s].kind = kind /\ call'[s].at = "sent"
      /\ call'[s].session = cookie[d]
      /\ \A t \in SlotsOf(d) \ {s} : call'[t] = call[t]
  BY <1>1 DEF Start, Sent, Idle
<1>3. /\ SlotsOf(d)' = SlotsOf(d)
      /\ UsesOf(d)' \subseteq UsesOf(d) \cup {s}
      /\ kind = "login" => s \notin UsesOf(d)'
  BY <1>2 DEF SlotsOf, UsesOf
<1>4. OneUse(d)' /\ NoneGone(d)'
  BY <1>1, <1>3 DEF Kept, OneUse, NoneGone
<1>5. \A i : (Sound(i)' <=> Sound(i)) /\ (Ended(i)' <=> Ended(i))
  BY DEF serverRows, Sound, Live, Ended
<1>6. CookieKept(d)'
  <2>1. \A t \in SlotsOf(d) : Rotating(t) => Rotating(t)'
    BY <1>2 DEF Rotating
  <2>. QED  BY <1>3, <1>5, <2>1 DEF Kept, CookieKept
<1>7. ASSUME NEW t \in SlotsOf(d) \ {s}  PROVE CallKept(t)'
  <2>1. CallKept(t) /\ BrowserOf[t[1]] = d /\ call'[t] = call[t]
        /\ (t \in UsesOf(d)' => t \in UsesOf(d))
    BY <1>1, <1>2, <1>3 DEF Kept
  <2>2. call[t].at = "granted" =>
           \A u \in SlotsOf(d) \ {t} : call'[u].session # call[t].session
    BY <1>2, <2>1 DEF CallKept
  <2>. QED  BY <1>3, <1>5, <2>1, <2>2 DEF CallKept
<1>8. CallKept(s)'
  <2>1. s \in UsesOf(d)' => Sound(cookie[d])
    BY <1>3, CookieSound
  <2>. QED  BY <1>1, <1>2, <1>3, <1>5, <2>1 DEF CallKept
<1>. QED  BY <1>3, <1>4, <1>6, <1>7, <1>8 DEF Kept

\* A page is loaded while no call is under way that uses the cookie: the call
\* it leaves behind is none, and the refresh it starts is the only one.
LEMMA LoadKeepsBrowser ==
  ASSUME FullInv, NEW d \in Browsers, Kept(d), NEW b \in Tabs, BrowserOf[b] = d,
         Load(b), UsesOf(d) = {}
  PROVE  Kept(d)'
<1>. DEFINE g == GoneSlot(b)
            x == RefreshSlot(b)
            y == SignSlot(b)
<1>1. /\ call \in [Slots -> Call] /\ {g, x, y} \subseteq SlotsOf(d)
      /\ g # x /\ g # y /\ x # y /\ \A c \in Tabs : GoneSlot(c) # y
      /\ \A t \in SlotsOf(d) : t \in Slots /\ BrowserOf[t[1]] = d
  BY BrowserBasics, SlotBasics
<1>2. PICK s \in {x, y} :
        call' = [call EXCEPT ![g] = call[s], ![x] = Idle, ![y] = Sent(b, "refresh")]
  BY DEF Load
<1>3. UNCHANGED serverRows /\ cookie' = cookie
  BY DEF Load
<1>4. /\ call'[g] = call[s] /\ call'[x] = Idle
      /\ Idle.at = "idle" /\ Idle.kind = "none" /\ Idle.session = NoSession
      /\ call'[y].at = "sent" /\ call'[y].session = cookie[d]
      /\ \A t \in SlotsOf(d) \ {g, x, y} : call'[t] = call[t]
  BY <1>1, <1>2 DEF Sent, Idle
<1>5. SlotsOf(d)' = SlotsOf(d) /\ UsesOf(d)' \subseteq {y}
  <2>1. SlotsOf(d)' = SlotsOf(d)
    BY DEF SlotsOf
  <2>2. \A t \in SlotsOf(d) \ {y} : call'[t].kind \notin {"refresh", "logout"}
    BY <1>1, <1>4 DEF UsesOf
  <2>. QED  BY <2>1, <2>2 DEF UsesOf
<1>6. OneUse(d)' /\ NoneGone(d)'
  BY <1>1, <1>5 DEF OneUse, NoneGone
<1>7. \A i : (Sound(i)' <=> Sound(i)) /\ (Ended(i)' <=> Ended(i))
  BY <1>3 DEF serverRows, Sound, Live, Ended
<1>8. Sound(cookie[d]) /\ CookieKept(d)'
  BY <1>3, <1>7, CookieSound DEF CookieKept
<1>9. ASSUME NEW t \in SlotsOf(d) \ {g, x, y}  PROVE CallKept(t)'
  <2>1. CallKept(t) /\ BrowserOf[t[1]] = d /\ call'[t] = call[t] /\ t \notin UsesOf(d)'
    BY <1>1, <1>4, <1>5 DEF Kept
  <2>2. call[t].at = "granted" =>
           \A u \in SlotsOf(d) \ {t} : call'[u].session # call[t].session
    BY <1>1, <1>4, <2>1 DEF CallKept
  <2>. QED  BY <1>3, <1>5, <1>7, <2>1, <2>2 DEF CallKept
<1>10. CallKept(g)'
  <2>1. CallKept(s) /\ BrowserOf[s[1]] = d /\ BrowserOf[g[1]] = d /\ g \notin UsesOf(d)'
    BY <1>1, <1>5 DEF Kept
  <2>2. call[s].at = "granted" =>
           \A u \in SlotsOf(d) \ {g} : call'[u].session # call[s].session
    BY <1>1, <1>4, <2>1 DEF CallKept
  <2>. QED  BY <1>3, <1>4, <1>5, <1>7, <2>1, <2>2 DEF CallKept
<1>11. CallKept(x)' /\ CallKept(y)'
  BY <1>4, <1>7, <1>8 DEF CallKept
<1>. QED  BY <1>5, <1>6, <1>8, <1>9, <1>10, <1>11 DEF Kept

-----------------------------------------------------------------------------
\* What a browser holds after its call s has become c.
LEMMA HeldAfterCall ==
  ASSUME FullInv, NEW d \in Browsers, NEW s \in SlotsOf(d), NEW c,
         call' = [call EXCEPT ![s] = c], UNCHANGED cookie
  PROVE  /\ \A i \in HeldBy(d)' : i \in HeldBy(d) \/ i = c.session
         /\ \A t \in Slots \ SlotsOf(d) : call'[t] = call[t]
         /\ call'[s] = c
<1>1. call \in [Slots -> Call] /\ s \in Slots /\ SlotsOf(d) \subseteq Slots
  BY BrowserBasics
<1>2. /\ \A t \in Slots \ {s} : call'[t] = call[t]
      /\ call'[s] = c
  BY <1>1
<1>3. SlotsOf(d)' = SlotsOf(d)
  BY DEF SlotsOf
<1>. QED  BY <1>1, <1>2, <1>3 DEF HeldBy

\* A call moves on that knows what it knew, and no row is used up.
LEMMA QuietCall ==
  ASSUME FullInv, NEW d \in Browsers, NEW s \in SlotsOf(d), NEW c,
         call' = [call EXCEPT ![s] = c], c.kind = call[s].kind,
         c.session = call[s].session, UNCHANGED cookie, excused \subseteq excused',
         RowsKept, \A i \in Given : LivesOn(i), alarm' \subseteq excused',
         d \notin excused' => (Rotating(s) => Rotating(s)') /\ CallKept(s)'
  PROVE  BrowserInv'
<1>1. /\ \A i \in HeldBy(d)' : i \in HeldBy(d) \/ i = c.session
      /\ \A t \in Slots \ SlotsOf(d) : call'[t] = call[t]
  BY HeldAfterCall
<1>2. /\ call[s].session \in HeldBy(d) \cup {NoSession}
      /\ d \notin excused => Kept(d)
  BY BrowserBasics
<1>3. \A i \in HeldBy(d)' : i \in HeldBy(d)
  BY <1>1, <1>2 DEF HeldBy
<1>4. d \notin excused' => Kept(d)'
  BY <1>2, CallKeepsBrowser
<1>. QED  BY <1>1, <1>3, <1>4, BrowserMoves

\* The steps of a call on the server.
LEMMA CallStepBrowser ==
  ASSUME FullInv, NEW s \in Slots, CallStep(s), ClientUnchanged
  PROVE  BrowserInv'
<1>. DEFINE d == BrowserOf[s[1]]
            k == call[s].session
<1>1. /\ d \in Browsers /\ s \in SlotsOf(d) /\ Inv /\ NoFalseAlarm
      /\ call \in [Slots -> Call] /\ call[s] \in Call
      /\ HeldBy(d) \subseteq Given /\ NoSession \notin Given
      /\ k \in HeldBy(d) \cup {NoSession}
      /\ d \notin excused => Kept(d) /\ CallKept(s)
      /\ UNCHANGED cookie /\ excused' = excused
  BY BrowserBasics, SlotBasics DEF FullInv, BrowserInv, Kept, ClientUnchanged
<1>2. s \in UsesOf(d) <=> call[s].kind \in {"refresh", "logout"}
  BY <1>1 DEF UsesOf
<1>3. CASE Resolve(s)
  <2>. DEFINE c == call'[s]
  <2>1. /\ c.at = IF k = NoSession THEN "closed"
                  ELSE IF Live(k) THEN "revoking" ELSE "reused"
        /\ c.kind = call[s].kind /\ c.session = k
        /\ call' = [call EXCEPT ![s] = c] /\ ~Rotating(s)
    BY <1>1, <1>3 DEF Resolve, GoTo, Call, Rotating
  <2>2. UNCHANGED <<session, issued, ended>> /\ alarm' = alarm
    BY <1>3 DEF Resolve
  <2>3. \A i : (Sound(i)' <=> Sound(i)) /\ (Ended(i)' <=> Ended(i))
    BY <2>2 DEF Sound, Live, Ended
  <2>4. d \notin excused => CallKept(s)'
    <3>1. d \notin excused => Sound(k)
      BY <1>1, <1>2, <1>3 DEF CallKept, Resolve
    <3>. QED  BY <2>1, <2>3, <3>1 DEF CallKept, Sound
  <2>. QED  BY <1>1, <2>1, <2>2, <2>4, SameRows, QuietCall DEF NoFalseAlarm
<1>4. CASE RevokeReused(s)
  <2>. DEFINE c == call'[s]
  <2>1. /\ c.at = "closed" /\ c.kind = call[s].kind /\ c.session = k
        /\ call' = [call EXCEPT ![s] = c] /\ ~Rotating(s)
    BY <1>1, <1>4 DEF RevokeReused, GoTo, Call, Rotating
  <2>2. RowsKept /\ \A i \in Given : LivesOn(i)
    BY <1>1, <1>4, EndRows DEF RevokeReused
  <2>3. alarm' \subseteq excused
    <3>1. CASE d \in excused
      BY <1>1, <1>4, <3>1 DEF RevokeReused, NoFalseAlarm
    <3>2. CASE d \notin excused
      BY <1>1, <1>4, <3>2 DEF RevokeReused, NoFalseAlarm, CallKept
    <3>. QED  BY <3>1, <3>2
  <2>4. CallKept(s)'
    BY <2>1 DEF CallKept
  <2>. QED  BY <1>1, <2>1, <2>2, <2>3, <2>4, QuietCall
<1>5. CASE RevokeOld(s)
  <2>1. RowsKept /\ \A i \in Given \ {k} : LivesOn(i)
    BY <1>1, <1>5, RevokeOldRows
  <2>2. call'[s].session = k /\ call' = [call EXCEPT ![s] = call'[s]]
    BY <1>1, <1>5 DEF RevokeOld, Call
  <2>3. /\ \A i \in HeldBy(d)' : i \in HeldBy(d) \/ i = k
        /\ \A t \in Slots \ SlotsOf(d) : call'[t] = call[t]
    BY <1>1, <2>2, HeldAfterCall
  <2>4. k \in Given
    BY <1>1, <1>5 DEF Inv, ServerInv, Placed, RevokeOld
  <2>5. \A i \in HeldBy(d)' : i \in HeldBy(d)
    BY <1>1, <2>3, <2>4
  <2>6. \A i \in Given \ HeldBy(d) : LivesOn(i)
    BY <1>1, <2>1, <2>4
  <2>7. d \notin excused' => Kept(d)'
    BY <1>1, <1>5, RevokeOldKeepsBrowser
  <2>8. alarm' \subseteq excused'
    BY <1>1, <1>5 DEF RevokeOld, NoFalseAlarm
  <2>. QED  BY <1>1, <2>1, <2>3, <2>5, <2>6, <2>7, <2>8, BrowserMoves
<1>6. CASE RevokeOwn(s)
  <2>. DEFINE c == call'[s]
  <2>1. /\ c.at = "closed" /\ c.kind = call[s].kind /\ c.session = k
        /\ call' = [call EXCEPT ![s] = c] /\ ~Rotating(s)
    BY <1>1, <1>6 DEF RevokeOwn, GoTo, Call, Rotating
  <2>2. RowsKept /\ \A i \in Given : LivesOn(i)
    BY <1>1, <1>6, EndRows DEF RevokeOwn
  <2>3. alarm' \subseteq excused
    BY <1>1, <1>6 DEF RevokeOwn, NoFalseAlarm
  <2>4. CallKept(s)'
    BY <2>1 DEF CallKept
  <2>. QED  BY <1>1, <2>1, <2>2, <2>3, <2>4, QuietCall
<1>7. CASE Verify(s)
  <2>. DEFINE c == call'[s]
  <2>1. /\ c.at = "issuing" /\ c.kind = call[s].kind /\ c.session = k
        /\ call' = [call EXCEPT ![s] = c] /\ ~Rotating(s)
    BY <1>1, <1>7 DEF Verify, GoTo, Call, Rotating
  <2>2. UNCHANGED <<session, issued, ended>> /\ alarm' \subseteq excused
    BY <1>1, <1>7 DEF Verify, NoFalseAlarm
  <2>3. CallKept(s)'
    BY <2>1 DEF CallKept
  <2>. QED  BY <1>1, <2>1, <2>2, <2>3, SameRows, QuietCall
<1>8. CASE Issue(s)
  <2>0. PICK i : i = issued + 1
    OBVIOUS
  <2>. DEFINE c == call'[s]
  <2>1. RowsKept /\ \A j \in Given : LivesOn(j)
    BY <1>1, <1>8, IssueRows
  <2>2. /\ issued \in Nat /\ i \in Given' \ Given /\ i # NoSession
        /\ i \in Sessions /\ session'[i].status = "live"
    BY <1>1, <1>8, <2>0, Basics, GivenAreSessions DEF Issue, Given, NoSession,
       RowsTyped
  <2>3. /\ c.at = "granted" /\ c.kind = call[s].kind /\ c.session = i
        /\ call' = [call EXCEPT ![s] = c] /\ (Rotating(s) => Rotating(s)')
    BY <1>1, <1>8, <2>0 DEF Issue, Call, Rotating
  <2>4. /\ \A j \in HeldBy(d)' : j \in HeldBy(d) \/ j = i
        /\ \A t \in Slots \ SlotsOf(d) : call'[t] = call[t]
    BY <1>1, <2>3, HeldAfterCall
  <2>5. CallKept(s)'
    <3>1. Sound(i)'
      BY <2>2 DEF Sound, Live, Sessions
    <3>2. cookie[d] # i /\ \A t \in SlotsOf(d) \ {s} : call'[t].session # i
      <4>1. /\ cookie[d] \in HeldBy(d) \cup {NoSession}
            /\ \A t \in SlotsOf(d) : t \in Slots
                  /\ call[t].session \in HeldBy(d) \cup {NoSession}
        BY <1>1, BrowserBasics
      <4>2. \A t \in SlotsOf(d) \ {s} : call'[t] = call[t]
        BY <1>1, <2>3, <4>1
      <4>. QED  BY <1>1, <2>2, <4>1, <4>2
    <3>. QED  BY <1>1, <2>2, <2>3, <3>1, <3>2 DEF CallKept, SlotsOf
  <2>6. d \notin excused' => Kept(d)'
    BY <1>1, <2>1, <2>2, <2>3, <2>5, CallKeepsBrowser
  <2>7. alarm' \subseteq excused'
    BY <1>1, <1>8 DEF Issue, NoFalseAlarm
  <2>. QED  BY <1>1, <2>1, <2>2, <2>4, <2>6, <2>7, BrowserMoves
<1>. QED  BY <1>3, <1>4, <1>5, <1>6, <1>7, <1>8 DEF CallStep

\* A call fails. If it has used up the cookie, the browser is excused.
LEMMA CallBreaksBrowser ==
  ASSUME FullInv, NEW s \in Slots, CallBreaks(s)
  PROVE  BrowserInv'
<1>. DEFINE d == BrowserOf[s[1]]
            c == call'[s]
<1>1. /\ d \in Browsers /\ s \in SlotsOf(d) /\ NoFalseAlarm
      /\ call \in [Slots -> Call] /\ call[s] \in Call
  BY BrowserBasics, SlotBasics DEF FullInv, BrowserInv
<1>2. /\ c.at = "closed" /\ c.kind = call[s].kind
      /\ c.session = call[s].session /\ call' = [call EXCEPT ![s] = c]
      /\ call[s].at # "granted"
  BY <1>1 DEF CallBreaks, CallFails, GoTo, Call
<1>3. /\ UNCHANGED <<session, issued, ended>> /\ UNCHANGED cookie /\ alarm' = alarm
      /\ excused \subseteq excused' /\ (Rotating(s) => d \in excused')
  BY <1>2 DEF CallBreaks, CallFails, ExcuseIf, Rotating
<1>4. CallKept(s)'
  BY <1>2 DEF CallKept
<1>. QED  BY <1>1, <1>2, <1>3, <1>4, SameRows, QuietCall DEF NoFalseAlarm

-----------------------------------------------------------------------------
\* A step of a tab that changes no rows: its browser holds nothing it did not
\* hold before.
LEMMA TabMoves ==
  ASSUME FullInv, NEW d \in Browsers, UNCHANGED serverRows,
         cookie'[d] \in HeldBy(d) \cup {NoSession},
         \A e \in Browsers \ {d} : cookie'[e] = cookie[e],
         \A s \in SlotsOf(d) : call'[s].session \in HeldBy(d) \cup {NoSession},
         \A s \in Slots \ SlotsOf(d) : call'[s] = call[s],
         excused \subseteq excused', d \notin excused' => Kept(d)'
  PROVE  BrowserInv'
<1>1. /\ RowsKept /\ \A i \in Given : LivesOn(i)
      /\ alarm' \subseteq excused'
  BY SameRows DEF serverRows, FullInv, BrowserInv, NoFalseAlarm
<1>2. \A i \in HeldBy(d)' : i \in HeldBy(d)
  BY DEF HeldBy, SlotsOf
<1>. QED  BY <1>1, <1>2, BrowserMoves

\* An answer arrives or not.
LEMMA AnswerBrowser ==
  ASSUME FullInv, NEW d \in Browsers, NEW s \in SlotsOf(d),
         call[s].at \in {"granted", "closed"}, call' = [call EXCEPT ![s] = Idle],
         UNCHANGED serverRows, excused \subseteq excused',
         \/ KeepCookie(d, call[s])
         \/ UNCHANGED cookie /\ (d \notin excused' => ~Rotating(s))
  PROVE  BrowserInv'
<1>1. /\ call \in [Slots -> Call] /\ s \in Slots
      /\ cookie \in [Browsers -> Sessions \cup {NoSession}]
      /\ cookie[d] \in HeldBy(d) \cup {NoSession}
      /\ \A t \in SlotsOf(d) :
            t \in Slots /\ call[t].session \in HeldBy(d) \cup {NoSession}
      /\ d \notin excused => Kept(d)
  BY BrowserBasics
<1>2. cookie'[d] \in HeldBy(d) \cup {NoSession}
      /\ \A e \in Browsers \ {d} : cookie'[e] = cookie[e]
  <2>1. CASE UNCHANGED cookie
    BY <1>1, <2>1
  <2>2. CASE KeepCookie(d, call[s])
    <3>1. cookie'[d] \in {call[s].session, NoSession, cookie[d]}
      BY <1>1, <2>2 DEF KeepCookie
    <3>2. \A e \in Browsers \ {d} : cookie'[e] = cookie[e]
      BY <1>1, <2>2 DEF KeepCookie
    <3>. QED  BY <1>1, <3>1, <3>2
  <2>. QED  BY <2>1, <2>2
<1>3. \A t \in SlotsOf(d) : call'[t].session \in HeldBy(d) \cup {NoSession}
  BY <1>1 DEF Idle
<1>4. \A t \in Slots \ SlotsOf(d) : call'[t] = call[t]
  BY <1>1
<1>5. d \notin excused' => Kept(d)'
  BY <1>1, AnswerKeepsBrowser
<1>. QED  BY <1>2, <1>3, <1>4, <1>5, TabMoves

\* A call starts. If it uses the cookie while another call does, the browser is
\* excused.
LEMMA StartBrowser ==
  ASSUME FullInv, NEW b \in Tabs, NEW s \in {SignSlot(b), RefreshSlot(b)},
         call[s].at = "idle", NEW kind \in {"refresh", "login", "logout"},
         Start(s, kind), UNCHANGED <<serverRows, cookie>>,
         \/ kind = "login" /\ UNCHANGED excused
         \/ ExcuseIf(UsesOf(BrowserOf[b]) # {}, BrowserOf[b])
  PROVE  BrowserInv'
<1>. DEFINE d == BrowserOf[b]
<1>1. /\ d \in Browsers /\ s \in SlotsOf(d) /\ s[1] = b
  BY SlotBasics
<1>2. /\ call \in [Slots -> Call] /\ s \in Slots
      /\ cookie[d] \in HeldBy(d) \cup {NoSession}
      /\ \A t \in SlotsOf(d) :
            t \in Slots /\ call[t].session \in HeldBy(d) \cup {NoSession}
      /\ d \notin excused => Kept(d)
  BY <1>1, BrowserBasics
<1>3. \A t \in SlotsOf(d) : call'[t].session \in HeldBy(d) \cup {NoSession}
  BY <1>1, <1>2 DEF Start, Sent, Idle
<1>4. \A t \in Slots \ SlotsOf(d) : call'[t] = call[t]
  BY <1>1, <1>2 DEF Start
<1>5. /\ excused \subseteq excused'
      /\ d \notin excused' => d \notin excused /\ (kind = "login" \/ UsesOf(d) = {})
  BY DEF ExcuseIf
<1>6. d \notin excused' => Kept(d)'
  BY <1>1, <1>2, <1>5, StartKeepsBrowser
<1>. QED  BY <1>1, <1>2, <1>3, <1>4, <1>5, <1>6, TabMoves

LEMMA LoadBrowser ==
  ASSUME FullInv, NEW b \in Tabs, Load(b)
  PROVE  BrowserInv'
<1>. DEFINE d == BrowserOf[b]
            g == GoneSlot(b)
            x == RefreshSlot(b)
            y == SignSlot(b)
<1>1. /\ d \in Browsers /\ {g, x, y} \subseteq SlotsOf(d)
      /\ g # x /\ g # y /\ x # y
  BY SlotBasics
<1>2. /\ call \in [Slots -> Call]
      /\ cookie[d] \in HeldBy(d) \cup {NoSession}
      /\ \A t \in SlotsOf(d) :
            t \in Slots /\ call[t].session \in HeldBy(d) \cup {NoSession}
      /\ d \notin excused => Kept(d)
  BY <1>1, BrowserBasics
<1>3. PICK s \in {x, y} :
        call' = [call EXCEPT ![g] = call[s], ![x] = Idle, ![y] = Sent(b, "refresh")]
  BY DEF Load
<1>4. /\ call'[g] = call[s] /\ call'[x].session = NoSession
      /\ call'[y].session = cookie[d]
      /\ \A t \in Slots \ {g, x, y} : call'[t] = call[t]
  BY <1>1, <1>2, <1>3 DEF Sent, Idle
<1>5. \A t \in SlotsOf(d) : call'[t].session \in HeldBy(d) \cup {NoSession}
  BY <1>1, <1>2, <1>4
<1>6. \A t \in Slots \ SlotsOf(d) : call'[t] = call[t]
  BY <1>1, <1>4
<1>7. /\ excused \subseteq excused' /\ UNCHANGED <<serverRows, cookie>>
      /\ d \notin excused' => d \notin excused /\ UsesOf(d) = {}
  BY DEF Load, ExcuseIf
<1>8. d \notin excused' => Kept(d)'
  BY <1>1, <1>2, <1>7, LoadKeepsBrowser
<1>. QED  BY <1>1, <1>2, <1>5, <1>6, <1>7, <1>8, TabMoves

\* The steps of a tab, and the answers it gets. Of an unexcused browser no page
\* that is gone has used the cookie, so what becomes of its answer matters not.
LEMMA TabStepBrowser ==
  ASSUME FullInv, NEW b \in Tabs, Load(b) \/ Login(b) \/ Logout(b) \/ Answered(b)
  PROVE  BrowserInv'
<1>. DEFINE d == BrowserOf[b]
<1>1. /\ d \in Browsers
      /\ SignSlot(b) \in SlotsOf(d) /\ RefreshSlot(b) \in SlotsOf(d)
      /\ GoneSlot(b) \in SlotsOf(d)
  BY SlotBasics
<1>2. CASE Load(b)
  BY <1>2, LoadBrowser
<1>3. CASE Login(b)
  BY <1>3, StartBrowser DEF Login
<1>4. CASE Logout(b)
  BY <1>4, StartBrowser DEF Logout
<1>5. CASE SignAnswered(b)
  BY <1>1, <1>5, AnswerBrowser DEF SignAnswered
<1>6. CASE RefreshAnswered(b)
  BY <1>1, <1>6, AnswerBrowser DEF RefreshAnswered
<1>7. CASE OrphanAnswered(b)
  <2>1. d \notin excused => ~Rotating(GoneSlot(b))
    BY <1>1, BrowserBasics DEF Kept, NoneGone, UsesOf, Rotating
  <2>. QED  BY <1>1, <1>7, <2>1, AnswerBrowser DEF OrphanAnswered
<1>. QED  BY <1>2, <1>3, <1>4, <1>5, <1>6, <1>7 DEF Answered

\* If the answer to a rotation is lost, the browser is excused.
LEMMA AnswerLostBrowser ==
  ASSUME FullInv, NEW s \in Slots, AnswerLost(s)
  PROVE  BrowserInv'
<1>. DEFINE d == BrowserOf[s[1]]
<1>1. d \in Browsers /\ s \in SlotsOf(d)
  BY SlotBasics
<1>2. /\ call[s].at \in {"granted", "closed"} /\ call' = [call EXCEPT ![s] = Idle]
      /\ UNCHANGED <<serverRows, cookie>> /\ excused \subseteq excused'
      /\ d \notin excused' => ~Rotating(s)
  BY DEF AnswerLost, ExcuseIf, Rotating
<1>. QED  BY <1>1, <1>2, AnswerBrowser

\* The steps of a request: some end sessions, one starts a refresh.
LEMMA RequestStepBrowser ==
  ASSUME FullInv, NEW r \in Requests, Send(r) \/ RequestStep(r) \/ RefusalLost(r)
  PROVE  BrowserInv'
<1>1. Inv /\ TabOf[r] \in Tabs
  BY ClientConstants DEF FullInv
<1>2. CASE AwaitRefresh(r)
  <2>1. CASE UNCHANGED <<call, excused>>
    <3>1. UNCHANGED <<session, issued, ended>>
          /\ UNCHANGED <<cookie, call, alarm, excused>>
      BY <1>2, <2>1 DEF AwaitRefresh, serverRows
    <3>. QED  BY <3>1, SameRows, NobodyMoves
  <2>2. CASE ~UNCHANGED <<call, excused>>
    <3>. DEFINE b == TabOf[r]
    <3>1. /\ call[RefreshSlot(b)].at = "idle" /\ Start(RefreshSlot(b), "refresh")
          /\ ExcuseIf(UsesOf(BrowserOf[b]) # {}, BrowserOf[b])
          /\ UNCHANGED <<serverRows, cookie>>
      BY <1>2, <2>2 DEF AwaitRefresh
    <3>. QED  BY <1>1, <3>1, StartBrowser
  <2>. QED  BY <2>1, <2>2
<1>3. ASSUME UNCHANGED serverVars, UNCHANGED <<cookie, excused>>
      PROVE  BrowserInv'
  <2>1. UNCHANGED <<session, issued, ended>>
        /\ UNCHANGED <<cookie, call, alarm, excused>>
    BY <1>3 DEF serverVars
  <2>. QED  BY <2>1, SameRows, NobodyMoves
<1>4. ASSUME NEW S, End(S), UNCHANGED <<issued, call, alarm, cookie, excused>>
      PROVE  BrowserInv'
  BY <1>1, <1>4, EndRows, NobodyMoves
<1>5. CASE EndOthersHandled(r)
  BY <1>4, <1>5 DEF EndOthersHandled, EndOthers
<1>6. CASE EndOtherHandled(r)
  BY <1>3, <1>4, <1>6 DEF EndOtherHandled, EndOther
<1>. QED
  BY <1>2, <1>3, <1>5, <1>6 DEF RequestStep, Send, RefusalLost, Guard, Handle,
     CreateSelects, GiveUp, Plain, Switch, Create, Mistyped, OnlyRequest

-----------------------------------------------------------------------------
LEMMA BrowserInit == Init => BrowserInv
<1>. SUFFICES ASSUME Init  PROVE BrowserInv
  OBVIOUS
<1>1. /\ \A s \in Slots : call[s] = Idle
      /\ \A d \in Browsers : cookie[d] = NoSession /\ SlotsOf(d) \subseteq Slots
      /\ Idle.at = "idle" /\ Idle.kind = "none" /\ Idle.session = NoSession
      /\ alarm = {} /\ excused = {}
  BY DEF Init, ServerInit, Idle, SlotsOf
<1>2. \A d \in Browsers : HeldBy(d) = {}
  BY <1>1 DEF HeldBy
<1>3. \A d \in Browsers : UsesOf(d) = {}
  BY <1>1 DEF UsesOf
<1>4. \A d \in Browsers : \A s \in SlotsOf(d) : CallKept(s)
  BY <1>1 DEF CallKept
<1>5. \A d \in Browsers : Kept(d)
  BY <1>1, <1>3, <1>4 DEF Kept, OneUse, NoneGone, CookieKept, Sound
<1>. QED  BY <1>1, <1>2, <1>5 DEF BrowserInv, Held, NoFalseAlarm

LEMMA BrowserNext ==
  ASSUME FullInv, [Next]_vars  PROVE BrowserInv'
<1>1. ASSUME UNCHANGED serverVars, UNCHANGED <<cookie, excused>>
      PROVE  BrowserInv'
  <2>1. UNCHANGED <<session, issued, ended>>
        /\ UNCHANGED <<cookie, call, alarm, excused>>
    BY <1>1 DEF serverVars
  <2>. QED  BY <2>1, SameRows, NobodyMoves
<1>2. CASE UNCHANGED vars
  BY <1>1, <1>2 DEF vars
<1>3. ASSUME NEW i \in Sessions, AccessExpires(i)  PROVE BrowserInv'
  BY <1>1, <1>3 DEF AccessExpires
<1>4. CASE EndAll /\ ClientUnchanged
  BY <1>4, EndRows, NobodyMoves DEF FullInv, EndAll, ClientUnchanged
<1>. QED
  BY <1>2, <1>3, <1>4, TabStepBrowser, CallStepBrowser, CallBreaksBrowser,
     AnswerLostBrowser, RequestStepBrowser DEF Next

THEOREM BrowserInvariant == Spec => []FullInv
<1>1. Init => FullInv
  BY InitInv, BrowserInit DEF FullInv
<1>2. FullInv /\ [Next]_vars => FullInv'
  <2>1. ASSUME FullInv, [Next]_vars  PROVE Inv'
    BY <2>1, ServerNext, ClientNext, Stutter DEF FullInv, Inv
  <2>. QED  BY <2>1, BrowserNext DEF FullInv
<1>. QED  BY <1>1, <1>2, PTL DEF Spec

\* The API takes a refresh token for used a second time, and ends every session
\* of the user, only if somebody has ended that session, or it is the token of
\* a browser that had two calls under way with its cookie at one time, has lost
\* the answer to a rotation or had a rotation fail halfway. Tabs of a browser
\* may refresh in turn, and in any order, with other browsers in between
\* (resolveRefreshSession).
THEOREM NoFalseReuse == Spec => []NoFalseAlarm
<1>1. FullInv => NoFalseAlarm
  BY DEF FullInv, BrowserInv
<1>. QED  BY BrowserInvariant, <1>1, PTL

\* Of every other browser the cookie names, whenever no call is under way that
\* uses it, a session that is live or that somebody has ended: its tabs, each
\* rotating what another has left, never use it up (RefreshSessionHandler, the
\* cookies of refresh and login).
THEOREM StaysSignedIn == Spec => []KeptSignedIn
<1>1. ASSUME FullInv, NEW d \in Browsers \ excused, UsesOf(d) = {},
             cookie[d] # NoSession
      PROVE  Live(cookie[d]) \/ Ended(cookie[d])
  <2>1. Sound(cookie[d])
    BY <1>1, CookieSound DEF FullInv, BrowserInv
  <2>. QED  BY <1>1, <2>1 DEF Sound
<1>2. FullInv => KeptSignedIn
  BY <1>1 DEF KeptSignedIn
<1>. QED  BY BrowserInvariant, <1>2, PTL
=============================================================================
