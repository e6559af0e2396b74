-------------------------- MODULE EmailLogin_proofs --------------------------
(***************************************************************************)
(* Proofs about EmailLogin, for any number of addresses, overlapping       *)
(* requests and verifications, and any values of the timeouts and limits.  *)
(***************************************************************************)
EXTENDS EmailLogin, SequenceTheorems, TLAPS

-----------------------------------------------------------------------------
(* The inductive invariant                                                 *)

\* The points of the request handler at which its challenge may be stored, the
\* ones after the cooldown was checked, and the ones after the answer.
Made   == {"send", "accepted", "undelivered"}
Cooled == {"user", "create"} \cup Made
Ended  == {"accepted", "failed", "silent", "refused"}

\* A row is the work of one handler and still says what that handler wrote.
RowsMatchRequests ==
    \A c \in Requests :
        Stored(c) => /\ req[c].pc \in Made
                     /\ challenges[c].email = req[c].email
                     /\ challenges[c].expires = req[c].now + CodeTtl
                     /\ challenges[c].created >= req[c].now

\* Only handlers at work have made challenges.
HistoryIsMade == \A i \in DOMAIN history : req[history[i]] # Idle

\* The newest row of an address outlives everything but its expiry and its use.
NewestIsLive ==
    \A c \in Requests :
        req[c].pc \in Made /\ Newest(c) /\ now < req[c].now + CodeTtl
        => Stored(c) /\ (challenges[c].consumed => redeemed[c] > 0)

\* A row that is not consumed is the newest of its address, and never used.
LiveIsNewest ==
    \A c \in Requests :
        Stored(c) /\ ~challenges[c].consumed => Newest(c) /\ redeemed[c] = 0

RedeemedWasSent == \A c \in Requests : redeemed[c] > 0 => req[c].pc = "accepted"

\* What a handler learnt from the cooldown stays true: the requests it follows
\* are over and make no more rows.
Follows(d) ==
    \A c \in req[d].after :
        /\ req[c].pc \in Ended
        /\ req[d].pc \in Cooled /\ Stored(c) /\ challenges[c].email = req[d].email
           => challenges[c].created + Cooldown <= req[d].now

FollowersWaited == \A d \in Requests : req[d] # Idle => req[d].now <= now /\ Follows(d)

ChallengeInv ==
    /\ RowsMatchRequests
    /\ HistoryIsMade
    /\ NewestIsLive
    /\ LiveIsNewest
    /\ RedeemedWasSent
    /\ FollowersWaited

LoginInv == TypeOK /\ ChallengeInv

-----------------------------------------------------------------------------
(* Lemmas about rows, handlers and the history                             *)

\* The limits are numbers.
LEMMA Limits == CodeTtl \in Nat /\ Cooldown \in Nat /\ SessionTtl \in Nat /\ MaxAttempts \in Nat
BY LoginConstants

\* A row is told from no row, and a handler at work from an idle one.
LEMMA Present ==
    /\ NoChallenge \notin Challenges /\ NoSession \notin Sessions
    /\ Idle \notin Handlers /\ Idle \notin Verifications
    /\ \A h \in Handlers : h.pc # "idle"
    /\ \A h \in Verifications : h.pc # "idle"
BY DEF NoChallenge, NoSession, Idle, Challenges, Sessions, Handlers, Verifications

\* A row that is stored has all its columns, a handler at work all its locals.
LEMMA RowTypes ==
    ASSUME TypeOK, NEW c \in Requests
    PROVE  /\ Stored(c) => challenges[c] \in Challenges
           /\ req[c].pc # "idle" => req[c] \in Handlers
           /\ req[c] # Idle => req[c] \in Handlers
BY DEF TypeOK, Stored, Idle

\* Newest looks at the history and at the addresses in it, and at nothing else.
LEMMA SameNewest ==
    ASSUME history' = history, NEW c,
           \A i \in DOMAIN history : req'[history[i]].email = req[history[i]].email
    PROVE  Newest(c)' <=> Newest(c)
BY DEF Newest

\* A handler that moves on keeps its locals.
LEMMA MovedOn ==
    ASSUME TypeOK, NEW r \in Requests, req[r].pc # "idle",
           NEW at \in {"cooldown", "user", "create", "send", "accepted", "undelivered",
                       "failed", "silent", "refused"},
           req' = [req EXCEPT ![r].pc = at]
    PROVE  /\ req' \in [Requests -> Handlers \cup {Idle}]
           /\ \A c \in Requests : c # r => req'[c] = req[c]
           /\ req'[r].pc = at
           /\ req'[r] # Idle
           /\ req'[r].email = req[r].email /\ req'[r].ip = req[r].ip
           /\ req'[r].now = req[r].now /\ req'[r].after = req[r].after
<1>1. req[r] \in Handlers
    BY RowTypes
<1>2. req'[r] \in Handlers
    BY <1>1 DEF TypeOK, Handlers
<1> QED BY <1>1, <1>2, Present DEF TypeOK, Handlers, Idle

-----------------------------------------------------------------------------
(* One lemma per step                                                      *)

\* No request has been made.
LEMMA InitLoginInv == Init => LoginInv
<1> SUFFICES ASSUME Init PROVE LoginInv
    OBVIOUS
<1>1. TypeOK
    BY DEF Init, TypeOK
<1>2. ChallengeInv
    BY DEF Init, ChallengeInv, RowsMatchRequests, HistoryIsMade, NewestIsLive, LiveIsNewest,
           RedeemedWasSent, FollowersWaited, Stored, Idle, Made
<1> QED BY <1>1, <1>2 DEF LoginInv

\* A new request knows which requests have been answered.
LEMMA StartKeepsInv ==
    ASSUME LoginInv, NEW r \in Requests, NEW e \in Emails, NEW ip \in Ips,
           StartRequest(r, e, ip)
    PROVE  LoginInv'
<1> USE DEF LoginInv, ChallengeInv
<1> DEFINE h == [pc |-> IF Cardinality(RecentFrom(ip)) >= IpMax THEN "refused" ELSE "cooldown",
                 email |-> e, ip |-> ip, now |-> now, after |-> Answered]
<1>1. /\ h \in Handlers /\ h.pc \in {"refused", "cooldown"}
      /\ h.now = now /\ h.after = Answered
      /\ req' = [req EXCEPT ![r] = h]
  <2>1. Answered \in SUBSET Requests
    BY DEF Answered
  <2> QED BY <2>1 DEF StartRequest, Handlers, TypeOK
<1> HIDE DEF h
<1>2. TypeOK'
    BY <1>1 DEF StartRequest, TypeOK
<1>3. req[r] = Idle /\ req'[r] = h /\ \A c \in Requests : c # r => req'[c] = req[c]
    BY <1>1 DEF StartRequest, TypeOK
<1>4. ~Stored(r) /\ redeemed[r] = 0
  <2>1. req[r].pc = "idle"
    BY <1>3 DEF Idle
  <2> QED BY <2>1, SMTT(30) DEF RowsMatchRequests, Made, RedeemedWasSent, TypeOK
<1>5. \A i \in DOMAIN history : history[i] \in Requests /\ history[i] # r
    BY <1>3 DEF HistoryIsMade, TypeOK
<1>6. \A c : Newest(c)' <=> Newest(c)
    BY <1>3, <1>5, SameNewest DEF StartRequest
<1>7. RowsMatchRequests' /\ RedeemedWasSent' /\ LiveIsNewest'
    BY <1>3, <1>4, <1>6
    DEF StartRequest, RowsMatchRequests, RedeemedWasSent, LiveIsNewest, Stored
<1>8. NewestIsLive'
    BY <1>1, <1>3, <1>6 DEF StartRequest, NewestIsLive, Stored, Made
<1>9. HistoryIsMade'
    BY <1>3, <1>5 DEF StartRequest, HistoryIsMade
<1>10. FollowersWaited'
  <2>1. \A c \in Requests : req[c].pc \in Ended => c # r /\ req'[c] = req[c]
    BY <1>3 DEF Ended, Idle
  <2>2. ASSUME NEW d \in Requests, d # r, req'[d] # Idle PROVE req'[d].now <= now' /\ Follows(d)'
    BY <1>3, <2>1, <2>2, RowTypes
    DEF StartRequest, FollowersWaited, Follows, Stored, Handlers
  <2>3. req'[r].now <= now' /\ Follows(r)'
    BY <1>1, <1>3, <2>1 DEF StartRequest, Follows, Answered, Ended, Cooled, Made, TypeOK
  <2> QED BY <2>2, <2>3 DEF FollowersWaited
<1> QED BY <1>2, <1>7, <1>8, <1>9, <1>10

\* A handler that goes on without touching a row.
LEMMA MoveKeepsInv ==
    ASSUME LoginInv, NEW r \in Requests,
           CheckCooldown(r) \/ CheckUser(r) \/ SendCode(r)
    PROVE  LoginInv'
<1> USE DEF LoginInv, ChallengeInv
<1>1. PICK at \in {"user", "create", "accepted", "undelivered", "silent", "refused"} :
          /\ req' = [req EXCEPT ![r].pc = at]
          /\ req[r].pc = "send" <=> at \in {"accepted", "undelivered"}
          /\ at \in Cooled => \/ req[r].pc \in Cooled
                              \/ req[r].pc = "cooldown" /\ ~Cooling(r)
          /\ req[r].pc \in {"cooldown", "user", "send"}
    BY DEF CheckCooldown, CheckUser, SendCode, Cooled, Made
<1>2. /\ UNCHANGED <<now, challenges, redeemed, history>>
      /\ UNCHANGED <<users, sessions, ver>>
    BY DEF CheckCooldown, CheckUser, SendCode
<1>3. /\ req' \in [Requests -> Handlers \cup {Idle}]
      /\ \A c \in Requests : c # r => req'[c] = req[c]
      /\ req'[r].pc = at /\ req'[r] # Idle
      /\ req'[r].email = req[r].email
      /\ req'[r].now = req[r].now /\ req'[r].after = req[r].after
    BY <1>1, MovedOn
<1>4. TypeOK'
    BY <1>2, <1>3 DEF TypeOK
<1>5. \A c : Newest(c)' <=> Newest(c)
  <2>1. \A i \in DOMAIN history : history[i] \in Requests
    BY DEF TypeOK
  <2> QED BY <1>2, <1>3, <2>1, SameNewest
<1>6. RowsMatchRequests' /\ RedeemedWasSent' /\ LiveIsNewest'
  <2>1. RowsMatchRequests'
    BY <1>1, <1>2, <1>3 DEF RowsMatchRequests, Stored, Made
  <2>2. RedeemedWasSent' /\ LiveIsNewest'
    BY <1>1, <1>2, <1>3, <1>5 DEF RedeemedWasSent, LiveIsNewest, Stored
  <2> QED BY <2>1, <2>2
<1>7. NewestIsLive'
    BY <1>1, <1>2, <1>3, <1>5 DEF NewestIsLive, Stored, Made
<1>8. HistoryIsMade'
  <2>1. \A i \in DOMAIN history : history[i] \in Requests
    BY DEF TypeOK
  <2> QED BY <1>2, <1>3, <2>1 DEF HistoryIsMade
<1>9. FollowersWaited'
  <2>1. \A c \in Requests : req[c].pc \in Ended => req'[c] = req[c]
    BY <1>1, <1>3 DEF Ended
  <2>2. ASSUME NEW d \in Requests, d # r, req'[d] # Idle
        PROVE  req'[d].now <= now' /\ Follows(d)'
    BY <1>2, <1>3, <2>1, <2>2, RowTypes DEF FollowersWaited, Follows, Stored, Handlers
  <2>3. req[r] # Idle /\ req[r] \in Handlers
    BY <1>1, RowTypes DEF Idle
  <2>4. req'[r].now <= now' /\ Follows(r)'
    <3>1. ASSUME NEW c \in req[r].after PROVE c \in Requests /\ req'[c].pc \in Ended
      BY <2>1, <2>3 DEF FollowersWaited, Follows, Handlers
    <3>2. ASSUME NEW c \in req[r].after, at \in Cooled, Stored(c),
                 challenges[c].email = req[r].email
          PROVE  challenges[c].created + Cooldown <= req[r].now
      <4>1. CASE req[r].pc \in Cooled
        BY <2>3, <3>2, <4>1 DEF FollowersWaited, Follows
      <4>2. CASE ~Cooling(r)
        <5>1. c \in Requests /\ challenges[c] \in Challenges
          BY <3>1, <3>2, RowTypes
        <5> QED BY <2>3, <3>2, <4>2, <5>1, Limits
                DEF Cooling, RowsOf, Challenges, Handlers
      <4> QED BY <1>1, <3>2, <4>1, <4>2
    <3> QED BY <1>2, <1>3, <2>3, <3>1, <3>2 DEF FollowersWaited, Follows, Stored
  <2> QED BY <2>2, <2>4 DEF FollowersWaited
<1> QED BY <1>4, <1>6, <1>7, <1>8, <1>9

\* The new row is the newest of its address and the older ones are consumed.
LEMMA CreateKeepsInv ==
    ASSUME LoginInv, NEW r \in Requests, CreateChallenge(r)
    PROVE  LoginInv'
<1> USE DEF LoginInv, ChallengeInv
<1> DEFINE row == [email |-> req[r].email, ip |-> req[r].ip, attempts |-> 0,
                   consumed |-> FALSE, expires |-> req[r].now + CodeTtl, created |-> now]
<1>1. /\ req' \in [Requests -> Handlers \cup {Idle}]
      /\ \A c \in Requests : c # r => req'[c] = req[c]
      /\ req'[r].pc = "send" /\ req'[r] # Idle
      /\ req'[r].email = req[r].email
      /\ req'[r].now = req[r].now /\ req'[r].after = req[r].after
    BY MovedOn DEF CreateChallenge
<1>2. /\ req[r] # Idle /\ req[r] \in Handlers
      /\ req[r].now <= now /\ req[r].now \in Nat /\ now \in Nat
    BY RowTypes DEF CreateChallenge, Idle, FollowersWaited, Handlers, TypeOK
<1>3. /\ row \in Challenges /\ row # NoChallenge
      /\ row.email = req[r].email /\ row.consumed = FALSE
      /\ row.expires = req[r].now + CodeTtl /\ row.created = now
  <2>1. 0 \in 0 .. MaxAttempts /\ req[r].now + CodeTtl \in Nat
    BY <1>2, Limits
  <2>2. row \in Challenges
    BY <1>2, <2>1 DEF Handlers, Challenges
  <2> QED BY <2>2, Present
<1>4. challenges'[r] = row
    BY DEF CreateChallenge, Superseded
<1> HIDE DEF row
<1>5. ASSUME NEW c \in Requests, c # r
      PROVE  /\ c \notin RowsOf(req[r].email) => challenges'[c] = challenges[c]
             /\ c \in RowsOf(req[r].email) =>
                    challenges'[c] = [challenges[c] EXCEPT !.consumed = TRUE]
    BY <1>5 DEF CreateChallenge, Superseded
<1>6. ASSUME NEW c \in Requests, c # r
      PROVE  /\ Stored(c)' <=> Stored(c)
             /\ Stored(c) => /\ challenges'[c] \in Challenges
                             /\ challenges'[c].email = challenges[c].email
                             /\ challenges'[c].expires = challenges[c].expires
                             /\ challenges'[c].created = challenges[c].created
                             /\ c \in RowsOf(req[r].email) => challenges'[c].consumed = TRUE
  <2>1. CASE c \in RowsOf(req[r].email)
    <3>1. Stored(c) /\ challenges[c] \in Challenges
      BY <2>1, RowTypes DEF RowsOf
    <3>2. challenges'[c] \in Challenges
      BY <1>5, <1>6, <2>1, <3>1 DEF Challenges
    <3>3. Stored(c)'
      BY <3>2, Present DEF Stored
    <3> QED BY <1>5, <1>6, <2>1, <3>1, <3>2, <3>3 DEF Challenges
  <2>2. CASE c \notin RowsOf(req[r].email)
    BY <1>5, <1>6, <2>2, RowTypes DEF Stored
  <2> QED BY <2>1, <2>2
<1>7. Stored(r)' /\ ~Stored(r) /\ redeemed[r] = 0
  <2>1. Stored(r)' /\ ~Stored(r)
    BY <1>3, <1>4 DEF Stored, CreateChallenge, RowsMatchRequests, Made
  <2>2. redeemed[r] \in Nat /\ ~(redeemed[r] > 0)
    BY DEF CreateChallenge, RedeemedWasSent, TypeOK
  <2> QED BY <2>1, <2>2
<1>8. challenges' \in [Requests -> Challenges \cup {NoChallenge}]
  <2>1. \A c \in Requests : challenges'[c] \in Challenges \cup {NoChallenge}
    BY <1>3, <1>4, <1>6 DEF Stored
  <2>2. challenges' = [c \in Requests |-> challenges'[c]]
    BY DEF CreateChallenge, Superseded
  <2> QED BY <2>1, <2>2
<1>9. /\ history' \in Seq(Requests) /\ DOMAIN history' = 1 .. Len(history) + 1
      /\ DOMAIN history = 1 .. Len(history) /\ Len(history) \in Nat
      /\ \A i \in DOMAIN history : history'[i] = history[i] /\ history[i] \in Requests
      /\ history'[Len(history) + 1] = r
    BY AppendProperties DEF CreateChallenge, TypeOK
<1>10. TypeOK'
    BY <1>1, <1>8, <1>9 DEF CreateChallenge, TypeOK
<1>11. Newest(r)'
    BY <1>9 DEF Newest
<1>12. ASSUME NEW c \in Requests, c # r
       PROVE  Newest(c)' <=> Newest(c) /\ req[c].email # req[r].email
    BY <1>1, <1>9, <1>12 DEF Newest
<1>13. RowsMatchRequests'
  <2>1. ASSUME NEW c \in Requests, c # r, Stored(c)'
        PROVE  /\ req'[c].pc \in Made
               /\ challenges'[c].email = req'[c].email
               /\ challenges'[c].expires = req'[c].now + CodeTtl
               /\ challenges'[c].created >= req'[c].now
    BY <1>1, <1>6, <2>1 DEF RowsMatchRequests
  <2>2. /\ req'[r].pc \in Made
        /\ challenges'[r].email = req'[r].email
        /\ challenges'[r].expires = req'[r].now + CodeTtl
        /\ challenges'[r].created >= req'[r].now
    BY <1>1, <1>2, <1>3, <1>4 DEF Made
  <2> QED BY <2>1, <2>2 DEF RowsMatchRequests
<1>14. HistoryIsMade'
    BY <1>1, <1>9 DEF HistoryIsMade
<1>15. NewestIsLive' /\ LiveIsNewest'
  <2>1. ASSUME NEW c \in Requests, c # r, Newest(c)' PROVE challenges'[c] = challenges[c]
    BY <1>5, <1>12, <2>1 DEF RowsOf, RowsMatchRequests
  <2>2. NewestIsLive'
    BY <1>1, <1>3, <1>4, <1>6, <1>7, <1>12, <2>1, ZenonT(40) DEF CreateChallenge, NewestIsLive
  <2>3. ASSUME NEW c \in Requests, c # r, Stored(c)', ~challenges'[c].consumed
        PROVE  Newest(c)' /\ redeemed'[c] = 0
    BY <1>5, <1>6, <1>12, <2>3
    DEF CreateChallenge, LiveIsNewest, RowsOf, RowsMatchRequests
  <2> QED BY <1>7, <1>11, <2>2, <2>3 DEF CreateChallenge, LiveIsNewest
<1>16. RedeemedWasSent'
    BY <1>1, <1>7 DEF CreateChallenge, RedeemedWasSent
<1>17. FollowersWaited'
  <2>1. \A c \in Requests : req[c].pc \in Ended => c # r /\ req'[c] = req[c]
    BY <1>1 DEF Ended, CreateChallenge
  <2>2. ASSUME NEW d \in Requests, req'[d] # Idle PROVE req'[d].now <= now' /\ Follows(d)'
    <3>1. /\ req[d] # Idle /\ req[d] \in Handlers
          /\ req'[d].now = req[d].now /\ req'[d].after = req[d].after
          /\ req'[d].email = req[d].email
          /\ req'[d].pc \in Cooled => req[d].pc \in Cooled
      BY <1>1, <1>2, <2>2, RowTypes DEF CreateChallenge, Cooled
    <3>2. \A c \in req[d].after : c \in Requests /\ req[c].pc \in Ended
      BY <3>1 DEF FollowersWaited, Follows, Handlers
    <3> QED BY <1>6, <2>1, <3>1, <3>2, ZenonT(40) DEF CreateChallenge, FollowersWaited, Follows
  <2> QED BY <2>2 DEF FollowersWaited
<1> QED BY <1>10, <1>13, <1>14, <1>15, <1>16, <1>17

\* A mail that fails takes its own row with it, and no other.
LEMMA DeleteKeepsInv ==
    ASSUME LoginInv, NEW r \in Requests, DeleteChallenge(r)
    PROVE  LoginInv'
<1> USE DEF LoginInv, ChallengeInv
<1>1. /\ req' \in [Requests -> Handlers \cup {Idle}]
      /\ \A c \in Requests : c # r => req'[c] = req[c]
      /\ req'[r].pc = "failed" /\ req'[r] # Idle
      /\ req'[r].email = req[r].email
      /\ req'[r].now = req[r].now /\ req'[r].after = req[r].after
    BY MovedOn DEF DeleteChallenge
<1>2. /\ ~Stored(r)'
      /\ \A c \in Requests : c # r => challenges'[c] = challenges[c]
      /\ challenges' \in [Requests -> Challenges \cup {NoChallenge}]
    BY DEF DeleteChallenge, TypeOK, Stored
<1>3. TypeOK'
    BY <1>1, <1>2 DEF DeleteChallenge, TypeOK
<1>4. redeemed[r] = 0
  <2>1. redeemed[r] \in Nat /\ ~(redeemed[r] > 0)
    BY DEF DeleteChallenge, RedeemedWasSent, TypeOK
  <2> QED BY <2>1
<1>5. \A i \in DOMAIN history : history[i] \in Requests
    BY DEF TypeOK
<1>6. \A c : Newest(c)' <=> Newest(c)
    BY <1>1, <1>5, SameNewest DEF DeleteChallenge
<1>7. RowsMatchRequests' /\ HistoryIsMade' /\ RedeemedWasSent'
    BY <1>1, <1>2, <1>4, <1>5
    DEF DeleteChallenge, RowsMatchRequests, Stored, HistoryIsMade, RedeemedWasSent
<1>8. NewestIsLive' /\ LiveIsNewest'
    BY <1>1, <1>2, <1>6 DEF DeleteChallenge, NewestIsLive, LiveIsNewest, Stored, Made
<1>9. FollowersWaited'
  <2>1. \A c \in Requests : req[c].pc \in Ended => req'[c] = req[c]
    BY <1>1 DEF Ended, DeleteChallenge
  <2>2. ASSUME NEW d \in Requests, req'[d] # Idle PROVE req'[d].now <= now' /\ Follows(d)'
    <3>1. /\ req[d] # Idle /\ req[d] \in Handlers
          /\ req'[d].now = req[d].now /\ req'[d].after = req[d].after
          /\ req'[d].email = req[d].email
          /\ req'[d].pc \in Cooled => req[d].pc \in Cooled
      BY <1>1, <2>2, RowTypes DEF DeleteChallenge, Cooled, Made, Idle
    <3> QED BY <1>2, <2>1, <3>1, ZenonT(40)
            DEF DeleteChallenge, FollowersWaited, Follows, Stored, Handlers
  <2> QED BY <2>2 DEF FollowersWaited
<1> QED BY <1>3, <1>7, <1>8, <1>9

\* Verifying leaves the newest row of an address the newest.
LEMMA SubmitKeepsInv ==
    ASSUME LoginInv, NEW v \in Verifiers, NEW c \in Requests, NEW e \in Emails,
           NEW right \in BOOLEAN, SubmitCode(v, c, e, right)
    PROVE  LoginInv'
<1> USE DEF LoginInv, ChallengeInv
<1> DEFINE matches == Live(c) /\ challenges[c].email = e
<1>1. UNCHANGED <<now, users, sessions, req, history>>
    BY DEF SubmitCode
<1>2. \A d : Newest(d)' <=> Newest(d)
    BY <1>1, SameNewest
<1>3. CASE ~matches
  <2>1. UNCHANGED <<challenges, ver, redeemed>>
    BY <1>3 DEF SubmitCode
  <2> QED BY <1>1, <1>2, <2>1
          DEF TypeOK, RowsMatchRequests, HistoryIsMade, NewestIsLive, LiveIsNewest,
              RedeemedWasSent, FollowersWaited, Follows, Stored
<1>4. CASE matches
  <2>1. /\ Stored(c) /\ ~challenges[c].consumed /\ challenges[c].attempts < MaxAttempts
        /\ challenges[c] \in Challenges /\ req[c].pc = "accepted"
    BY <1>4, RowTypes DEF Live, SubmitCode, RowsMatchRequests, Made
  <2>2. \/ /\ challenges' = [challenges EXCEPT ![c].consumed = TRUE]
           /\ ver' = [ver EXCEPT ![v] = [pc |-> "lookup", email |-> e, challenge |-> c]]
           /\ redeemed' = [redeemed EXCEPT ![c] = @ + 1]
        \/ /\ challenges' = [challenges EXCEPT ![c].attempts = @ + 1]
           /\ UNCHANGED <<ver, redeemed>>
    BY <1>4 DEF SubmitCode
  <2>3. challenges'[c] \in Challenges
    <3>1. CASE challenges' = [challenges EXCEPT ![c].consumed = TRUE]
      BY <2>1, <3>1 DEF Challenges, TypeOK
    <3>2. CASE challenges' = [challenges EXCEPT ![c].attempts = @ + 1]
      <4>1. challenges[c].attempts + 1 \in 0 .. MaxAttempts
        BY <2>1, Limits DEF Challenges
      <4>2. challenges'[c] = [challenges[c] EXCEPT !.attempts = challenges[c].attempts + 1]
        BY <3>2 DEF TypeOK
      <4> QED BY <2>1, <4>1, <4>2 DEF Challenges
    <3> QED BY <2>2, <3>1, <3>2
  <2>4. /\ Stored(c)'
        /\ challenges'[c].email = challenges[c].email
        /\ challenges'[c].expires = challenges[c].expires
        /\ challenges'[c].created = challenges[c].created
    BY <2>1, <2>2, <2>3, Present DEF Stored, Challenges, TypeOK
  <2>5. /\ \A d \in Requests : d # c => challenges'[d] = challenges[d]
        /\ \A d \in Requests : d # c => redeemed'[d] = redeemed[d]
        /\ challenges' \in [Requests -> Challenges \cup {NoChallenge}]
    BY <2>2, <2>3 DEF TypeOK
  <2>6. redeemed' \in [Requests -> Nat]
    <3>1. redeemed \in [Requests -> Nat] /\ redeemed[c] + 1 \in Nat
      BY DEF TypeOK
    <3> QED BY <2>2, <3>1
  <2>7. ver' \in [Verifiers -> Verifications \cup {Idle}]
    <3>1. [pc |-> "lookup", email |-> e, challenge |-> c] \in Verifications
      BY DEF Verifications
    <3> QED BY <2>2, <3>1 DEF TypeOK
  <2>8. \/ challenges'[c].consumed /\ redeemed'[c] > 0
        \/ ~challenges'[c].consumed /\ redeemed'[c] = redeemed[c]
    <3>1. redeemed \in [Requests -> Nat] /\ redeemed[c] \in Nat /\ challenges[c] \in Challenges
      BY <2>1 DEF TypeOK
    <3>2. CASE challenges' = [challenges EXCEPT ![c].consumed = TRUE]
               /\ redeemed' = [redeemed EXCEPT ![c] = @ + 1]
      <4>1. challenges'[c].consumed = TRUE
        BY <3>1, <3>2 DEF TypeOK, Challenges
      <4>2. redeemed'[c] > 0
        BY <3>1, <3>2
      <4> QED BY <4>1, <4>2
    <3>3. CASE challenges' = [challenges EXCEPT ![c].attempts = @ + 1]
               /\ redeemed' = redeemed
      BY <2>1, <3>1, <3>3 DEF TypeOK, Challenges
    <3> QED BY <2>2, <3>2, <3>3
  <2>9. TypeOK'
    BY <1>1, <2>5, <2>6, <2>7 DEF TypeOK
  <2>10. RowsMatchRequests' /\ HistoryIsMade'
    BY <1>1, <2>1, <2>4, <2>5 DEF RowsMatchRequests, HistoryIsMade, Stored
  <2>11. NewestIsLive'
    BY <1>1, <1>2, <2>4, <2>5, <2>8 DEF NewestIsLive, Stored
  <2>12. LiveIsNewest'
    BY <1>1, <1>2, <2>1, <2>4, <2>5, <2>8 DEF LiveIsNewest, Stored
  <2>13. RedeemedWasSent'
    BY <1>1, <2>1, <2>5 DEF RedeemedWasSent
  <2>14. FollowersWaited'
    <3>1. ASSUME NEW d \in Requests, req[d] # Idle PROVE req'[d].now <= now' /\ Follows(d)'
      <4>1. req[d].after \subseteq Requests
        BY <3>1, RowTypes DEF Handlers
      <4>2. \A b \in Requests : /\ Stored(b)' <=> Stored(b)
                                /\ Stored(b) => /\ challenges'[b].email = challenges[b].email
                                                /\ challenges'[b].created = challenges[b].created
        BY <2>1, <2>4, <2>5 DEF Stored
      <4> QED BY <1>1, <3>1, <4>1, <4>2 DEF FollowersWaited, Follows
    <3> QED BY <1>1, <3>1 DEF FollowersWaited
  <2> QED BY <2>9, <2>10, <2>11, <2>12, <2>13, <2>14
<1> QED BY <1>3, <1>4

\* Users, sessions and the rest of a verification do not touch the challenges.
LEMMA FrameKeepsInv ==
    ASSUME ChallengeInv, UNCHANGED <<now, challenges, req, history, redeemed>>
    PROVE  ChallengeInv'
<1>1. \A c : Newest(c)' <=> Newest(c)
    BY SameNewest
<1> QED BY <1>1
        DEF ChallengeInv, RowsMatchRequests, HistoryIsMade, NewestIsLive, LiveIsNewest,
            RedeemedWasSent, FollowersWaited, Follows, Stored

\* The second half of a verification, logout and the operator.
LEMMA OthersKeepInv ==
    ASSUME LoginInv,
           \/ \E v \in Verifiers :
                  LookupUser(v) \/ CreateUser(v) \/ CreateSession(v) \/ Logout(v)
           \/ \E e \in Emails : DisableUser(e)
           \/ UNCHANGED vars
    PROVE  LoginInv'
<1> USE DEF LoginInv
<1>1. ChallengeInv'
    BY FrameKeepsInv DEF LookupUser, CreateUser, CreateSession, Logout, DisableUser, vars
<1>2. ASSUME NEW v \in Verifiers, LookupUser(v) PROVE TypeOK'
  <2>1. ver[v] \in Verifications
    BY <1>2 DEF LookupUser, TypeOK, Idle
  <2>2. \/ ver' = [ver EXCEPT ![v] = [ver[v] EXCEPT !.pc = "session"]]
        \/ ver' = [ver EXCEPT ![v] = [ver[v] EXCEPT !.pc = "register"]]
        \/ ver' = [ver EXCEPT ![v] = Idle]
    BY <1>2, Zenon DEF LookupUser
  <2>3. ver' \in [Verifiers -> Verifications \cup {Idle}]
    <3>1. /\ [ver[v] EXCEPT !.pc = "session"] \in Verifications
          /\ [ver[v] EXCEPT !.pc = "register"] \in Verifications
      BY <2>1 DEF Verifications
    <3> QED BY <2>2, <3>1 DEF TypeOK
  <2> QED BY <1>2, <2>3 DEF LookupUser, TypeOK
<1>3. ASSUME NEW v \in Verifiers, CreateUser(v) PROVE TypeOK'
  <2>1. ver[v] \in Verifications
    BY <1>3 DEF CreateUser, TypeOK, Idle
  <2>2. ver' \in [Verifiers -> Verifications \cup {Idle}]
    <3>1. [ver[v] EXCEPT !.pc = "session"] \in Verifications
      BY <2>1 DEF Verifications
    <3>2. \/ ver' = [ver EXCEPT ![v] = [ver[v] EXCEPT !.pc = "session"]]
          \/ ver' = [ver EXCEPT ![v] = Idle]
      BY <1>3 DEF CreateUser, TypeOK
    <3> QED BY <3>1, <3>2 DEF TypeOK
  <2> QED BY <1>3, <2>2 DEF CreateUser, TypeOK
<1>4. ASSUME NEW v \in Verifiers, CreateSession(v) PROVE TypeOK'
  <2>1. ver[v] \in Verifications
    BY <1>4 DEF CreateSession, TypeOK, Idle
  <2>2. ver' \in [Verifiers -> Verifications \cup {Idle}]
    BY <1>4, <2>1 DEF CreateSession, TypeOK, Verifications
  <2>3. sessions' \in [Verifiers -> Sessions \cup {NoSession}]
    BY <1>4, <2>1, Limits DEF CreateSession, TypeOK, Verifications, Sessions
  <2> QED BY <1>4, <2>2, <2>3 DEF CreateSession, TypeOK
<1>5. ASSUME NEW v \in Verifiers, Logout(v) PROVE TypeOK'
  <2>1. sessions' \in [Verifiers -> Sessions \cup {NoSession}]
    BY <1>5, ZenonT(40) DEF Logout, TypeOK, Sessions
  <2> QED BY <1>5, <2>1 DEF Logout, TypeOK
<1>6. ASSUME NEW e \in Emails, DisableUser(e) PROVE TypeOK'
    BY <1>6 DEF DisableUser, TypeOK
<1>7. CASE UNCHANGED vars
    BY <1>7, <1>1 DEF vars, TypeOK
<1> QED BY <1>1, <1>2, <1>3, <1>4, <1>5, <1>6, <1>7

\* Maintenance deletes what has expired, and time passes.
LEMMA CleanupKeepsInv ==
    ASSUME LoginInv, Cleanup \/ Tick
    PROVE  LoginInv'
<1> USE DEF LoginInv, ChallengeInv
<1>1. /\ UNCHANGED <<users, req, ver, history, redeemed>>
      /\ now \in Nat /\ now' \in Nat /\ now <= now'
    BY DEF Cleanup, Tick, TypeOK
<1>2. ASSUME NEW c \in Requests
      PROVE  \/ challenges'[c] = challenges[c]
             \/ /\ challenges'[c] = NoChallenge /\ Stored(c)
                /\ challenges[c].expires + Retention < now
    BY DEF Cleanup, Tick
<1>3. TypeOK'
  <2>1. challenges' \in [Requests -> Challenges \cup {NoChallenge}]
    BY DEF Cleanup, Tick, TypeOK
  <2>2. sessions' \in [Verifiers -> Sessions \cup {NoSession}]
    BY DEF Cleanup, Tick, TypeOK
  <2> QED BY <1>1, <2>1, <2>2 DEF TypeOK
<1>4. \A c : Newest(c)' <=> Newest(c)
    BY <1>1, SameNewest
<1>5. ASSUME NEW c \in Requests, Stored(c)' PROVE Stored(c) /\ challenges'[c] = challenges[c]
    BY <1>2, <1>5 DEF Stored
<1>6. RowsMatchRequests' /\ HistoryIsMade' /\ RedeemedWasSent' /\ LiveIsNewest'
    BY <1>1, <1>4, <1>5 DEF RowsMatchRequests, HistoryIsMade, RedeemedWasSent, LiveIsNewest
<1>7. NewestIsLive'
  <2>1. SUFFICES ASSUME NEW c \in Requests, req[c].pc \in Made, Newest(c),
                        now' < req[c].now + CodeTtl
                 PROVE  challenges'[c] = challenges[c] /\ now < req[c].now + CodeTtl
    BY <1>1, <1>4 DEF NewestIsLive, Stored
  <2>2. req[c].now \in Nat
    BY <2>1, RowTypes DEF Handlers, Made
  <2>3. now < req[c].now + CodeTtl
    BY <1>1, <2>1, <2>2, Limits
  <2>4. Stored(c) => challenges[c].expires = req[c].now + CodeTtl
    BY DEF RowsMatchRequests
  <2>5. Retention \in Nat
    BY LoginConstants
  <2> QED BY <1>1, <1>2, <2>2, <2>3, <2>4, <2>5, Limits
<1>8. FollowersWaited'
  <2>1. ASSUME NEW d \in Requests, req[d] # Idle PROVE req'[d].now <= now' /\ Follows(d)'
    <3>1. req[d].after \subseteq Requests /\ req[d].now \in Nat
      BY <2>1, RowTypes DEF Handlers
    <3> QED BY <1>1, <1>5, <2>1, <3>1 DEF FollowersWaited, Follows
  <2> QED BY <1>1, <2>1 DEF FollowersWaited
<1> QED BY <1>3, <1>6, <1>7, <1>8

-----------------------------------------------------------------------------

\* Every step of the handlers, the mail server, the cleanup and the clock keeps
\* the inductive invariant.
LEMMA NextKeepsLoginInv == LoginInv /\ [Next]_vars => LoginInv'
BY StartKeepsInv, MoveKeepsInv, CreateKeepsInv, DeleteKeepsInv, SubmitKeepsInv,
   OthersKeepInv, CleanupKeepsInv
DEF Next, RequestStep, VerifyStep

\* It holds in every reachable state.
LEMMA SpecLoginInv == Spec => []LoginInv
BY InitLoginInv, NextKeepsLoginInv, PTL DEF Spec

\* Rows, sessions and the locals of the handlers stay in their types; in
\* particular no challenge counts more wrong codes than email_code_max_attempts.
THEOREM LoginTypes == Spec => []TypeOK
BY SpecLoginInv, PTL DEF LoginInv

\* The code of the newest accepted request of an address can be used until it is
\* used or expires: neither the requests that overlap it, nor their failing
\* mails, nor maintenance take it away (create_email_challenge,
\* delete_email_challenge, cleanup_expired_data).
THEOREM AcceptedCodesAreLive == Spec => []AcceptedCodeIsLive
<1>1. LoginInv => AcceptedCodeIsLive
    BY DEF LoginInv, ChallengeInv, NewestIsLive, AcceptedCodeIsLive, Made
<1> QED BY <1>1, SpecLoginInv, PTL

\* Requests for an address that follow each other are a cooldown apart, whatever
\* other handlers wrote in between.
THEOREM AnswersAreCooldownApart == Spec => []CooldownBetweenAnswers
<1>1. ASSUME LoginInv, NEW c \in Requests, NEW d \in Requests,
             Stored(c), Stored(d), challenges[c].email = challenges[d].email,
             c \in req[d].after
      PROVE  challenges[d].created >= challenges[c].created + Cooldown
  <2>1. /\ challenges[c] \in Challenges /\ challenges[d] \in Challenges
        /\ req[d].pc \in Made /\ challenges[d].email = req[d].email
        /\ challenges[d].created >= req[d].now
    BY <1>1, RowTypes DEF LoginInv, ChallengeInv, RowsMatchRequests
  <2>2. req[d] \in Handlers
    BY <1>1, <2>1, RowTypes DEF LoginInv, Made
  <2>3. challenges[c].created + Cooldown <= req[d].now
    BY <1>1, <2>1, <2>2, Present
    DEF LoginInv, ChallengeInv, FollowersWaited, Follows, Cooled
  <2> QED BY <2>1, <2>2, <2>3, Limits DEF Challenges, Handlers
<1>2. LoginInv => CooldownBetweenAnswers
    BY <1>1 DEF CooldownBetweenAnswers
<1> QED BY <1>2, SpecLoginInv, PTL

\* consume_email_challenge lets one verification pass per code, however many
\* clients submit it at once, and only the newest code of an address before it
\* expires.
THEOREM CodesAreRedeemedOnce == Spec => RedeemsNewestOnce
<1> DEFINE Redeems == \A c \in Requests :
                          redeemed'[c] # redeemed[c] =>
                              redeemed[c] = 0 /\ Newest(c) /\ now < req[c].now + CodeTtl
<1>1. ASSUME LoginInv, NEW v \in Verifiers, NEW b \in Requests, NEW e \in Emails,
             NEW right \in BOOLEAN, SubmitCode(v, b, e, right)
      PROVE  Redeems
  <2>1. ASSUME NEW c \in Requests, redeemed'[c] # redeemed[c] PROVE c = b /\ Live(c)
    BY <1>1, <2>1 DEF SubmitCode, LoginInv, TypeOK
  <2>2. ASSUME NEW c \in Requests, Live(c)
        PROVE  redeemed[c] = 0 /\ Newest(c) /\ now < req[c].now + CodeTtl
    <3>1. challenges[c].expires = req[c].now + CodeTtl /\ challenges[c].expires > now
      BY <1>1, <2>2 DEF LoginInv, ChallengeInv, RowsMatchRequests, Live
    <3>2. challenges[c].expires \in Nat /\ now \in Nat
      BY <1>1, <2>2, RowTypes DEF LoginInv, Live, Challenges, TypeOK
    <3> QED BY <1>1, <2>2, <3>1, <3>2 DEF LoginInv, ChallengeInv, LiveIsNewest, Live
  <2> QED BY <2>1, <2>2
<1>2. ASSUME redeemed' = redeemed PROVE Redeems
    BY <1>2
<1> HIDE DEF Redeems
<1>3. LoginInv /\ [Next]_vars => [Redeems]_vars
    BY <1>1, <1>2
    DEF Next, RequestStep, VerifyStep, StartRequest, CheckCooldown, CheckUser,
        CreateChallenge, SendCode, DeleteChallenge, LookupUser, CreateUser, CreateSession,
        Logout, DisableUser, Cleanup, Tick
<1> QED BY <1>3, SpecLoginInv, PTL DEF Spec, RedeemsNewestOnce, Redeems

=============================================================================
