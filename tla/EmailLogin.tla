----------------------------- MODULE EmailLogin -----------------------------
(***************************************************************************)
(* Login by a code sent by e-mail, and the sessions it opens.              *)
(*                                                                         *)
(* POST /auth/email/request and POST /auth/email/verify run in threads of  *)
(* the API server.  Every database transaction of a handler is a step of   *)
(* its own, and so is the delivery of the mail: the table of challenges    *)
(* that was read may be another one when the next step writes it.  The     *)
(* server is configured with auth_enabled and a code secret; without them  *)
(* both handlers refuse before they touch any state.                       *)
(*                                                                         *)
(* A challenge is named by the request that made it, a session token by    *)
(* the verification that opened it: both are fresh random values in the    *)
(* code.  A submitted code is right or wrong for a challenge: its digest   *)
(* covers the challenge, the address and the code.                         *)
(***************************************************************************)
EXTENDS Naturals, Sequences, FiniteSets

CONSTANTS
    Emails,         \* addresses, normalised (stripped and in lower case)
    Ips,            \* client addresses
    Requests,       \* requests for a code; each is made once
    Verifiers,      \* clients that submit codes
    CodeTtl,        \* email_code_ttl_seconds, in ticks
    Cooldown,       \* email_code_cooldown_seconds
    IpWindow,       \* email_code_ip_window_seconds
    IpMax,          \* email_code_ip_max_requests
    MaxAttempts,    \* email_code_max_attempts
    SessionTtl,     \* auth_session_hours
    Retention,      \* session_cleanup_hours
    Registration,   \* registration_enabled
    MaxNow          \* bound: the clock stops here

ASSUME LoginConstants ==
    /\ {CodeTtl, IpMax, MaxAttempts, SessionTtl} \subseteq Nat \ {0}
    /\ {Cooldown, IpWindow, Retention, MaxNow} \subseteq Nat
    /\ Registration \in BOOLEAN

VARIABLES
    now,            \* the clock
    users,          \* users: the row of an address
    challenges,     \* email_challenges: the row of a request, or NoChallenge
    sessions,       \* sessions: the row of a verifier's token, or NoSession
    req,            \* the handler of each request for a code
    ver,            \* the handler of each client's verification
    history,        \* the requests in the order of their INSERTs (history)
    redeemed        \* how often each challenge was consumed by a code (history)

vars == <<now, users, challenges, sessions, req, ver, history, redeemed>>

NoChallenge == [email |-> "none"]
NoSession == [email |-> "none"]
Idle == [pc |-> "idle"]

Challenges == [email : Emails, ip : Ips, attempts : 0..MaxAttempts, consumed : BOOLEAN,
               expires : Nat, created : Nat]
Sessions == [email : Emails, expires : Nat, revoked : BOOLEAN, revokedAt : Nat]
Handlers == [pc : {"cooldown", "user", "create", "send", "accepted", "undelivered",
                   "failed", "silent", "refused"},
             email : Emails, ip : Ips, now : Nat, after : SUBSET Requests]
Verifications == [pc : {"lookup", "register", "session", "in"},
                  email : Emails, challenge : Requests]

TypeOK ==
    /\ now \in Nat
    /\ users \in [Emails -> {"none", "active", "disabled"}]
    /\ challenges \in [Requests -> Challenges \cup {NoChallenge}]
    /\ sessions \in [Verifiers -> Sessions \cup {NoSession}]
    /\ req \in [Requests -> Handlers \cup {Idle}]
    /\ ver \in [Verifiers -> Verifications \cup {Idle}]
    /\ history \in Seq(Requests)
    /\ redeemed \in [Requests -> Nat]

Stored(c) == challenges[c] # NoChallenge
RowsOf(e) == {c \in Requests : Stored(c) /\ challenges[c].email = e}

Init ==
    /\ now = 0
    /\ users \in [Emails -> {"none", "active"}]
    /\ challenges = [c \in Requests |-> NoChallenge]
    /\ sessions = [v \in Verifiers |-> NoSession]
    /\ req = [r \in Requests |-> Idle]
    /\ ver = [v \in Verifiers |-> Idle]
    /\ history = <<>>
    /\ redeemed = [c \in Requests |-> 0]

-----------------------------------------------------------------------------
(* POST /auth/email/request                                                *)

\* count_email_challenges_since: the rows a client address made in the window
RecentFrom(ip) ==
    {c \in Requests : /\ Stored(c)
                      /\ challenges[c].ip = ip
                      /\ challenges[c].created + IpWindow > now}

\* The requests whose handlers have returned.
Answered == {r \in Requests : req[r].pc \in {"accepted", "failed", "silent", "refused"}}

StartRequest(r, e, ip) ==
    /\ req[r] = Idle
    /\ req' = [req EXCEPT ![r] =
          [pc |-> IF Cardinality(RecentFrom(ip)) >= IpMax THEN "refused" ELSE "cooldown",
           email |-> e, ip |-> ip, now |-> now, after |-> Answered]]
    /\ UNCHANGED <<now, users, challenges, sessions, ver, history, redeemed>>

\* A mutant of Cooling: the last tick of the cooldown is not waited for.
CoolingFromSecondTick(r) ==
    \E c \in RowsOf(req[r].email) : challenges[c].created + Cooldown > req[r].now + 1

\* The newest row of the address is younger than the cooldown.
Cooling(r) ==
    \E c \in RowsOf(req[r].email) : challenges[c].created + Cooldown > req[r].now

CheckCooldown(r) ==
    /\ req[r].pc = "cooldown"
    /\ req' = [req EXCEPT ![r].pc = IF Cooling(r) THEN "refused" ELSE "user"]
    /\ UNCHANGED <<now, users, challenges, sessions, ver, history, redeemed>>

\* _email_may_authenticate
MayAuthenticate(e) ==
    \/ users[e] = "active"
    \/ users[e] = "none" /\ Registration

\* A refused address gets the same answer, with the id of no challenge.
CheckUser(r) ==
    /\ req[r].pc = "user"
    /\ req' = [req EXCEPT ![r].pc =
                  IF MayAuthenticate(req[r].email) THEN "create" ELSE "silent"]
    /\ UNCHANGED <<now, users, challenges, sessions, ver, history, redeemed>>

\* One transaction consumes the live rows of the address and inserts the new
\* one; its expiry counts from the start of the request.
Superseded(r) ==
    [c \in Requests |->
        IF c \in RowsOf(req[r].email)
        THEN [challenges[c] EXCEPT !.consumed = TRUE] ELSE challenges[c]]

CreateChallenge(r) ==
    /\ req[r].pc = "create"
    /\ challenges' = [Superseded(r) EXCEPT ![r] =
          [email |-> req[r].email, ip |-> req[r].ip, attempts |-> 0,
           consumed |-> FALSE, expires |-> req[r].now + CodeTtl, created |-> now]]
    /\ req' = [req EXCEPT ![r].pc = "send"]
    /\ history' = Append(history, r)
    /\ UNCHANGED <<now, users, sessions, ver, redeemed>>

\* SMTPVerificationSender.send_code, with its EmailDeliveryError
SendCode(r) ==
    /\ req[r].pc = "send"
    /\ \E outcome \in {"accepted", "undelivered"} :
          req' = [req EXCEPT ![r].pc = outcome]
    /\ UNCHANGED <<now, users, challenges, sessions, ver, history, redeemed>>

\* A mutant of DeleteChallenge: all rows of the address go.
DeleteChallengesOfEmail(r) ==
    /\ req[r].pc = "undelivered"
    /\ challenges' = [c \in Requests |->
                        IF c \in RowsOf(req[r].email) THEN NoChallenge ELSE challenges[c]]
    /\ req' = [req EXCEPT ![r].pc = "failed"]
    /\ UNCHANGED <<now, users, sessions, ver, history, redeemed>>

\* The challenge is deleted; the one it replaced stays consumed.
DeleteChallenge(r) ==
    /\ req[r].pc = "undelivered"
    /\ challenges' = [challenges EXCEPT ![r] = NoChallenge]
    /\ req' = [req EXCEPT ![r].pc = "failed"]
    /\ UNCHANGED <<now, users, sessions, ver, history, redeemed>>

-----------------------------------------------------------------------------
(* POST /auth/email/verify                                                 *)

\* Mutants of Live: a consumed code works again; wrong codes are not counted.
LiveAlthoughConsumed(c) ==
    /\ Stored(c)
    /\ challenges[c].expires > now
    /\ challenges[c].attempts < MaxAttempts

LiveWhateverAttempts(c) ==
    /\ Stored(c)
    /\ ~challenges[c].consumed
    /\ challenges[c].expires > now

\* The conditions both UPDATEs of consume_email_challenge share.
Live(c) ==
    /\ Stored(c)
    /\ ~challenges[c].consumed
    /\ challenges[c].expires > now
    /\ challenges[c].attempts < MaxAttempts

\* The client knows a challenge from the answer to its request.
SubmitCode(v, c, e, right) ==
    /\ ver[v] = Idle
    /\ req[c].pc \in {"accepted", "silent"}
    /\ LET matches == Live(c) /\ challenges[c].email = e
       IN \/ /\ matches /\ right
             /\ challenges' = [challenges EXCEPT ![c].consumed = TRUE]
             /\ ver' = [ver EXCEPT ![v] = [pc |-> "lookup", email |-> e, challenge |-> c]]
             /\ redeemed' = [redeemed EXCEPT ![c] = @ + 1]
          \/ /\ matches /\ ~right
             /\ challenges' = [challenges EXCEPT ![c].attempts = @ + 1]
             /\ UNCHANGED <<ver, redeemed>>
          \/ /\ ~matches
             /\ UNCHANGED <<challenges, ver, redeemed>>
    /\ UNCHANGED <<now, users, sessions, req, history>>

\* get_user_by_email; an unknown address registers, if it may
LookupUser(v) ==
    /\ ver[v].pc = "lookup"
    /\ LET row == users[ver[v].email]
       IN ver' = [ver EXCEPT ![v] =
                    CASE row = "active" -> [@ EXCEPT !.pc = "session"]
                      [] row = "none" /\ Registration -> [@ EXCEPT !.pc = "register"]
                      [] OTHER -> Idle]
    /\ UNCHANGED <<now, users, challenges, sessions, req, history, redeemed>>

\* create_user; IntegrityError if another verification was faster
CreateUser(v) ==
    /\ ver[v].pc = "register"
    /\ LET e == ver[v].email
       IN \/ /\ users[e] = "none"
             /\ users' = [users EXCEPT ![e] = "active"]
             /\ ver' = [ver EXCEPT ![v].pc = "session"]
          \/ /\ users[e] # "none"
             /\ ver' = [ver EXCEPT ![v] =
                   IF users[e] = "disabled" THEN Idle ELSE [@ EXCEPT !.pc = "session"]]
             /\ UNCHANGED users
    /\ UNCHANGED <<now, challenges, sessions, req, history, redeemed>>

\* _start_browser_session
CreateSession(v) ==
    /\ ver[v].pc = "session"
    /\ sessions' = [sessions EXCEPT ![v] =
          [email |-> ver[v].email, expires |-> now + SessionTtl,
           revoked |-> FALSE, revokedAt |-> 0]]
    /\ ver' = [ver EXCEPT ![v].pc = "in"]
    /\ UNCHANGED <<now, users, challenges, req, history, redeemed>>

-----------------------------------------------------------------------------
(* Sessions                                                                *)

Logout(v) ==
    /\ sessions[v] # NoSession
    /\ sessions' = [sessions EXCEPT ![v].revoked = TRUE, ![v].revokedAt = now]
    /\ UNCHANGED <<now, users, challenges, req, ver, history, redeemed>>

\* The identity part of cleanup_expired_data
Cleanup ==
    LET old(t) == t + Retention < now
    IN /\ sessions' = [v \in Verifiers |->
             IF /\ sessions[v] # NoSession
                /\ \/ old(sessions[v].expires)
                   \/ sessions[v].revoked /\ old(sessions[v].revokedAt)
             THEN NoSession ELSE sessions[v]]
       /\ challenges' = [c \in Requests |->
             IF Stored(c) /\ old(challenges[c].expires) THEN NoChallenge ELSE challenges[c]]
       /\ <<sessions, challenges>>' # <<sessions, challenges>>
       /\ UNCHANGED <<now, users, req, ver, history, redeemed>>

\* An operator sets users.disabled in the database.
DisableUser(e) ==
    /\ users[e] = "active"
    /\ users' = [users EXCEPT ![e] = "disabled"]
    /\ UNCHANGED <<now, challenges, sessions, req, ver, history, redeemed>>

Tick ==
    /\ now < MaxNow
    /\ now' = now + 1
    /\ UNCHANGED <<users, challenges, sessions, req, ver, history, redeemed>>

RequestStep(r) ==
    \/ \E e \in Emails, ip \in Ips : StartRequest(r, e, ip)
    \/ CheckCooldown(r) \/ CheckUser(r) \/ CreateChallenge(r)
    \/ SendCode(r) \/ DeleteChallenge(r)

VerifyStep(v) ==
    \/ \E c \in Requests, e \in Emails, right \in BOOLEAN : SubmitCode(v, c, e, right)
    \/ LookupUser(v) \/ CreateUser(v) \/ CreateSession(v)

Next ==
    \/ \E r \in Requests : RequestStep(r)
    \/ \E v \in Verifiers : VerifyStep(v) \/ Logout(v)
    \/ \E e \in Emails : DisableUser(e)
    \/ Cleanup
    \/ Tick

Spec == Init /\ [][Next]_vars

-----------------------------------------------------------------------------
(* Properties                                                              *)

\* c is the newest challenge made for its address.
Newest(c) ==
    \E i \in DOMAIN history :
        /\ history[i] = c
        /\ \A j \in DOMAIN history : j > i => req[history[j]].email # req[c].email

\* The answer 202 is kept: the newest code made for an address can be used
\* until somebody has used it or it expires, whatever earlier requests for that
\* address, still waiting for the mail server, do when their mail fails.
AcceptedCodeIsLive ==
    \A c \in Requests :
        req[c].pc = "accepted" /\ Newest(c) /\ now < req[c].now + CodeTtl
        => Stored(c) /\ (challenges[c].consumed => redeemed[c] > 0)

\* Two challenges of an address are a cooldown apart when the second request
\* began after the first was answered (overlapping requests both read the table
\* before either writes it, and are not covered).
CooldownBetweenAnswers ==
    \A c, d \in Requests :
        /\ Stored(c) /\ Stored(d)
        /\ challenges[c].email = challenges[d].email
        /\ c \in req[d].after
        => challenges[d].created >= challenges[c].created + Cooldown

\* Clients that submit the same code at once, or an older code, do not get in:
\* a code lets one verification pass, only while it is the newest of its
\* address and has not expired.
RedeemsNewestOnce ==
    [][\A c \in Requests :
          redeemed'[c] # redeemed[c] =>
              redeemed[c] = 0 /\ Newest(c) /\ now < req[c].now + CodeTtl]_vars

=============================================================================
