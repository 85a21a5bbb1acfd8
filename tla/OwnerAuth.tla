----------------------------- MODULE OwnerAuth -----------------------------
(* The owner account, agent tokens and JWTs: app/routes/auth.py with         *)
(* app/auth/pending.py, app/auth/security.py, app/auth/middleware.py and     *)
(* app/dependencies.py.                                                      *)
(*                                                                           *)
(* A handler is split at its awaits, that is at its SELECT and COMMIT. JWTs, *)
(* the pending setup among them, are kept by nobody: setups and jwts are the *)
(* ones in circulation, each with the ticks it is still valid. Requests that *)
(* are refused before their first await (a wrong secret key, OTP, signature  *)
(* or an expired token) change nothing and are left out.                     *)
EXTENDS Naturals, Sequences, FiniteSets

CONSTANTS
  Client,             \* requests in progress
  Email, Password,
  Agent,              \* raw agent tokens the server may generate
  OtpLife,            \* EMAIL_OTP_EXPIRE_MINUTES, in ticks
  AccessLife,         \* ACCESS_TOKEN_EXPIRE_MINUTES, in ticks
  RefreshLife         \* the 30 days of create_refresh_token, in ticks

ConstantsAssumption == {OtpLife, AccessLife, RefreshLife} \subseteq Nat \ {0}

ASSUME ConstantsAssumption

VARIABLES
  owners,     \* table owner: rows in the order of their id
  agents,     \* table agent_tokens: each token's row
  setups,     \* pending setup JWTs whose OTP was mailed
  jwts,       \* access and refresh tokens
  pc,         \* what each client's request does next
  cred,       \* the email and password it is about
  found,      \* ids of the owner rows its SELECT returned
  agent,      \* the agent token it is about
  row,        \* the agent row its SELECT returned
  overlapped  \* history: whether two verifications were in progress at once

frame == <<cred, found, agent, row>>
vars == <<owners, agents, setups, jwts, pc, frame, overlapped>>

Credential == [email : Email, password : Password]
Row == {"absent", "active", "revoked"}

Init ==
  /\ owners = <<>>
  /\ agents = [k \in Agent |-> "absent"]
  /\ setups = {} /\ jwts = {}
  /\ pc = [c \in Client |-> "idle"]
  /\ cred \in [Client -> Credential]
  /\ found = [c \in Client |-> {}]
  /\ agent \in [Client -> Agent]
  /\ row = [c \in Client |-> "absent"]
  /\ overlapped = FALSE

Goto(c, step) == pc' = [pc EXCEPT ![c] = step]
Answer(c) == Goto(c, "idle")

JWT(scope, subject, life) == [scope |-> scope, sub |-> subject, left |-> life]

(* What login and refresh issue for the owner with this id. *)
OwnerTokens(id) ==
  {JWT("owner", id, AccessLife), JWT("refresh", id, RefreshLife)}

-----------------------------------------------------------------------------
(* POST /auth/setup: SELECT the owner; unless one is set up, mail the OTP,   *)
(* which may raise, and answer with the pending setup. A row always has      *)
(* is_setup: only /auth/verify-setup adds rows.                              *)
SetupRead(c) ==
  /\ pc[c] = "idle" /\ Goto(c, "setup")
  /\ \E credential \in Credential : cred' = [cred EXCEPT ![c] = credential]
  /\ found' = [found EXCEPT ![c] = DOMAIN owners]
  /\ UNCHANGED <<owners, agents, setups, jwts, agent, row, overlapped>>

SetupAnswer(c) ==
  /\ pc[c] = "setup" /\ Answer(c)
  /\ \/ found[c] = {} /\ setups' = setups \cup {[cred |-> cred[c], left |-> OtpLife]}
     \/ UNCHANGED setups
  /\ UNCHANGED <<owners, agents, jwts, frame, overlapped>>

(* POST /auth/verify-setup with the right OTP: the row is added if the       *)
(* SELECT found none; one row is answered 409, more raise.                   *)
VerifyRead(c) ==
  /\ pc[c] = "idle" /\ Goto(c, "verify")
  /\ \E setup \in setups : cred' = [cred EXCEPT ![c] = setup.cred]
  /\ found' = [found EXCEPT ![c] = DOMAIN owners]
  /\ overlapped' = (overlapped \/ \E d \in Client : pc[d] = "verify")
  /\ UNCHANGED <<owners, agents, setups, jwts, agent, row>>

VerifyUnchecked(c) ==    \* mutant: an owner that is set up is not looked for
  /\ pc[c] = "verify" /\ Answer(c)
  /\ owners' = Append(owners, cred[c])
  /\ UNCHANGED <<agents, setups, jwts, frame, overlapped>>

VerifyCommit(c) ==
  /\ pc[c] = "verify" /\ Answer(c)
  /\ owners' = IF found[c] = {} THEN Append(owners, cred[c]) ELSE owners
  /\ UNCHANGED <<agents, setups, jwts, frame, overlapped>>

(* POST /auth/login: SELECT by email; one row whose password matches gets    *)
(* tokens, more than one row raises.                                         *)
LoginRead(c) ==
  /\ pc[c] = "idle" /\ Goto(c, "login")
  /\ \E credential \in Credential :
       /\ cred' = [cred EXCEPT ![c] = credential]
       /\ found' = [found EXCEPT ![c] =
                      {id \in DOMAIN owners : owners[id].email = credential.email}]
  /\ UNCHANGED <<owners, agents, setups, jwts, agent, row, overlapped>>

LoginAnswer(c) ==
  /\ pc[c] = "login" /\ Answer(c)
  /\ jwts' = jwts \cup UNION {OwnerTokens(id) : id \in
               {i \in found[c] : found[c] = {i} /\ owners[i].password = cred[c].password}}
  /\ UNCHANGED <<owners, agents, setups, frame, overlapped>>

(* POST /auth/token/refresh: no await, and nothing is invalidated. *)
Refresh ==
  /\ \E t \in jwts : t.scope = "refresh" /\ jwts' = jwts \cup OwnerTokens(t.sub)
  /\ UNCHANGED <<owners, agents, setups, pc, frame, overlapped>>

-----------------------------------------------------------------------------
(* POST /auth/token/agent: SELECT the row, refuse if there is none or it is  *)
(* revoked, commit last_used_at, issue an access token and nothing else.     *)
AgentRead(c) ==
  /\ pc[c] = "idle" /\ Goto(c, "stamp")
  /\ \E k \in Agent :
       /\ agent' = [agent EXCEPT ![c] = k]
       /\ row' = [row EXCEPT ![c] = agents[k]]
  /\ UNCHANGED <<owners, agents, setups, jwts, cred, found, overlapped>>

StampAny(c) ==           \* mutant: revoked_at is not looked at
  /\ pc[c] = "stamp"
  /\ Goto(c, IF row[c] # "absent" THEN "issue" ELSE "idle")
  /\ UNCHANGED <<owners, agents, setups, jwts, frame, overlapped>>

AgentStamp(c) ==
  /\ pc[c] = "stamp"
  /\ Goto(c, IF row[c] = "active" THEN "issue" ELSE "idle")
  /\ UNCHANGED <<owners, agents, setups, jwts, frame, overlapped>>

IssueWithRefresh(c) ==   \* mutant: agents get a refresh token, too
  /\ pc[c] = "issue" /\ Answer(c)
  /\ jwts' = jwts \cup {JWT("agent", agent[c], AccessLife), JWT("refresh", agent[c], RefreshLife)}
  /\ UNCHANGED <<owners, agents, setups, frame, overlapped>>

AgentIssue(c) ==
  /\ pc[c] = "issue" /\ Answer(c)
  /\ jwts' = jwts \cup {JWT("agent", agent[c], AccessLife)}
  /\ UNCHANGED <<owners, agents, setups, frame, overlapped>>

-----------------------------------------------------------------------------
(* AuthMiddleware and require_owner let a valid token of scope owner in; the *)
(* request then creates a token, revokes one by its hash, or only reads.     *)
Admit(c) ==
  /\ pc[c] = "idle" /\ \E t \in jwts : t.scope = "owner"
  /\ Goto(c, "owner")
  /\ UNCHANGED <<owners, agents, setups, jwts, frame, overlapped>>

CreateToken(c) ==
  /\ pc[c] = "owner" /\ Answer(c)
  /\ \E k \in Agent :
       agents[k] = "absent" /\ agents' = [agents EXCEPT ![k] = "active"]
  /\ UNCHANGED <<owners, setups, jwts, frame, overlapped>>

RevokeRead(c) ==
  /\ pc[c] = "owner" /\ Goto(c, "revoke")
  /\ \E k \in Agent :
       /\ agent' = [agent EXCEPT ![c] = k]
       /\ row' = [row EXCEPT ![c] = agents[k]]
  /\ UNCHANGED <<owners, agents, setups, jwts, cred, found, overlapped>>

RevokeCommit(c) ==
  /\ pc[c] = "revoke" /\ Answer(c)
  /\ agents' = IF row[c] = "absent" THEN agents
               ELSE [agents EXCEPT ![agent[c]] = "revoked"]
  /\ UNCHANGED <<owners, setups, jwts, frame, overlapped>>

OnlyRead(c) ==
  /\ pc[c] = "owner" /\ Answer(c)
  /\ UNCHANGED <<owners, agents, setups, jwts, frame, overlapped>>

-----------------------------------------------------------------------------
(* A tick of the exp claims: what is over is no longer in circulation. *)
AgedLate(tokens) ==      \* mutant: off by one
  {[t EXCEPT !.left = t.left - 1] : t \in {u \in tokens : u.left > 0}}

AgedUnlessAgent(tokens) ==   \* mutant: agents' tokens have no exp
  LET forever == {t \in tokens : t \in jwts /\ t.scope = "agent"}
  IN  forever \cup {[t EXCEPT !.left = t.left - 1] : t \in {u \in tokens \ forever : u.left > 1}}

Aged(tokens) == {[t EXCEPT !.left = t.left - 1] : t \in {u \in tokens : u.left > 1}}

Tick ==
  /\ setups \cup jwts # {}
  /\ setups' = Aged(setups) /\ jwts' = Aged(jwts)
  /\ UNCHANGED <<owners, agents, pc, frame, overlapped>>

(* The server restarts: requests in progress end, and the JWTs stay valid. *)
Crash ==
  /\ \E c \in Client : pc[c] # "idle"
  /\ pc' = [c \in Client |-> "idle"]
  /\ UNCHANGED <<owners, agents, setups, jwts, frame, overlapped>>

Continue(c) ==
  \/ SetupAnswer(c) \/ VerifyCommit(c) \/ LoginAnswer(c)
  \/ AgentStamp(c) \/ AgentIssue(c)
  \/ CreateToken(c) \/ RevokeRead(c) \/ RevokeCommit(c) \/ OnlyRead(c)

Start(c) ==
  SetupRead(c) \/ VerifyRead(c) \/ LoginRead(c) \/ AgentRead(c) \/ Admit(c)

Next == Refresh \/ Tick \/ Crash \/ \E c \in Client : Start(c) \/ Continue(c)

Spec == Init /\ [][Next]_vars

(* Coroutines that were started are resumed, and time passes. *)
FairSpec == Spec /\ WF_vars(Tick) /\ \A c \in Client : WF_vars(Continue(c))

=============================================================================
