------------------------- MODULE OwnerAuthProperties -------------------------
(* What the accounts and tokens of the server promise. *)
EXTENDS OwnerAuth

(* The tables, the tokens in circulation and the requests' frames have the  *)
(* shape the code gives them; no token that is over is in circulation.      *)
TypeOK ==
  /\ owners \in Seq(Credential)
  /\ agents \in [Agent -> Row]
  /\ setups \subseteq [cred : Credential, left : 1 .. OtpLife]
  /\ jwts \subseteq [scope : {"owner"}, sub : Nat, left : 1 .. AccessLife]
               \cup [scope : {"refresh"}, sub : Nat, left : 1 .. RefreshLife]
               \cup [scope : {"agent"}, sub : Agent, left : 1 .. AccessLife]
  /\ pc \in [Client -> {"idle", "setup", "verify", "login", "stamp", "issue",
                        "owner", "revoke"}]
  /\ cred \in [Client -> Credential]
  /\ found \in [Client -> SUBSET Nat]
  /\ agent \in [Client -> Agent]
  /\ row \in [Client -> Row]
  /\ overlapped \in BOOLEAN

(* models.py:250: a single owner account. No constraint of the table keeps   *)
(* it single but the SELECT of verify_setup, whatever setups are pending and *)
(* however often one is verified: a second row takes two verifications that  *)
(* were in progress together.                                                *)
OneOwner == Len(owners) > 1 => overlapped

(* Owner and refresh tokens name a row of table owner, agent tokens a row   *)
(* of agent_tokens: no chain of exchanges and refreshes turns one kind of   *)
(* actor into the other, nor into one that was never stored.                *)
TokensNameTheirHolder ==
  \A t \in jwts :
    IF t.scope = "agent" THEN agents[t.sub] # "absent"
    ELSE t.sub \in DOMAIN owners

TokensOf(k) == {t \in jwts : t.scope = "agent" /\ t.sub = k}

(* The requests that may still issue an access token to agent k. *)
Exchanging(k) ==
  {c \in Client : agent[c] = k /\ \/ pc[c] = "stamp" /\ row[c] = "active"
                                  \/ pc[c] = "issue"}

LockedOut(k) == agents[k] = "revoked" /\ TokensOf(k) = {} /\ Exchanging(k) = {}

(* Once a revoked agent's tokens are over and its exchanges done, it never  *)
(* gets in again (auth.py agent_token_login, revoke_token).                 *)
LockedOutForGood == [][\A k \in Agent : LockedOut(k) => LockedOut(k)']_vars

(* And it does come to that: access tokens outlive a revocation, and an     *)
(* exchange in progress may still issue one, but both are over in time.     *)
RevokedIsLockedOut ==
  \A k \in Agent : (agents[k] = "revoked") ~> LockedOut(k)

=============================================================================
