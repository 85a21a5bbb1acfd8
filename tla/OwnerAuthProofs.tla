--------------------------- MODULE OwnerAuthProofs ---------------------------
(* Theorems about OwnerAuth for any number of requests, emails, passwords    *)
(* and agents, and any lives of the tokens.                                  *)
EXTENDS OwnerAuthProperties, TLAPS

OwnerToken == [scope : {"owner"}, sub : Nat, left : 1 .. AccessLife]
RefreshToken == [scope : {"refresh"}, sub : Nat, left : 1 .. RefreshLife]
AgentAccess == [scope : {"agent"}, sub : Agent, left : 1 .. AccessLife]
Pending == [cred : Credential, left : 1 .. OtpLife]

(* Login and refresh issue tokens of the right shape for the row's id. *)
LEMMA OwnerTokensShape ==
  ASSUME NEW id \in Nat
  PROVE  /\ OwnerTokens(id) \subseteq OwnerToken \cup RefreshToken
         /\ \A t \in OwnerTokens(id) : t.scope # "agent" /\ t.sub = id
<1>1. AccessLife \in 1 .. AccessLife /\ RefreshLife \in 1 .. RefreshLife
  BY ConstantsAssumption DEF ConstantsAssumption
<1> QED
  BY <1>1 DEF OwnerTokens, JWT, OwnerToken, RefreshToken

(* A tick keeps the shape of the tokens that it leaves. *)
LEMMA AgedShape ==
  ASSUME NEW tokens,
         tokens \subseteq OwnerToken \cup RefreshToken \cup AgentAccess
  PROVE  /\ Aged(tokens) \subseteq OwnerToken \cup RefreshToken \cup AgentAccess
         /\ \A t \in Aged(tokens) : \E u \in tokens : t.scope = u.scope /\ t.sub = u.sub
<1>1. SUFFICES ASSUME NEW u \in tokens, u.left > 1, NEW t, t = [u EXCEPT !.left = u.left - 1]
               PROVE  /\ t \in OwnerToken \cup RefreshToken \cup AgentAccess
                      /\ t.scope = u.scope /\ t.sub = u.sub
  BY DEF Aged
<1>2. {AccessLife, RefreshLife} \subseteq Nat
  BY ConstantsAssumption DEF ConstantsAssumption
<1>3. CASE u \in OwnerToken
  BY <1>1, <1>2, <1>3 DEF OwnerToken
<1>4. CASE u \in RefreshToken
  BY <1>1, <1>2, <1>4 DEF RefreshToken
<1>5. CASE u \in AgentAccess
  BY <1>1, <1>2, <1>5 DEF AgentAccess
<1> QED
  BY <1>3, <1>4, <1>5

LEMMA AgedPending ==
  ASSUME NEW pending, pending \subseteq Pending
  PROVE  Aged(pending) \subseteq Pending
<1>1. OtpLife \in Nat
  BY ConstantsAssumption DEF ConstantsAssumption
<1> QED
  BY <1>1 DEF Aged, Pending

(* Exactly the ids of the rows are in DOMAIN owners, and Append keeps them. *)
LEMMA AppendKeeps ==
  ASSUME NEW S, NEW s \in Seq(S), NEW x \in S
  PROVE  /\ Append(s, x) \in Seq(S)
         /\ DOMAIN s \subseteq DOMAIN Append(s, x)
         /\ Len(Append(s, x)) = Len(s) + 1
  OBVIOUS

-----------------------------------------------------------------------------
(* TypeOK in the named shapes. *)
Shape ==
  /\ owners \in Seq(Credential)
  /\ agents \in [Agent -> Row]
  /\ setups \subseteq Pending
  /\ jwts \subseteq OwnerToken \cup RefreshToken \cup AgentAccess
  /\ pc \in [Client -> {"idle", "setup", "verify", "login", "stamp", "issue",
                        "owner", "revoke"}]
  /\ cred \in [Client -> Credential]
  /\ found \in [Client -> SUBSET Nat]
  /\ agent \in [Client -> Agent]
  /\ row \in [Client -> Row]
  /\ overlapped \in BOOLEAN

LEMMA ShapeIsTypeOK == Shape <=> TypeOK
  BY DEF Shape, TypeOK, OwnerToken, RefreshToken, AgentAccess, Pending

LEMMA InitShape == Init => Shape
<1> SUFFICES ASSUME Init PROVE Shape
  OBVIOUS
<1>1. owners \in Seq(Credential) /\ setups \subseteq Pending
  BY DEF Init
<1>2. jwts \subseteq OwnerToken \cup RefreshToken \cup AgentAccess
  BY DEF Init
<1>3. agents \in [Agent -> Row] /\ row \in [Client -> Row]
  BY DEF Init, Row
<1>4. pc \in [Client -> {"idle", "setup", "verify", "login", "stamp", "issue",
                         "owner", "revoke"}]
  BY DEF Init
<1>5. /\ cred \in [Client -> Credential] /\ found \in [Client -> SUBSET Nat]
      /\ agent \in [Client -> Agent]
  BY DEF Init
<1>6. overlapped \in BOOLEAN
  BY DEF Init
<1> QED
  BY <1>1, <1>2, <1>3, <1>4, <1>5, <1>6 DEF Shape

LEMMA StartShape ==
  ASSUME Shape, NEW c \in Client, Start(c)
  PROVE  Shape'
<1> USE DEF Shape
<1>0. DOMAIN owners \subseteq Nat
  OBVIOUS
<1>1. CASE SetupRead(c)
  BY <1>0, <1>1 DEF SetupRead, Goto
<1>2. CASE VerifyRead(c)
  BY <1>0, <1>2 DEF VerifyRead, Goto, Pending
<1>3. CASE LoginRead(c)
  BY <1>0, <1>3 DEF LoginRead, Goto
<1>4. CASE AgentRead(c)
  BY <1>4 DEF AgentRead, Goto
<1>5. CASE Admit(c)
  BY <1>5 DEF Admit, Goto, frame
<1> QED
  BY <1>1, <1>2, <1>3, <1>4, <1>5 DEF Start

(* What a login issues: tokens of an id its SELECT returned. *)
LEMMA LoginIssues ==
  ASSUME Shape, NEW c \in Client, LoginAnswer(c)
  PROVE  \A t \in jwts' : t \in jwts \/ \E id \in found[c] : t \in OwnerTokens(id)
  BY DEF LoginAnswer

LEMMA ContinueShape ==
  ASSUME Shape, NEW c \in Client, Continue(c)
  PROVE  Shape'
<1> USE DEF Shape
<1>1. CASE SetupAnswer(c)
  <2>1. OtpLife \in 1 .. OtpLife
    BY ConstantsAssumption DEF ConstantsAssumption
  <2> QED
    BY <1>1, <2>1 DEF SetupAnswer, Answer, Goto, frame, Pending
<1>2. CASE VerifyCommit(c)
  <2>1. owners' \in Seq(Credential)
    BY <1>2, AppendKeeps DEF VerifyCommit
  <2> QED
    BY <1>2, <2>1 DEF VerifyCommit, Answer, Goto, frame
<1>3. CASE LoginAnswer(c)
  <2>1. jwts' \subseteq OwnerToken \cup RefreshToken \cup AgentAccess
    BY <1>3, LoginIssues, OwnerTokensShape
  <2> QED
    BY <1>3, <2>1 DEF LoginAnswer, Answer, Goto, frame
<1>4. CASE AgentStamp(c)
  BY <1>4 DEF AgentStamp, Goto, frame
<1>5. CASE AgentIssue(c)
  <2>1. JWT("agent", agent[c], AccessLife) \in AgentAccess
    BY ConstantsAssumption DEF ConstantsAssumption, JWT, AgentAccess
  <2> QED
    BY <1>5, <2>1 DEF AgentIssue, Answer, Goto, frame
<1>6. CASE CreateToken(c)
  BY <1>6 DEF CreateToken, Answer, Goto, frame, Row
<1>7. CASE RevokeRead(c)
  BY <1>7 DEF RevokeRead, Goto
<1>8. CASE RevokeCommit(c)
  BY <1>8 DEF RevokeCommit, Answer, Goto, frame, Row
<1>9. CASE OnlyRead(c)
  BY <1>9 DEF OnlyRead, Answer, Goto, frame
<1> QED
  BY <1>1, <1>2, <1>3, <1>4, <1>5, <1>6, <1>7, <1>8, <1>9 DEF Continue

LEMMA NextShape == Shape /\ [Next]_vars => Shape'
<1> SUFFICES ASSUME Shape, [Next]_vars PROVE Shape'
  OBVIOUS
<1>1. CASE Refresh
  <2>1. PICK t \in jwts : t.scope = "refresh" /\ jwts' = jwts \cup OwnerTokens(t.sub)
    BY <1>1 DEF Refresh
  <2>2. t.sub \in Nat
    BY <2>1 DEF Shape, OwnerToken, RefreshToken, AgentAccess
  <2>3. jwts' \subseteq OwnerToken \cup RefreshToken \cup AgentAccess
    BY <2>1, <2>2, OwnerTokensShape DEF Shape
  <2> QED
    BY <1>1, <2>3 DEF Refresh, Shape, frame
<1>2. CASE Tick
  BY <1>2, AgedShape, AgedPending DEF Tick, Shape, frame
<1>3. CASE Crash
  BY <1>3 DEF Crash, Shape, frame
<1>4. CASE \E c \in Client : Start(c) \/ Continue(c)
  BY <1>4, StartShape, ContinueShape
<1>5. CASE UNCHANGED vars
  BY <1>5 DEF vars, frame, Shape
<1> QED
  BY <1>1, <1>2, <1>3, <1>4, <1>5 DEF Next

(* The tables, tokens and requests keep their types. *)
THEOREM TypeCorrect == Spec => []TypeOK
<1>1. Spec => []Shape
  BY InitShape, NextShape, PTL DEF Spec
<1> QED
  BY <1>1, ShapeIsTypeOK, PTL

-----------------------------------------------------------------------------
(* While no two verifications were in progress at once, what the one in      *)
(* progress has found is still the table when it commits.                    *)
Alone ==
  /\ Len(owners) <= 1
  /\ \A c, d \in Client : pc[c] = "verify" /\ pc[d] = "verify" => c = d
  /\ \A c \in Client : pc[c] = "verify" => found[c] = DOMAIN owners

Single == ~overlapped => Alone

LEMMA InitSingle == Init => Single
  BY DEF Init, Single, Alone

LEMMA NextSingle ==
  ASSUME Shape, Single, [Next]_vars
  PROVE  Single'
<1> SUFFICES ASSUME ~overlapped' PROVE Alone'
  BY DEF Single
<1> USE DEF Goto, Answer, frame
<1>0. ~overlapped
  <2>1. CASE \E c \in Client : VerifyRead(c)
    BY <2>1 DEF VerifyRead
  <2>2. CASE ~\E c \in Client : VerifyRead(c)
    BY <2>2 DEF Next, Start, Continue, SetupRead, LoginRead, AgentRead, Admit,
                SetupAnswer, VerifyCommit, LoginAnswer, AgentStamp, AgentIssue,
                CreateToken, RevokeRead, RevokeCommit, OnlyRead, Refresh, Tick,
                Crash, vars
  <2> QED
    BY <2>1, <2>2
<1> Alone
  BY <1>0 DEF Single
<1> USE DEF Shape, Alone
<1>1. ASSUME NEW c \in Client, Start(c) PROVE Alone'
  <2>1. CASE VerifyRead(c)
    <3>1. \A d \in Client : pc[d] # "verify"
      BY <2>1 DEF VerifyRead
    <3> QED
      BY <2>1, <3>1 DEF VerifyRead
  <2>2. CASE SetupRead(c) \/ LoginRead(c) \/ AgentRead(c) \/ Admit(c)
    BY <2>2 DEF SetupRead, LoginRead, AgentRead, Admit
  <2> QED
    BY <1>1, <2>1, <2>2 DEF Start
<1>2. ASSUME NEW c \in Client, Continue(c) PROVE Alone'
  <2>1. CASE VerifyCommit(c)
    <3>1. \A d \in Client : pc'[d] # "verify"
      BY <2>1 DEF VerifyCommit
    <3>2. CASE found[c] = {}
      <4>1. DOMAIN owners = {}
        BY <2>1, <3>2 DEF VerifyCommit
      <4>2. owners = <<>> /\ owners' = Append(owners, cred[c])
        BY <2>1, <3>2, <4>1 DEF VerifyCommit
      <4> QED
        BY <3>1, <4>2
    <3>3. CASE found[c] # {}
      BY <2>1, <3>1, <3>3 DEF VerifyCommit
    <3> QED
      BY <3>2, <3>3
  <2>2. CASE SetupAnswer(c) \/ LoginAnswer(c) \/ AgentStamp(c) \/ AgentIssue(c)
    BY <2>2 DEF SetupAnswer, LoginAnswer, AgentStamp, AgentIssue
  <2>3. CASE CreateToken(c) \/ RevokeRead(c) \/ RevokeCommit(c) \/ OnlyRead(c)
    BY <2>3 DEF CreateToken, RevokeRead, RevokeCommit, OnlyRead
  <2> QED
    BY <1>2, <2>1, <2>2, <2>3 DEF Continue
<1>3. CASE Refresh \/ Tick \/ Crash \/ UNCHANGED vars
  BY <1>3 DEF Refresh, Tick, Crash, vars
<1> QED
  BY <1>1, <1>2, <1>3 DEF Next

(* A second owner account takes two verifications in progress together. *)
THEOREM AccountIsSingle == Spec => []OneOwner
<1>1. Shape /\ Single /\ [Next]_vars => Shape' /\ Single'
  BY NextShape, NextSingle
<1>2. Shape /\ Single => OneOwner
  BY DEF Shape, Single, Alone, OneOwner
<1> QED
  BY <1>1, <1>2, InitShape, InitSingle, PTL DEF Spec

-----------------------------------------------------------------------------
(* Tokens name their holder because handlers issue them for rows they have   *)
(* found, and no row is ever deleted.                                        *)
Backed ==
  /\ TokensNameTheirHolder
  /\ \A c \in Client : found[c] \subseteq DOMAIN owners
  /\ \A c \in Client : pc[c] = "stamp" /\ row[c] # "absent" => agents[agent[c]] # "absent"
  /\ \A c \in Client : pc[c] = "issue" => agents[agent[c]] # "absent"

LEMMA InitBacked == Init => Backed
  BY DEF Init, Backed, TokensNameTheirHolder

(* Every holder is still there as long as the tables only grow. *)
LEMMA HoldersStay ==
  ASSUME Backed, Shape, DOMAIN owners \subseteq DOMAIN owners',
         \A k \in Agent : agents[k] # "absent" => agents'[k] # "absent"
  PROVE  \A t \in jwts : IF t.scope = "agent" THEN agents'[t.sub] # "absent"
                         ELSE t.sub \in DOMAIN owners'
<1> SUFFICES ASSUME NEW t \in jwts
             PROVE IF t.scope = "agent" THEN agents'[t.sub] # "absent"
                   ELSE t.sub \in DOMAIN owners'
  OBVIOUS
<1>1. IF t.scope = "agent" THEN agents[t.sub] # "absent" ELSE t.sub \in DOMAIN owners
  BY DEF Backed, TokensNameTheirHolder
<1>2. t.scope = "agent" => t.sub \in Agent
  BY DEF Shape, OwnerToken, RefreshToken, AgentAccess
<1> QED
  BY <1>1, <1>2

LEMMA StartBacked ==
  ASSUME Backed, Shape, NEW c \in Client, Start(c)
  PROVE  Backed'
<1> USE DEF Backed, Shape, Goto
<1>1. CASE SetupRead(c)
  BY <1>1 DEF SetupRead, TokensNameTheirHolder
<1>2. CASE VerifyRead(c)
  BY <1>2 DEF VerifyRead, TokensNameTheirHolder
<1>3. CASE LoginRead(c)
  BY <1>3 DEF LoginRead, TokensNameTheirHolder
<1>4. CASE AgentRead(c)
  BY <1>4 DEF AgentRead, TokensNameTheirHolder
<1>5. CASE Admit(c)
  BY <1>5 DEF Admit, frame, TokensNameTheirHolder
<1> QED
  BY <1>1, <1>2, <1>3, <1>4, <1>5 DEF Start

LEMMA ContinueBacked ==
  ASSUME Backed, Shape, NEW c \in Client, Continue(c)
  PROVE  Backed'
<1> USE DEF Goto, Answer, frame
<1>1. CASE SetupAnswer(c) \/ OnlyRead(c) \/ AgentStamp(c) \/ RevokeRead(c)
  BY <1>1 DEF SetupAnswer, OnlyRead, AgentStamp, RevokeRead, Backed, Shape, TokensNameTheirHolder
<1>2. CASE VerifyCommit(c)
  <2>1. DOMAIN owners \subseteq DOMAIN owners'
    BY <1>2, AppendKeeps DEF VerifyCommit, Shape
  <2>2. TokensNameTheirHolder'
    BY <1>2, <2>1, HoldersStay DEF VerifyCommit, TokensNameTheirHolder
  <2> QED
    BY <1>2, <2>1, <2>2 DEF VerifyCommit, Backed, Shape
<1>3. CASE LoginAnswer(c)
  <2>1. ASSUME NEW t \in jwts', t \notin jwts
        PROVE  t.scope # "agent" /\ t.sub \in DOMAIN owners
    <3>1. PICK id \in found[c] : t \in OwnerTokens(id)
      BY <1>3, <2>1, LoginIssues
    <3> QED
      BY <3>1, OwnerTokensShape DEF Backed, Shape
  <2>2. TokensNameTheirHolder'
    BY <1>3, <2>1 DEF LoginAnswer, TokensNameTheirHolder, Backed
  <2> QED
    BY <1>3, <2>2 DEF LoginAnswer, Backed, Shape
<1>4. CASE AgentIssue(c)
  <2>1. TokensNameTheirHolder'
    BY <1>4 DEF AgentIssue, JWT, TokensNameTheirHolder, Backed
  <2> QED
    BY <1>4, <2>1 DEF AgentIssue, Backed, Shape
<1>5. CASE CreateToken(c) \/ RevokeCommit(c)
  <2>1. \A k \in Agent : agents[k] # "absent" => agents'[k] # "absent"
    BY <1>5 DEF CreateToken, RevokeCommit, Shape
  <2>2. owners' = owners /\ jwts' = jwts
    BY <1>5 DEF CreateToken, RevokeCommit
  <2>3. TokensNameTheirHolder'
    BY <2>1, <2>2, HoldersStay DEF TokensNameTheirHolder
  <2> QED
    BY <1>5, <2>1, <2>3 DEF CreateToken, RevokeCommit, Backed, Shape
<1> QED
  BY <1>1, <1>2, <1>3, <1>4, <1>5 DEF Continue

LEMMA NextBacked == Backed /\ Shape /\ [Next]_vars => Backed'
<1> SUFFICES ASSUME Backed, Shape, [Next]_vars PROVE Backed'
  OBVIOUS
<1>1. CASE Refresh
  <2>1. PICK t \in jwts : t.scope = "refresh" /\ jwts' = jwts \cup OwnerTokens(t.sub)
    BY <1>1 DEF Refresh
  <2>2. t.sub \in Nat /\ t.sub \in DOMAIN owners
    BY <2>1 DEF Shape, OwnerToken, RefreshToken, AgentAccess, Backed, TokensNameTheirHolder
  <2>3. TokensNameTheirHolder'
    BY <1>1, <2>1, <2>2, OwnerTokensShape DEF Refresh, Backed, TokensNameTheirHolder
  <2> QED
    BY <1>1, <2>3 DEF Refresh, Backed, frame
<1>2. CASE Tick
  <2>1. \A t \in jwts' : \E u \in jwts : t.scope = u.scope /\ t.sub = u.sub
    BY <1>2, AgedShape DEF Tick, Shape
  <2>2. TokensNameTheirHolder'
    BY <1>2, <2>1 DEF Tick, Backed, TokensNameTheirHolder
  <2> QED
    BY <1>2, <2>2 DEF Tick, Backed, frame
<1>3. CASE Crash \/ UNCHANGED vars
  BY <1>3 DEF Crash, vars, frame, Backed, TokensNameTheirHolder
<1>4. CASE \E c \in Client : Start(c) \/ Continue(c)
  BY <1>4, StartBacked, ContinueBacked
<1> QED
  BY <1>1, <1>2, <1>3, <1>4 DEF Next

(* Exchanges and refreshes never turn one kind of actor into the other. *)
THEOREM TokensAreBacked == Spec => []TokensNameTheirHolder
<1>1. Shape /\ Backed /\ [Next]_vars => Shape' /\ Backed'
  BY NextShape, NextBacked
<1>2. Backed => TokensNameTheirHolder
  BY DEF Backed
<1> QED
  BY <1>1, <1>2, InitShape, InitBacked, PTL DEF Spec

-----------------------------------------------------------------------------
(* A step gives an agent that is locked out neither its row, nor a token,    *)
(* nor an exchange that could issue one.                                     *)
LEMMA LockedOutStep ==
  ASSUME Shape, [Next]_vars, NEW k \in Agent, LockedOut(k)
  PROVE  LockedOut(k)'
<1> USE DEF LockedOut, TokensOf, Exchanging, Goto, Answer, frame
<1>1. ASSUME NEW c \in Client, Start(c) PROVE LockedOut(k)'
  <2>1. CASE AgentRead(c)
    BY <2>1 DEF AgentRead, Shape
  <2>2. CASE SetupRead(c) \/ VerifyRead(c) \/ LoginRead(c) \/ Admit(c)
    BY <2>2 DEF SetupRead, VerifyRead, LoginRead, Admit, Shape
  <2> QED
    BY <1>1, <2>1, <2>2 DEF Start
<1>2. ASSUME NEW c \in Client, Continue(c) PROVE LockedOut(k)'
  <2>1. CASE LoginAnswer(c)
    <3>1. \A t \in jwts' : t \in jwts \/ t.scope # "agent"
      BY <2>1, LoginIssues, OwnerTokensShape DEF Shape
    <3> QED
      BY <2>1, <3>1 DEF LoginAnswer, Shape
  <2>2. CASE AgentStamp(c) \/ RevokeRead(c)
    BY <2>2 DEF AgentStamp, RevokeRead, Shape
  <2>3. CASE AgentIssue(c)
    BY <2>3 DEF AgentIssue, JWT, Shape
  <2>4. CASE CreateToken(c) \/ RevokeCommit(c)
    BY <2>4 DEF CreateToken, RevokeCommit, Shape
  <2>5. CASE SetupAnswer(c) \/ VerifyCommit(c) \/ OnlyRead(c)
    BY <2>5 DEF SetupAnswer, VerifyCommit, OnlyRead, Shape
  <2> QED
    BY <1>2, <2>1, <2>2, <2>3, <2>4, <2>5 DEF Continue
<1>3. CASE Refresh
  <2>1. PICK t \in jwts : t.scope = "refresh" /\ jwts' = jwts \cup OwnerTokens(t.sub)
    BY <1>3 DEF Refresh
  <2>2. t.sub \in Nat
    BY <2>1 DEF Shape, OwnerToken, RefreshToken, AgentAccess
  <2> QED
    BY <1>3, <2>1, <2>2, OwnerTokensShape DEF Refresh
<1>4. CASE Tick
  <2>1. \A t \in jwts' : \E u \in jwts : t.scope = u.scope /\ t.sub = u.sub
    BY <1>4, AgedShape DEF Tick, Shape
  <2> QED
    BY <1>4, <2>1 DEF Tick
<1>5. CASE Crash \/ UNCHANGED vars
  BY <1>5 DEF Crash, vars, Shape
<1> QED
  BY <1>1, <1>2, <1>3, <1>4, <1>5 DEF Next

(* An agent that is locked out stays locked out. *)
THEOREM LockedOutStays == Spec => LockedOutForGood
<1>1. Shape /\ [Next]_vars => (\A k \in Agent : LockedOut(k) => LockedOut(k)')
  BY LockedOutStep
<1> QED
  BY <1>1, InitShape, NextShape, PTL DEF Spec, LockedOutForGood

=============================================================================
