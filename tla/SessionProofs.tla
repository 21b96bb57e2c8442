---------------------------- MODULE SessionProofs ----------------------------
(***************************************************************************)
(* That the safety properties of BrowserSession hold for any number of     *)
(* tabs, calls and accounts, and any lives of the tokens.                  *)
(***************************************************************************)
EXTENDS BrowserSession, TLAPS

\* What a call knows at each stage, and that the server has done nothing for one that
\* may be sent again.
CallsOK ==
  \A c \in Calls :
    /\ call[c].pc # "idle" => call[c].tab \in Tabs
    /\ call[c].kind = "signIn" => call[c].user \in Users
    /\ call[c].pc = "refreshed" => call[c].token \in Token
    /\ call[c].pc = "accepted" /\ call[c].kind = "signIn" =>
         call[c].token \in Token /\ call[c].token.user = call[c].user
    /\ call[c].executed = IF call[c].pc = "accepted" THEN 1 ELSE 0

\* The calls whose token matters: that of an attempt to sign in does not, unless it is
\* being refreshed.
Carries(c) == call[c].pc # "idle" /\ (call[c].kind = "signIn" => call[c].pc \in {"refreshing", "refreshed"})

\* Users and tokens of a tab are of the stored account, unless the tokens went and the tab
\* is about to be left.
AccountsOK ==
  ~overlap =>
    /\ \A t \in Tabs : isAuthenticated(t) /\ tab[t].phase # "leaving" => stored.user = tab[t].user
    /\ \A c \in Calls :
         Carries(c) /\ (tab[call[c].tab].phase # "leaving" \/ stored # NoToken) =>
           call[c].token.user = stored.user

IInv == TypeOK /\ CallsOK /\ AccountsOK

-----------------------------------------------------------------------------
(* Tokens                                                                  *)

\* No token is mistaken for none.
LEMMA TokenIsOne == NoToken \notin Token /\ \A token \in Token : token.user \in Users
BY SessionAssumption DEF Token, NoToken

\* Tokens are issued to an account of now.
LEMMA IssuedIsToken ==
  ASSUME TypeOK, NEW user \in Users
  PROVE  Issued(user) \in Token /\ Issued(user).user = user
BY SessionAssumption DEF TypeOK, Issued, Token

\* Stored tokens stay tokens.
LEMMA StoreTokensType ==
  ASSUME TypeOK, NEW token \in Token \cup {NoToken}, NEW others \in BOOLEAN,
         StoreTokens(token, others)
  PROVE  stored' \in Token \cup {NoToken} /\ overlap' \in BOOLEAN
BY DEF TypeOK, StoreTokens

\* So do calls that change their stage and token.
LEMMA CallAtType ==
  ASSUME TypeOK, NEW c \in Calls, NEW token \in Token \cup {NoToken},
         NEW pc \in {"idle", "sent", "accepted", "refreshing", "refreshed"}, CallAt(c, pc, token)
  PROVE  call' \in [Calls -> CallState]
<1> DEFINE new == [call[c] EXCEPT !.pc = pc, !.token = token]
<1>1. call' = [call EXCEPT ![c] = new]
  BY DEF CallAt, TypeOK, CallState
<1>2. new \in CallState
  BY DEF TypeOK, CallState
<1> QED BY <1>1, <1>2 DEF TypeOK

-----------------------------------------------------------------------------
(* Steps of a call                                                         *)

\* The server carries a request out when it consents, and then only.
LEMMA ServeKeeps ==
  ASSUME IInv, NEW c \in Calls, Serve(c)
  PROVE  IInv'
<1>1. TypeOK'
  BY IssuedIsToken DEF IInv, TypeOK, CallsOK, Serve, CallState, Kinds
<1>2. CallsOK'
  BY IssuedIsToken DEF IInv, TypeOK, CallsOK, Serve, CallState, Kinds
<1>3. AccountsOK'
  BY DEF IInv, TypeOK, AccountsOK, Carries, Serve, CallState, isAuthenticated
<1> QED BY <1>1, <1>2, <1>3 DEF IInv

\* A refreshed pair is of the account whose token it was asked for with.
LEMMA RefreshKeeps ==
  ASSUME IInv, NEW c \in Calls, Refresh(c)
  PROVE  IInv'
<1>1. call[c].token \in Token /\ call[c].token.user \in Users
  BY TokenIsOne DEF IInv, TypeOK, CallState, Refresh, RefreshValid
<1>2. Issued(call[c].token.user) \in Token /\ Issued(call[c].token.user).user = call[c].token.user
  BY <1>1, IssuedIsToken DEF IInv
<1>3. TypeOK'
  BY <1>2, CallAtType DEF IInv, TypeOK, Refresh
<1>4. CallsOK'
  BY <1>2 DEF IInv, TypeOK, CallsOK, Refresh, CallAt, CallState
<1>5. AccountsOK'
  BY <1>2 DEF IInv, TypeOK, AccountsOK, Carries, Refresh, CallAt, CallState, isAuthenticated
<1> QED BY <1>3, <1>4, <1>5 DEF IInv

\* A refresh is asked for with the pair stored by then.
LEMMA InterceptKeeps ==
  ASSUME IInv, NEW c \in Calls, Intercept(c)
  PROVE  IInv'
<1>1. call[c].pc = "sent" BY DEF Intercept, Unauthorized
<1>2. TypeOK'
  BY DEF IInv, TypeOK, Intercept, CallState
<1>3. CallsOK'
  BY <1>1 DEF IInv, TypeOK, CallsOK, Intercept, CallState
<1>4. AccountsOK'
  BY <1>1 DEF IInv, TypeOK, AccountsOK, Carries, Intercept, CallState, isAuthenticated
<1> QED BY <1>2, <1>3, <1>4 DEF IInv

\* A pair that is stored is of the account stored before, unless somebody has had to notice.
LEMMA ResendKeeps ==
  ASSUME IInv, NEW c \in Calls, Resend(c)
  PROVE  IInv'
<1>1. call[c].pc = "refreshed" /\ call[c].token \in Token /\ call[c].tab \in Tabs
  BY DEF IInv, CallsOK, Resend
<1>2. TypeOK'
  BY <1>1, CallAtType, StoreTokensType DEF IInv, TypeOK, Resend, OtherCallsCount, OtherTabsCount
<1>3. CallsOK'
  BY <1>1 DEF IInv, TypeOK, CallsOK, Resend, CallAt, CallState
<1>4. ASSUME ~overlap' PROVE
        /\ \A t \in Tabs : isAuthenticated(t)' /\ tab'[t].phase # "leaving" => stored'.user = tab'[t].user
        /\ \A d \in Calls :
             Carries(d)' /\ (tab'[call'[d].tab].phase # "leaving" \/ stored' # NoToken) =>
               call'[d].token.user = stored'.user
  <2>1. ~overlap /\ (call[c].token.user # stored.user => ~OtherCallsCount(call[c].tab, {c}))
    BY <1>4 DEF Resend, StoreTokens
  <2>2. CASE call[c].token.user = stored.user
    <3>1. stored # NoToken
      BY <1>1, <2>2, TokenIsOne, SessionAssumption DEF NoToken
    <3> QED BY <1>1, <2>1, <2>2, <3>1
          DEF IInv, TypeOK, AccountsOK, Carries, Resend, CallAt, CallState, StoreTokens, isAuthenticated
  <2>3. CASE call[c].token.user # stored.user
    <3>1. tab[call[c].tab].phase = "leaving"
      BY <1>1, <2>1, <2>3 DEF IInv, AccountsOK, Carries
    <3>2. /\ \A s \in Tabs \ {call[c].tab} : tab[s].user = NoUser
          /\ \A d \in Calls \ {c} : Idle(d)
      BY <2>1, <2>3 DEF OtherCallsCount, OtherTabsCount
    <3> QED
      BY <1>1, <3>1, <3>2 DEF IInv, TypeOK, Carries, Resend, CallAt, CallState, StoreTokens, isAuthenticated, Idle
  <2> QED BY <2>2, <2>3
<1> QED BY <1>2, <1>3, <1>4 DEF IInv, AccountsOK

\* What an error does to the tab whose call it ends, and to no other.
LEMMA AfterErrorTab ==
  ASSUME TypeOK, NEW c \in Calls, call[c].tab \in Tabs, NEW leaving \in BOOLEAN,
         AfterError(c, leaving)
  PROVE  /\ tab' \in [Tabs -> TabState]
         /\ \A s \in Tabs \ {call[c].tab} : tab'[s] = tab[s]
         /\ tab'[call[c].tab].user = IF call[c].kind = "me" THEN NoUser ELSE tab[call[c].tab].user
         /\ leaving \/ tab[call[c].tab].phase = "leaving" => tab'[call[c].tab].phase = "leaving"
<1>1. tab' \in [Tabs -> TabState]
  BY DEF AfterError, TypeOK, TabState, PhaseAfterMe
<1>2. \A s \in Tabs \ {call[c].tab} : tab'[s] = tab[s]
  BY DEF AfterError, TypeOK, TabState
<1>3. tab'[call[c].tab].user = IF call[c].kind = "me" THEN NoUser ELSE tab[call[c].tab].user
  BY DEF AfterError, TypeOK, TabState
<1>4. leaving \/ tab[call[c].tab].phase = "leaving" => tab'[call[c].tab].phase = "leaving"
  BY DEF AfterError, TypeOK, TabState, PhaseAfterMe
<1> QED BY <1>1, <1>2, <1>3, <1>4

\* The end of a call leaves the others as they are.
LEMMA EndCallKeeps ==
  ASSUME TypeOK, CallsOK, NEW c \in Calls, EndCall(c)
  PROVE  /\ call' \in [Calls -> CallState] /\ CallsOK'
         /\ call'[c] = NoCall /\ \A d \in Calls \ {c} : call'[d] = call[d]
BY SessionAssumption DEF TypeOK, CallsOK, EndCall, CallState, NoCall

\* After a failed refresh the tab is leaving; whoever else relied on the tokens that went
\* has had to notice.
LEMMA RefreshRejectedKeeps ==
  ASSUME IInv, NEW c \in Calls, RefreshRejected(c), lost' \in 0 .. MaxLost
  PROVE  IInv'
<1> DEFINE t == call[c].tab
<1>1. t \in Tabs
  BY DEF IInv, CallsOK, RefreshRejected
<1>2. /\ tab' \in [Tabs -> TabState] /\ tab'[t].phase = "leaving"
      /\ \A s \in Tabs \ {t} : tab'[s] = tab[s]
  BY <1>1, AfterErrorTab DEF IInv, RefreshRejected
<1>3. /\ call' \in [Calls -> CallState] /\ CallsOK'
      /\ call'[c] = NoCall /\ \A d \in Calls \ {c} : call'[d] = call[d]
  BY EndCallKeeps DEF IInv, RefreshRejected
<1>4. TypeOK'
  BY <1>2, <1>3, StoreTokensType DEF IInv, TypeOK, RefreshRejected, OtherTabsCount
<1>5. ASSUME ~overlap' PROVE
        /\ \A s \in Tabs : isAuthenticated(s)' /\ tab'[s].phase # "leaving" => stored'.user = tab'[s].user
        /\ \A d \in Calls :
             Carries(d)' /\ (tab'[call'[d].tab].phase # "leaving" \/ stored' # NoToken) =>
               call'[d].token.user = stored'.user
  <2>1. ~overlap /\ stored' = NoToken /\ (NoToken.user # stored.user => ~OtherTabsCount(t))
    BY <1>5 DEF RefreshRejected, StoreTokens
  <2>2. \A d \in Calls : call'[d] = call[d] \/ call'[d].pc = "idle"
    BY <1>3 DEF NoCall
  <2>3. CASE NoToken.user = stored.user
    BY <1>1, <1>2, <2>1, <2>2, <2>3 DEF IInv, CallsOK, AccountsOK, Carries, isAuthenticated
  <2>4. CASE NoToken.user # stored.user
    <3>1. /\ \A s \in Tabs \ {t} : tab[s].user = NoUser
          /\ \A d \in Calls : call[d].pc = "idle" \/ call[d].tab = t
      BY <2>1, <2>4 DEF OtherTabsCount, Idle
    <3> QED BY <1>2, <2>1, <2>2, <3>1 DEF Carries, isAuthenticated
  <2> QED BY <2>3, <2>4
<1> QED BY <1>3, <1>4, <1>5 DEF IInv, AccountsOK

\* An error of getMe leaves the tab without user and tokens; any other changes neither.
LEMMA RejectKeeps ==
  ASSUME IInv, NEW c \in Calls, call[c].pc # "idle", Reject(c), lost' \in 0 .. MaxLost
  PROVE  IInv'
<1> DEFINE t == call[c].tab
<1>1. t \in Tabs
  BY DEF IInv, CallsOK
<1>2. /\ tab' \in [Tabs -> TabState]
      /\ \A s \in Tabs \ {t} : tab'[s] = tab[s]
      /\ tab'[t].user = IF call[c].kind = "me" THEN NoUser ELSE tab[t].user
      /\ tab[t].phase = "leaving" => tab'[t].phase = "leaving"
  BY <1>1, AfterErrorTab DEF IInv, Reject
<1>3. /\ call' \in [Calls -> CallState] /\ CallsOK'
      /\ call'[c] = NoCall /\ \A d \in Calls \ {c} : call'[d] = call[d]
  BY EndCallKeeps DEF IInv, Reject
<1>4. TypeOK'
  BY <1>2, <1>3, StoreTokensType DEF IInv, TypeOK, Reject, KeepTokens, OtherCallsCount, OtherTabsCount
<1>5. ASSUME ~overlap' PROVE
        /\ \A s \in Tabs : isAuthenticated(s)' /\ tab'[s].phase # "leaving" => stored'.user = tab'[s].user
        /\ \A d \in Calls :
             Carries(d)' /\ (tab'[call'[d].tab].phase # "leaving" \/ stored' # NoToken) =>
               call'[d].token.user = stored'.user
  <2>1. \A d \in Calls : call'[d].pc = "idle" \/ (d # c /\ call'[d] = call[d] /\ call[d].tab \in Tabs)
    BY <1>3 DEF NoCall, IInv, CallsOK
  <2>2. CASE stored'.user = stored.user
    <3>1. ~overlap
      BY <1>5 DEF Reject, StoreTokens, KeepTokens
    <3>3. stored' # NoToken => stored # NoToken
      BY DEF Reject, StoreTokens, KeepTokens
    <3>2. \A s \in Tabs : /\ tab'[s].user \in {tab[s].user, NoUser}
                          /\ tab'[s].phase # "leaving" => tab[s].phase # "leaving"
      BY <1>2
    <3> QED BY <2>1, <2>2, <3>1, <3>2, <3>3 DEF IInv, AccountsOK, Carries, isAuthenticated
  <2>3. CASE stored'.user # stored.user
    <3>1. call[c].kind = "me" /\ ~OtherCallsCount(t, {c})
      BY <1>5, <2>3 DEF Reject, StoreTokens, KeepTokens
    <3>2. /\ \A s \in Tabs : tab'[s].user = NoUser
          /\ \A d \in Calls : call'[d].pc = "idle"
      BY <1>2, <2>1, <3>1 DEF OtherCallsCount, OtherTabsCount, Idle
    <3> QED BY <3>2 DEF Carries, isAuthenticated
  <2> QED BY <2>2, <2>3
<1> QED BY <1>3, <1>4, <1>5 DEF IInv, AccountsOK

\* The user of a tab is whom getMe was asked for with.
LEMMA GetMeAnsweredKeeps ==
  ASSUME IInv, NEW c \in Calls, GetMeAnswered(c)
  PROVE  IInv'
<1>1. call[c].tab \in Tabs
  BY DEF IInv, CallsOK, GetMeAnswered
<1>2. /\ call' \in [Calls -> CallState] /\ CallsOK'
      /\ call'[c] = NoCall /\ \A d \in Calls \ {c} : call'[d] = call[d]
  BY EndCallKeeps DEF IInv, GetMeAnswered
<1>3. call[c].token.user \in Users \cup {NoUser}
  BY TokenIsOne DEF IInv, TypeOK, CallState, NoToken
<1>4. TypeOK'
  BY <1>1, <1>2, <1>3 DEF IInv, TypeOK, GetMeAnswered, TabState, PhaseAfterMe, KeepTokens
<1>5. AccountsOK'
  BY <1>1, <1>2 DEF IInv, TypeOK, CallsOK, AccountsOK, Carries, GetMeAnswered, TabState, PhaseAfterMe, KeepTokens,
                    isAuthenticated, NoCall
<1> QED BY <1>2, <1>4, <1>5 DEF IInv

\* The answers to pages change neither users nor tokens.
LEMMA PageAnsweredKeeps ==
  ASSUME IInv, NEW c \in Calls, PageAnswered(c)
  PROVE  IInv'
<1>1. /\ call' \in [Calls -> CallState] /\ CallsOK'
      /\ call'[c] = NoCall /\ \A d \in Calls \ {c} : call'[d] = call[d]
  BY EndCallKeeps DEF IInv, PageAnswered
<1>2. TypeOK' /\ AccountsOK'
  BY <1>1 DEF IInv, TypeOK, AccountsOK, Carries, PageAnswered, KeepTokens, isAuthenticated, NoCall
<1> QED BY <1>1, <1>2 DEF IInv

\* A sign-in sets the tab's user and the stored pair to one account; whoever relied on
\* another has had to notice.
LEMMA SignedInKeeps ==
  ASSUME IInv, NEW c \in Calls, SignedIn(c)
  PROVE  IInv'
<1> DEFINE t == call[c].tab
<1>1. t \in Tabs /\ call[c].token \in Token /\ call[c].token.user = call[c].user /\ call[c].user \in Users
  BY DEF IInv, CallsOK, SignedIn
<1>2. /\ call' \in [Calls -> CallState] /\ CallsOK'
      /\ call'[c] = NoCall /\ \A d \in Calls \ {c} : call'[d] = call[d]
  BY EndCallKeeps DEF IInv, SignedIn
<1>3. tab' \in [Tabs -> TabState]
  BY <1>1 DEF IInv, TypeOK, SignedIn, TabState
<1>4. /\ tab'[t].user = call[c].user /\ tab'[t].phase = tab[t].phase
      /\ \A s \in Tabs \ {t} : tab'[s] = tab[s]
  BY <1>1 DEF IInv, TypeOK, SignedIn, TabState
<1>5. TypeOK'
  BY <1>1, <1>2, <1>3, StoreTokensType DEF IInv, TypeOK, SignedIn, OtherCallsCount, OtherTabsCount
<1>6. ASSUME ~overlap' PROVE
        /\ \A s \in Tabs : isAuthenticated(s)' /\ tab'[s].phase # "leaving" => stored'.user = tab'[s].user
        /\ \A d \in Calls :
             Carries(d)' /\ (tab'[call'[d].tab].phase # "leaving" \/ stored' # NoToken) =>
               call'[d].token.user = stored'.user
  <2>1. \A d \in Calls : call'[d].pc = "idle" \/ (d # c /\ call'[d] = call[d] /\ call[d].tab \in Tabs)
    BY <1>2 DEF NoCall, IInv, CallsOK
  <2>2. ~overlap /\ stored' = call[c].token /\ (call[c].token.user # stored.user => ~OtherCallsCount(t, {c}))
    BY <1>6 DEF SignedIn, StoreTokens
  <2>3. CASE call[c].token.user = stored.user
    <3>1. stored # NoToken
      BY <1>1, <2>3, TokenIsOne, SessionAssumption DEF NoToken
    <3> QED BY <1>1, <1>4, <2>1, <2>2, <2>3, <3>1 DEF IInv, AccountsOK, Carries, isAuthenticated
  <2>4. CASE call[c].token.user # stored.user
    <3>1. /\ \A s \in Tabs \ {t} : tab[s].user = NoUser
          /\ \A d \in Calls : call'[d].pc = "idle"
      BY <2>1, <2>2, <2>4 DEF OtherCallsCount, OtherTabsCount, Idle
    <3> QED BY <1>1, <1>4, <2>2, <3>1 DEF Carries, isAuthenticated
  <2> QED BY <2>3, <2>4
<1> QED BY <1>2, <1>5, <1>6 DEF IInv, AccountsOK

-----------------------------------------------------------------------------
(* Steps of a tab                                                          *)

\* What is sent for a page, or to learn whose the tokens are, is sent with the stored pair.
LEMMA RequestIsCall ==
  ASSUME TypeOK, NEW t \in Tabs, NEW kind \in Kinds, NEW user \in Users \cup {NoUser},
         kind = "signIn" => user \in Users
  PROVE  /\ Request(t, kind, user) \in CallState
         /\ Request(t, kind, user).pc = "sent" /\ Request(t, kind, user).kind = kind
         /\ Request(t, kind, user).tab = t /\ Request(t, kind, user).user = user
         /\ Request(t, kind, user).executed = 0
         /\ kind # "signIn" => Request(t, kind, user).token = stored
BY DEF Request, TypeOK, CallState

\* A page that is loaded has no calls but that of initAuth, and no user.
LEMMA LoadTabKeeps ==
  ASSUME IInv, NEW t \in Tabs, NEW view \in {"page", "login"}, LoadTab(t, view)
  PROVE  IInv'
<1> DEFINE me == Request(t, "me", NoUser)
<1>1. NoCall \in CallState
  BY DEF NoCall, CallState, NoToken
<1>2. me \in CallState /\ me.pc = "sent" /\ me.kind = "me" /\ me.tab = t /\ me.executed = 0 /\ me.token = stored
  BY RequestIsCall DEF IInv, Kinds
<1>3. \A d \in Calls : call'[d] \in {NoCall, me} \/ (call'[d] = call[d] /\ call[d].tab # t)
  BY DEF LoadTab
<1>4. call' \in [Calls -> CallState]
  BY <1>1, <1>2 DEF LoadTab, IInv, TypeOK
<1>5. /\ tab' \in [Tabs -> TabState] /\ tab'[t].user = NoUser
      /\ \A s \in Tabs \ {t} : tab'[s] = tab[s]
  BY DEF LoadTab, IInv, TypeOK, TabState
<1>6. TypeOK'
  BY <1>4, <1>5 DEF IInv, TypeOK, LoadTab, KeepTokens
<1>7. CallsOK'
  BY <1>2, <1>3 DEF IInv, CallsOK, NoCall
<1>8. AccountsOK'
  BY <1>2, <1>3, <1>5 DEF IInv, CallsOK, AccountsOK, Carries, LoadTab, KeepTokens, isAuthenticated, NoCall
<1> QED BY <1>6, <1>7, <1>8 DEF IInv

\* Showing another view is no more than that.
LEMMA ShowKeeps ==
  ASSUME IInv, NEW t \in Tabs, NEW view \in {"page", "login"}, Show(t, view)
  PROVE  IInv'
<1>1. /\ tab' \in [Tabs -> TabState]
      /\ \A s \in Tabs : tab'[s].user = tab[s].user /\ tab'[s].phase = tab[s].phase
  BY DEF Show, IInv, TypeOK, TabState
<1>2. TypeOK' /\ CallsOK' /\ AccountsOK'
  BY <1>1 DEF IInv, TypeOK, CallsOK, AccountsOK, Carries, Show, KeepTokens, isAuthenticated
<1> QED BY <1>2 DEF IInv

\* A new request breaks nothing.
LEMMA SendKeeps ==
  ASSUME IInv, NEW t \in Tabs, NEW kind \in Kinds, NEW user \in Users \cup {NoUser},
         kind = "signIn" => user \in Users, Send(t, kind, user), KeepTokens, UNCHANGED <<now, tab, lost>>
  PROVE  IInv'
<1>1. PICK c \in Calls : call' = [call EXCEPT ![c] = Request(t, kind, user)]
  BY DEF Send
<1>2. TypeOK'
  BY <1>1, RequestIsCall DEF IInv, TypeOK, KeepTokens
<1>3. CallsOK' /\ AccountsOK'
  BY <1>1, RequestIsCall DEF IInv, TypeOK, CallsOK, AccountsOK, Carries, KeepTokens, isAuthenticated
<1> QED BY <1>2, <1>3 DEF IInv

\* Whoever relied on the account that a logout ends has had to notice.
LEMMA LogoutKeeps ==
  ASSUME IInv, NEW t \in Tabs, Logout(t)
  PROVE  IInv'
<1>1. /\ tab' \in [Tabs -> TabState] /\ tab'[t].user = NoUser /\ tab'[t].phase = tab[t].phase
      /\ \A s \in Tabs \ {t} : tab'[s] = tab[s]
  BY DEF Logout, IInv, TypeOK, TabState
<1>2. TypeOK'
  BY <1>1, StoreTokensType DEF IInv, TypeOK, Logout, OtherCallsCount, OtherTabsCount
<1>3. CallsOK'
  BY DEF IInv, CallsOK, Logout
<1>4. AccountsOK'
  BY <1>1 DEF IInv, CallsOK, AccountsOK, Carries, Logout, StoreTokens, OtherCallsCount, OtherTabsCount, Idle, isAuthenticated
<1> QED BY <1>2, <1>3, <1>4 DEF IInv

-----------------------------------------------------------------------------
(* The invariant                                                           *)

\* It holds at first.
LEMMA InitHolds == Init => IInv
<1> SUFFICES ASSUME Init PROVE IInv
  OBVIOUS
<1>1. TypeOK
  <2>1. now \in 0 .. MaxTime /\ [user : Users, at : {0}] \subseteq Token /\ lost \in 0 .. MaxLost
    BY SessionAssumption DEF Init, Token
  <2>2. NoCall \in CallState
    BY DEF NoCall, CallState, NoToken
  <2> QED BY <2>1, <2>2 DEF Init, TypeOK, TabState
<1>2. CallsOK /\ AccountsOK
  BY DEF Init, NoCall, CallsOK, AccountsOK, Carries, isAuthenticated
<1> QED BY <1>1, <1>2 DEF IInv

\* Every step keeps it.
LEMMA StepKeeps == IInv /\ [Next]_vars => IInv'
<1> SUFFICES ASSUME IInv, [Next]_vars PROVE IInv'
  OBVIOUS
<1>1. ASSUME NEW c \in Calls, ServerStep(c) PROVE IInv'
  BY <1>1, ServeKeeps, RefreshKeeps DEF ServerStep
<1>2. ASSUME NEW c \in Calls, AnswerStep(c) PROVE IInv'
  <2>1. CASE RefreshRefused(c) BY <2>1, RefreshRejectedKeeps DEF RefreshRefused, IInv, TypeOK
  <2>2. CASE Refused(c) BY <2>2, RejectKeeps DEF Refused, Unauthorized, IInv, TypeOK
  <2> QED BY <1>2, <2>1, <2>2, InterceptKeeps, ResendKeeps, GetMeAnsweredKeeps, PageAnsweredKeeps, SignedInKeeps
          DEF AnswerStep
<1>3. ASSUME NEW c \in Calls, Loss(c) PROVE IInv'
  <2>1. lost' \in 0 .. MaxLost
    BY <1>3, SessionAssumption DEF Loss, CallLost, RefreshLost, Lose, IInv, TypeOK
  <2> QED BY <1>3, <2>1, RejectKeeps, RefreshRejectedKeeps DEF Loss, CallLost, RefreshLost
<1>4. ASSUME NEW t \in Tabs, PageStep(t) PROVE IInv'
  BY <1>4, LoadTabKeeps, ShowKeeps DEF PageStep, Unload, Redirect
<1>5. ASSUME NEW t \in Tabs, UserStep(t) PROVE IInv'
  <2>1. CASE PageCall(t) BY <2>1, SendKeeps DEF PageCall, Kinds
  <2>2. ASSUME NEW u \in Users, Submit(t, u) PROVE IInv' BY <2>2, SendKeeps DEF Submit, Kinds
  <2>3. ASSUME NEW view \in {"page", "login"}, Navigate(t, view) \/ Reload(t, view) PROVE IInv'
    BY <2>3, LoadTabKeeps, ShowKeeps DEF Navigate, Reload
  <2> QED BY <1>5, <2>1, <2>2, <2>3, LogoutKeeps DEF UserStep
<1>6. CASE Tick
  <2>1. TypeOK' BY <1>6, SessionAssumption DEF Tick, IInv, TypeOK
  <2>2. CallsOK' /\ AccountsOK' BY <1>6 DEF Tick, IInv, CallsOK, AccountsOK, Carries, isAuthenticated
  <2> QED BY <2>1, <2>2 DEF IInv
<1>7. CASE UNCHANGED vars
  BY <1>7 DEF vars, IInv, TypeOK, CallsOK, AccountsOK, Carries, isAuthenticated
<1> QED BY <1>1, <1>2, <1>3, <1>4, <1>5, <1>6, <1>7 DEF Next

\* The inductive invariant holds.
THEOREM Invariance == Spec => []IInv
<1> QED BY InitHolds, StepKeeps, PTL DEF Spec

\* Every variable stays in its set.
THEOREM TypeCorrect == Spec => []TypeOK
<1>1. IInv => TypeOK BY DEF IInv
<1> QED BY <1>1, Invariance, PTL

\* What is asked for once is done once, whatever is refreshed and sent again.
THEOREM AtMostOnce == Spec => []ExecutedOnce
<1>1. IInv => ExecutedOnce BY DEF IInv, CallsOK, ExecutedOnce
<1> QED BY <1>1, Invariance, PTL

\* A tab shows the account that its requests are made for, as long as nobody exchanged
\* or removed it while others counted on it.
THEOREM OwnAccount == Spec => []ShowsOwnAccount
<1>1. IInv => ShowsOwnAccount BY DEF IInv, AccountsOK, ShowsOwnAccount
<1> QED BY <1>1, Invariance, PTL

\* Nothing is lost: the tokens go for a logout or because a token of their account has run
\* out, by any number of calls that refresh at the same time.
LEMMA StepForCause ==
  ASSUME IInv, [Next]_vars, stored # NoToken, stored' = NoToken, lost' = lost
  PROVE  \/ \E t \in Tabs : Logout(t)
         \/ \E c \in Calls :
              /\ overlap \/ call[c].token.user = stored.user
              /\ \/ call[c].pc = "refreshing" /\ ~RefreshValid(call[c].token)
                 \/ call[c].kind = "me" /\ call[c].retried /\ ~AccessValid(call[c].token)
<1>1. ASSUME NEW c \in Calls, AnswerStep(c)
      PROVE  /\ overlap \/ call[c].token.user = stored.user
             /\ \/ call[c].pc = "refreshing" /\ ~RefreshValid(call[c].token)
                \/ call[c].kind = "me" /\ call[c].retried /\ ~AccessValid(call[c].token)
  <2>1. ~Intercept(c) /\ ~GetMeAnswered(c) /\ ~PageAnswered(c)
    BY DEF Intercept, GetMeAnswered, PageAnswered, KeepTokens
  <2>2. ~Resend(c) /\ ~SignedIn(c)
    BY TokenIsOne DEF Resend, SignedIn, StoreTokens, IInv, CallsOK
  <2>3. Carries(c) => overlap \/ call[c].token.user = stored.user
    BY DEF IInv, AccountsOK
  <2>4. CASE RefreshRefused(c)
    BY <2>3, <2>4 DEF RefreshRefused, Carries
  <2>5. CASE Refused(c)
    <3>1. call[c].pc = "sent" /\ call[c].kind = "me" /\ call[c].retried /\ ~AccessValid(call[c].token)
      BY <2>5 DEF Refused, Reject, KeepTokens, Unauthorized
    <3> QED
      BY <2>3, <3>1 DEF Carries
  <2> QED BY <1>1, <2>1, <2>2, <2>4, <2>5 DEF AnswerStep
<1>2. ASSUME NEW c \in Calls PROVE ~ServerStep(c) /\ ~Loss(c)
  BY DEF ServerStep, Serve, Refresh, Loss, CallLost, RefreshLost, Lose, IInv, TypeOK
<1>3. ASSUME NEW t \in Tabs, PageStep(t) \/ UserStep(t) PROVE Logout(t)
  BY <1>3 DEF PageStep, Unload, Redirect, UserStep, PageCall, Submit, Navigate, Reload, LoadTab, Show, KeepTokens
<1>4. Next /\ ~Tick
  BY DEF vars, Tick
<1> QED BY <1>1, <1>2, <1>3, <1>4 DEF Next

\* No answer to a refresh ends a session before a token of its account has run out.
THEOREM EndsForCause == Spec => SessionEndsForCause
<1>1. IInv /\ [Next]_vars =>
        [stored # NoToken /\ stored' = NoToken /\ lost' = lost =>
           \/ \E t \in Tabs : Logout(t)
           \/ \E c \in Calls :
                /\ overlap \/ call[c].token.user = stored.user
                /\ \/ call[c].pc = "refreshing" /\ ~RefreshValid(call[c].token)
                   \/ call[c].kind = "me" /\ call[c].retried /\ ~AccessValid(call[c].token)]_vars
  BY StepForCause
<1> QED BY <1>1, Invariance, PTL DEF Spec, SessionEndsForCause
=============================================================================
