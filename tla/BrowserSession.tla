--------------------------- MODULE BrowserSession ---------------------------
(***************************************************************************)
(* Who the browser believes it is: the two tokens in localStorage, which   *)
(* all tabs share, the AuthContext of each tab, the login form, and the    *)
(* axios interceptors that attach a token to every request and refresh it  *)
(* after a 401.                                                            *)
(*                                                                         *)
(* A call is one use of apiClient with its refresh and its second sending. *)
(* Tokens are JWTs: the server keeps no record of them and judges them by  *)
(* their age.  A consent is on its way for a while, and may be out of date *)
(* when it arrives; a refusal never changes once it was due, and is one    *)
(* step with its handling.  JavaScript runs to completion between steps.   *)
(***************************************************************************)
EXTENDS Naturals

CONSTANTS
  Tabs,         \* tabs that have the application open
  Calls,        \* bound: how many calls can be on their way at a time
  Users,        \* accounts
  AccessLife,   \* JWT_ACCESS_EXPIRY, in ticks
  RefreshLife,  \* JWT_REFRESH_EXPIRY, in ticks
  MaxTime,      \* bound: how many ticks are counted
  MaxLost       \* bound: how many requests, or answers, are lost

NoUser == "nobody"

ASSUME SessionAssumption ==
  /\ AccessLife \in Nat
  /\ RefreshLife \in Nat
  /\ MaxTime \in Nat
  /\ MaxLost \in Nat
  /\ NoUser \notin Users

VARIABLES
  now,      \* the server's clock
  stored,   \* access_token and refresh_token in localStorage, always one pair
  tab,      \* AuthContext, route and login form of each tab
  call,     \* calls on their way
  overlap,  \* history: the stored account changed under somebody's feet
  lost      \* history: how many requests, or answers, were lost

vars == <<now, stored, tab, call, overlap, lost>>

\* A token pair is known by its account and the time of its issue.
Token == [user : Users, at : 0 .. MaxTime]
NoToken == [user |-> NoUser, at |-> 0]

AccessValid(token) == token # NoToken /\ now < token.at + AccessLife
RefreshValid(token) == token # NoToken /\ now < token.at + RefreshLife

Kinds == {"me", "page", "signIn"}
NoTab == "none"

CallState ==
  [pc : {"idle", "sent", "accepted", "refreshing", "refreshed"},
   tab : Tabs \cup {NoTab}, kind : Kinds \cup {"none"}, user : Users \cup {NoUser},
   token : Token \cup {NoToken},  \* the token sent or received last
   retried : BOOLEAN,             \* originalRequest._retry
   executed : Nat]                \* history: how often the server did what was asked

NoCall ==
  [pc |-> "idle", tab |-> NoTab, kind |-> "none", user |-> NoUser, token |-> NoToken,
   retried |-> FALSE, executed |-> 0]

\* A tab is in phase "leaving" when its location is set and the page not loaded yet,
\* and in "asking" while initAuth waits for getMe, which is what isLoading says.
TabState ==
  [user : Users \cup {NoUser}, phase : {"leaving", "asking", "ready"}, view : {"page", "login"}]

isLoading(t) == tab[t].phase = "asking"
isAuthenticated(t) == tab[t].user # NoUser
Idle(c) == call[c].pc = "idle"

Init ==
  /\ now = 0
  /\ stored \in {NoToken} \cup [user : Users, at : {0}]
  /\ tab = [t \in Tabs |-> [user |-> NoUser, phase |-> "leaving", view |-> "login"]]
  /\ call = [c \in Calls |-> NoCall]
  /\ overlap = FALSE
  /\ lost = 0

-----------------------------------------------------------------------------
(* localStorage                                                            *)

\* Somebody besides tab t and its calls counts on the account that is stored.
OtherTabsCount(t) ==
  \/ \E s \in Tabs \ {t} : tab[s].user # NoUser
  \/ \E d \in Calls : ~Idle(d) /\ call[d].tab # t

OtherCallsCount(t, done) ==
  \/ OtherTabsCount(t)
  \/ \E d \in Calls \ done : ~Idle(d)

\* Both items are written, or removed, in one turn of the event loop.
StoreTokens(token, others) ==
  /\ stored' = token
  /\ overlap' = (overlap \/ (token.user # stored.user /\ others))

KeepTokens == UNCHANGED <<stored, overlap>>

-----------------------------------------------------------------------------
(* Calls                                                                   *)

\* apiClient attaches the stored access token to every request (which the two routes
\* behind the login form do not look at).
Request(t, kind, user) ==
  [pc |-> "sent", tab |-> t, kind |-> kind, user |-> user,
   token |-> IF kind = "signIn" THEN NoToken ELSE stored, retried |-> FALSE, executed |-> 0]

Send(t, kind, user) ==
  \E c \in Calls : Idle(c) /\ call' = [call EXCEPT ![c] = Request(t, kind, user)]

CallAt(c, pc, token) == call' = [call EXCEPT ![c].pc = pc, ![c].token = token]
EndCall(c) == call' = [call EXCEPT ![c] = NoCall]

PhaseAfterMe(t) == IF tab[t].phase = "leaving" THEN "leaving" ELSE "ready"

-----------------------------------------------------------------------------
(* Variants with a seeded bug. No action uses them: each stands for a      *)
(* plausible slip in the operation it is named after.                      *)

\* _retry is not set.
InterceptForgets(c) ==
  /\ call[c].pc = "sent" /\ (call[c].kind = "signIn" \/ ~AccessValid(call[c].token))
  /\ ~call[c].retried
  /\ stored # NoToken
  /\ call' = [call EXCEPT ![c].pc = "refreshing", ![c].token = stored]
  /\ UNCHANGED <<now, stored, tab, overlap, lost>>

\* Any failure is taken for a 401, that of an answer on its way back included.
InterceptEveryError(c) ==
  /\ call[c].pc \in {"sent", "accepted"}
  /\ ~call[c].retried
  /\ stored # NoToken
  /\ call' = [call EXCEPT ![c].pc = "refreshing", ![c].token = stored, ![c].retried = TRUE]
  /\ UNCHANGED <<now, stored, tab, overlap, lost>>

\* The tokens go, and the page stays.
AfterErrorStays(c, leaving) ==
  tab' = [tab EXCEPT
    ![call[c].tab].user = IF call[c].kind = "me" THEN NoUser ELSE @,
    ![call[c].tab].phase = IF call[c].kind = "me" THEN PhaseAfterMe(call[c].tab) ELSE @]

\* A refresh revokes the token it was asked with, as rotation is usually understood.
RefreshRefusedWhenReplaced(c) ==
  /\ call[c].pc = "refreshing"
  /\ ~RefreshValid(call[c].token) \/ call[c].token # stored
  /\ StoreTokens(NoToken, OtherTabsCount(call[c].tab))
  /\ tab' = [tab EXCEPT ![call[c].tab].phase = "leaving"]
  /\ EndCall(c)
  /\ UNCHANGED <<now, lost>>

\* Logging out forgets the tokens and not the user.
LogoutKeepsUser(t) ==
  /\ isAuthenticated(t)
  /\ StoreTokens(NoToken, OtherCallsCount(t, {}))
  /\ UNCHANGED <<now, tab, call, lost>>

-----------------------------------------------------------------------------
(* The server                                                              *)

Issued(user) == [user |-> user, at |-> now]

\* The server consents: middleware.Auth finds a valid access token, the password is
\* right, the address is not taken yet.
Serve(c) ==
  /\ call[c].pc = "sent"
  /\ \/ /\ call[c].kind \in {"me", "page"}
        /\ AccessValid(call[c].token)
        /\ call' = [call EXCEPT ![c].pc = "accepted", ![c].executed = @ + 1]
     \/ /\ call[c].kind = "signIn"
        /\ call' = [call EXCEPT ![c].pc = "accepted", ![c].executed = @ + 1,
                                ![c].token = Issued(call[c].user)]
  /\ UNCHANGED <<now, stored, tab, overlap, lost>>

\* The server answers 401.
Unauthorized(c) ==
  /\ call[c].pc = "sent"
  /\ \/ call[c].kind \in {"me", "page"} /\ ~AccessValid(call[c].token)
     \/ call[c].kind = "signIn"

\* RefreshToken checks signature, age and type, and revokes nothing.
Refresh(c) ==
  /\ call[c].pc = "refreshing"
  /\ RefreshValid(call[c].token)
  /\ CallAt(c, "refreshed", Issued(call[c].token.user))
  /\ UNCHANGED <<now, stored, tab, overlap, lost>>

-----------------------------------------------------------------------------
(* The response interceptor and the code that waits for the call           *)

\* A 401 is answered by a refresh, once per call, with the token stored by then.
Intercept(c) ==
  /\ Unauthorized(c)
  /\ ~call[c].retried
  /\ stored # NoToken
  /\ call' = [call EXCEPT ![c].pc = "refreshing", ![c].token = stored, ![c].retried = TRUE]
  /\ UNCHANGED <<now, stored, tab, overlap, lost>>

\* The new pair is stored, whatever is stored by now, and the request sent again.
Resend(c) ==
  /\ call[c].pc = "refreshed"
  /\ StoreTokens(call[c].token, OtherCallsCount(call[c].tab, {c}))
  /\ CallAt(c, "sent", call[c].token)
  /\ UNCHANGED <<now, tab, lost>>

\* What an error means to the code that made the call: getMe leaves nobody signed in,
\* the login form can be submitted again, pages log it or show it themselves.
AfterError(c, leaving) ==
  LET t == call[c].tab
      kind == call[c].kind
  IN tab' = [tab EXCEPT
       ![t].user = IF kind = "me" THEN NoUser ELSE @,
       ![t].phase = IF leaving THEN "leaving" ELSE IF kind = "me" THEN PhaseAfterMe(t) ELSE @]

\* The tokens go, the browser is sent to /login, and the caller gets the first error.
RefreshRejected(c) ==
  /\ call[c].pc \in {"refreshing", "refreshed"}
  /\ StoreTokens(NoToken, OtherTabsCount(call[c].tab))
  /\ AfterError(c, TRUE)
  /\ EndCall(c)
  /\ UNCHANGED now

RefreshRefused(c) ==
  /\ call[c].pc = "refreshing"
  /\ ~RefreshValid(call[c].token)
  /\ RefreshRejected(c)
  /\ UNCHANGED lost

\* Every other error reaches the caller; that of getMe removes the tokens.
Reject(c) ==
  /\ IF call[c].kind = "me"
     THEN StoreTokens(NoToken, OtherCallsCount(call[c].tab, {c}))
     ELSE KeepTokens
  /\ AfterError(c, FALSE)
  /\ EndCall(c)
  /\ UNCHANGED now

\* A 401 that may not be, or cannot be, followed by a refresh, and the 409 of an address
\* that is taken.
Refused(c) ==
  /\ \/ Unauthorized(c) /\ (call[c].retried \/ stored = NoToken)
     \/ call[c].pc = "sent" /\ call[c].kind = "signIn"
  /\ Reject(c)
  /\ UNCHANGED lost

\* The network fails, or the server says 500: before or after it did what was asked.
Lose == lost < MaxLost /\ lost' = lost + 1

CallLost(c) ==
  /\ call[c].pc \in {"sent", "accepted"}
  /\ Reject(c)
  /\ Lose

RefreshLost(c) == RefreshRejected(c) /\ Lose

\* initAuth learns who the tokens belong to.
GetMeAnswered(c) ==
  /\ call[c].pc = "accepted" /\ call[c].kind = "me"
  /\ tab' = [tab EXCEPT ![call[c].tab].user = call[c].token.user,
                        ![call[c].tab].phase = PhaseAfterMe(call[c].tab)]
  /\ EndCall(c)
  /\ KeepTokens
  /\ UNCHANGED <<now, lost>>

PageAnswered(c) ==
  /\ call[c].pc = "accepted" /\ call[c].kind = "page"
  /\ EndCall(c)
  /\ KeepTokens
  /\ UNCHANGED <<now, tab, lost>>

\* login and register save the tokens, set the user and lead to the dashboard.
SignedIn(c) ==
  /\ call[c].pc = "accepted" /\ call[c].kind = "signIn"
  /\ StoreTokens(call[c].token, OtherCallsCount(call[c].tab, {c}))
  /\ tab' = [tab EXCEPT ![call[c].tab].user = call[c].user, ![call[c].tab].view = "page"]
  /\ EndCall(c)
  /\ UNCHANGED <<now, lost>>

-----------------------------------------------------------------------------
(* Tabs                                                                    *)

\* A page is loaded: what was there dies with the calls it has made, and the effect of
\* AuthProvider asks whom the tokens belong to.
LoadTab(t, view) ==
  LET alive == [c \in Calls |-> IF call[c].tab = t THEN NoCall ELSE call[c]] IN
  /\ IF stored = NoToken
     THEN call' = alive
     ELSE \E c \in Calls :
            /\ alive[c] = NoCall
            /\ call' = [alive EXCEPT ![c] = Request(t, "me", NoUser)]
  /\ tab' = [tab EXCEPT ![t] =
       [user |-> NoUser, phase |-> IF stored = NoToken THEN "ready" ELSE "asking", view |-> view]]
  /\ KeepTokens
  /\ UNCHANGED <<now, lost>>

\* window.location.href = '/login' takes effect, or the tab has just been opened.
Unload(t) == tab[t].phase = "leaving" /\ LoadTab(t, "login")

\* The user, or the second UploadModal after an upload, reloads a page that has loaded.
Reload(t, view) == tab[t].phase = "ready" /\ LoadTab(t, view)

\* ProtectedRoute shows nothing while loading, and then the page or the way to /login.
ProtectedRoute(t) == tab[t].view = "page" /\ ~isLoading(t) /\ isAuthenticated(t)

\* A change of what a tab shows, and of nothing else.
Show(t, view) ==
  /\ tab' = [tab EXCEPT ![t].view = view]
  /\ KeepTokens
  /\ UNCHANGED <<now, call, lost>>

Redirect(t) ==
  /\ tab[t].view = "page"
  /\ ~isLoading(t)
  /\ ~isAuthenticated(t)
  /\ Show(t, "login")

\* The links of the navigation bar.
Navigate(t, view) ==
  /\ view # tab[t].view
  /\ view = "login" => ~isAuthenticated(t)
  /\ Show(t, view)

\* Any request of a dashboard or video page.
PageCall(t) ==
  /\ ProtectedRoute(t)
  /\ Send(t, "page", NoUser)
  /\ KeepTokens
  /\ UNCHANGED <<now, tab, lost>>

\* One attempt at a time per tab, which the button sees to unless the user navigates.
Submit(t, u) ==
  /\ tab[t].view = "login"
  /\ \A c \in Calls : call[c].tab = t => call[c].kind # "signIn"
  /\ Send(t, "signIn", u)
  /\ KeepTokens
  /\ UNCHANGED <<now, tab, lost>>

\* Offered to whoever is signed in; no request is made and none is cancelled.
Logout(t) ==
  /\ isAuthenticated(t)
  /\ StoreTokens(NoToken, OtherCallsCount(t, {}))
  /\ tab' = [tab EXCEPT ![t].user = NoUser]
  /\ UNCHANGED <<now, call, lost>>

Tick ==
  /\ now < MaxTime
  /\ now' = now + 1
  /\ UNCHANGED <<stored, tab, call, overlap, lost>>

ServerStep(c) == Serve(c) \/ Refresh(c)
AnswerStep(c) ==
  \/ Intercept(c) \/ Resend(c) \/ RefreshRefused(c) \/ Refused(c)
  \/ GetMeAnswered(c) \/ PageAnswered(c) \/ SignedIn(c)
Loss(c) == CallLost(c) \/ RefreshLost(c)
PageStep(t) == Unload(t) \/ Redirect(t)
UserStep(t) ==
  \/ PageCall(t) \/ Logout(t)
  \/ \E view \in {"page", "login"} : Navigate(t, view) \/ Reload(t, view)
  \/ \E u \in Users : Submit(t, u)

Next ==
  \/ \E c \in Calls : ServerStep(c) \/ AnswerStep(c) \/ Loss(c)
  \/ \E t \in Tabs : PageStep(t) \/ UserStep(t)
  \/ Tick

Spec == Init /\ [][Next]_vars

\* Servers answer, answers are handled, effects run and a location that was set is
\* loaded.  Nothing makes a user act, time pass, or an answer get lost.
Fairness ==
  /\ \A c \in Calls : WF_vars(ServerStep(c) \/ AnswerStep(c))
  /\ \A t \in Tabs : SF_vars(Unload(t)) /\ WF_vars(Redirect(t))

FairSpec == Spec /\ Fairness

-----------------------------------------------------------------------------
(* Properties                                                              *)

\* Every variable stays in its set.
TypeOK ==
  /\ now \in 0 .. MaxTime
  /\ stored \in Token \cup {NoToken}
  /\ tab \in [Tabs -> TabState]
  /\ call \in [Calls -> CallState]
  /\ overlap \in BOOLEAN
  /\ lost \in 0 .. MaxLost

\* The interceptor sends a request a second time only if the first was not carried
\* out: no upload, deletion or transcription is asked for once and done twice.
ExecutedOnce == \A c \in Calls : call[c].executed <= 1

\* What a tab shows as "Signed in as" is whom its requests are made for, as long as
\* the account in localStorage was never exchanged or removed while a call was on
\* its way or another tab relied on it.
ShowsOwnAccount ==
  ~overlap =>
    \A t \in Tabs : isAuthenticated(t) /\ tab[t].phase # "leaving" => stored.user = tab[t].user

\* A step that loses nothing removes the tokens only for a logout or because a token of
\* that very account has run out: the refresh token that a refresh was asked for with or,
\* after it, the new access token of a getMe that took too long.  However many calls of
\* however many tabs meet an expired access token together and refresh it at once, one of
\* them with a token that another has replaced, they do not end the session between them:
\* the server accepts a refresh token that was used before.  (A refresh that is judged
\* after its token has run out removes also a newer pair, stored meanwhile.)
SessionEndsForCause ==
  [][stored # NoToken /\ stored' = NoToken /\ lost' = lost =>
       \/ \E t \in Tabs : Logout(t)
       \/ \E c \in Calls :
            /\ overlap \/ call[c].token.user = stored.user
            /\ \/ call[c].pc = "refreshing" /\ ~RefreshValid(call[c].token)
               \/ call[c].kind = "me" /\ call[c].retried /\ ~AccessValid(call[c].token)]_vars

\* Every request of a page and every attempt to sign in comes back to the code that made
\* it: a 401 that no refresh cures, as that of a wrong password, is not refreshed for ever.
CallsEnd ==
  \A c \in Calls :
    call[c].kind \in {"page", "signIn"} ~> call[c].kind \notin {"page", "signIn"}

\* A tab whose refresh token has run out by the time it is needed stops showing its
\* user, however many requests are on their way, unless somebody signs in meanwhile.
DeadSessionEnds ==
  \A t \in Tabs, c \in Calls :
    (isAuthenticated(t) /\ call[c].tab = t /\ call[c].pc = "refreshing" /\ ~RefreshValid(call[c].token))
      ~> (~isAuthenticated(t) \/ RefreshValid(stored))
=============================================================================
