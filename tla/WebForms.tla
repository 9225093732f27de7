------------------------------- MODULE WebForms -------------------------------
(***************************************************************************)
(* The forms of the web pages, seen from one browser with several tabs:    *)
(* the double-submit cookie of csrf.go, the consent banner of consent.go,  *)
(* the site banners of announcements.go, and the forms of /server/contact  *)
(* and /server/privacy, here on one page.  The server keeps nothing: its    *)
(* answers depend on the cookies a request carries, and the browser keeps, *)
(* of two cookies of one name, the one that came last.                     *)
(***************************************************************************)
EXTENDS Naturals, FiniteSets

CONSTANTS
  Tabs,             \* the browser's tabs
  Announcements,    \* web.announcements.messages, all dismissible
  ExemptForms,      \* the forms whose paths csrf.exempt_paths matches
  MaxVisits,        \* bound: pages requested by the user
  MaxPosts,         \* bound: forms submitted
  MaxSessions       \* bound: times the browser is closed

ASSUME WebFormsAssumption ==
  /\ Announcements \cap {"page", "consent", "ccpa"} = {}
  /\ ExemptForms \subseteq {"page", "consent", "ccpa"} \cup Announcements
  /\ MaxVisits \in Nat /\ MaxPosts \in Nat /\ MaxSessions \in Nat

NoToken == 0

VARIABLES
  jar,        \* the browser's cookies: csrf_token, cookie_consent, dismissed_announcements, ccpa_opt_out
  tab,        \* tab[t]: the request in flight or the page shown
  issued,     \* tokens generated so far
  mails,      \* messages handed to the mail service
  visits, posts, sessions

formVars == <<jar, tab, issued, mails, visits, posts, sessions>>

Blank == [at |-> "blank", forms |-> <<>>, set |-> <<>>, early |-> FALSE]
Consents == {"accept", "decline", "preferences", "analytics"}   \* what cookie_consent may say

\* A cookie is there, and no page on its way brings another.
Settled ==
  /\ jar.csrf # NoToken
  /\ \A t \in Tabs : tab[t].at = "loading" => "csrf" \notin DOMAIN tab[t].set

With(cookies, set) == [c \in DOMAIN cookies |-> IF c \in DOMAIN set THEN set[c] ELSE cookies[c]]
-----------------------------------------------------------------------------
\* Each call makes a token of its own, whatever the request carries.
MutantcsrfToken(cookies, call) == issued + call

\* csrfToken: the request's cookie, or a new token for each call.
csrfToken(cookies, call) == IF cookies.csrf # NoToken THEN cookies.csrf ELSE issued + call

\* newPageData: csrfToken is called for the page, for the consent banner if it is
\* shown, and for the announcements if any are configured.
BannerCall == 2
NoticeCall(cookies) == IF cookies.consent = "none" THEN 3 ELSE 2
Calls(cookies) == NoticeCall(cookies) - (IF Announcements = {} THEN 1 ELSE 0)

\* activeAnnouncements: those in their window that this visitor has not dismissed.
activeAnnouncements(cookies, current) == current \ cookies.dismissed

\* The forms of the page, each with the token in its hidden field.
newPageData(cookies, current) ==
  LET notices == activeAnnouncements(cookies, current)
      banner == IF cookies.consent = "none" THEN {"consent"} ELSE {}
  IN  [f \in {"page", "ccpa"} \cup banner \cup notices |->
         CASE f \in {"page", "ccpa"} -> csrfToken(cookies, 1)
           [] f = "consent" -> csrfToken(cookies, BannerCall)
           [] f \in notices -> csrfToken(cookies, NoticeCall(cookies))]

\* The answer to a request for the page: its forms, and the cookie the browser keeps.
Page(cookies, current) ==
  [at |-> "loading", forms |-> newPageData(cookies, current),
   set |-> IF csrfToken(cookies, Calls(cookies)) = cookies.csrf THEN <<>>
           ELSE [csrf |-> csrfToken(cookies, Calls(cookies))],
   early |-> ~Settled]

Serve(t, cookies) ==
  /\ \E current \in SUBSET Announcements : tab' = [tab EXCEPT ![t] = Page(cookies, current)]
  /\ issued' = issued + Calls(cookies)
-----------------------------------------------------------------------------
FormsInit ==
  /\ jar = [csrf |-> NoToken, consent |-> "none", dismissed |-> {}, ccpa |-> FALSE]
  /\ tab = [t \in Tabs |-> Blank]
  /\ issued = 0 /\ mails = 0
  /\ visits = 0 /\ posts = 0 /\ sessions = 0

\* The user opens the page.
Visit(t) ==
  /\ tab[t].at \in {"blank", "shown", "refused"} /\ visits < MaxVisits
  /\ Serve(t, jar)
  /\ visits' = visits + 1
  /\ UNCHANGED <<jar, mails, posts, sessions>>

\* The page, or the error, arrives with its cookies.
Arrive(t) ==
  /\ tab[t].at \in {"loading", "refusing"}
  /\ jar' = With(jar, tab[t].set)
  /\ tab' = [tab EXCEPT ![t].at = IF @ = "loading" THEN "shown" ELSE "refused", ![t].set = <<>>]
  /\ UNCHANGED <<issued, mails, visits, posts, sessions>>

\* requireCSRF: what is not exempt shows the cookie's value in its form field.
Admitted(t, f) ==
  f \in ExemptForms \/ (jar.csrf # NoToken /\ tab[t].forms[f] = jar.csrf)

\* The cookies the handler of form f sets: handleConsent, handleCCPA,
\* handleAnnouncementDismiss, which adds to the cookie that the request carries.
Outcomes(f) ==
  CASE f = "consent" -> {[consent |-> c] : c \in Consents}
    [] f = "ccpa" -> {[ccpa |-> out] : out \in BOOLEAN}
    [] f \in Announcements -> {[dismissed |-> jar.dismissed \cup {f}]}

\* requireCSRF refuses the form: CSRF_FAILED.
Refuse(t, f) ==
  /\ tab[t].at = "shown" /\ f \in DOMAIN tab[t].forms /\ posts < MaxPosts
  /\ ~Admitted(t, f)
  /\ tab' = [tab EXCEPT ![t].at = "refusing"]
  /\ posts' = posts + 1
  /\ UNCHANGED <<jar, issued, mails, visits, sessions>>

\* The handler redirects back to the page; the browser follows with the cookies set.
Post(t, f) ==
  /\ tab[t].at = "shown" /\ f \in DOMAIN tab[t].forms \ {"page"} /\ posts < MaxPosts
  /\ Admitted(t, f)
  /\ \E set \in Outcomes(f) :
       tab' = [tab EXCEPT ![t] = [Blank EXCEPT !.at = "redirected", !.set = set]]
  /\ posts' = posts + 1
  /\ UNCHANGED <<jar, issued, mails, visits, sessions>>

Follow(t) ==
  /\ tab[t].at = "redirected"
  /\ jar' = With(jar, tab[t].set)
  /\ Serve(t, jar')
  /\ UNCHANGED <<mails, visits, posts, sessions>>

\* handleContactPage mails a complete message, if somebody receives them, and
\* answers with the page.
PostContact(t) ==
  /\ tab[t].at = "shown" /\ "page" \in DOMAIN tab[t].forms /\ posts < MaxPosts
  /\ Admitted(t, "page")
  /\ mails' \in {mails, mails + 1}
  /\ Serve(t, jar)
  /\ posts' = posts + 1
  /\ UNCHANGED <<jar, visits, sessions>>

\* The browser is closed: csrf_token is a session cookie, the others last a year.
CloseBrowser ==
  /\ sessions < MaxSessions
  /\ sessions' = sessions + 1
  /\ jar' = [jar EXCEPT !.csrf = NoToken]
  /\ tab' = [t \in Tabs |-> Blank]
  /\ UNCHANGED <<issued, mails, visits, posts>>

FormsNext ==
  \/ CloseBrowser
  \/ \E t \in Tabs :
       \/ Visit(t) \/ Arrive(t) \/ Follow(t) \/ PostContact(t)
       \/ \E f \in DOMAIN tab[t].forms : Refuse(t, f) \/ Post(t, f)

FormsSpec == FormsInit /\ [][FormsNext]_formVars
-----------------------------------------------------------------------------
FormsTypeOK ==
  /\ jar \in [csrf : 0..issued, consent : Consents \cup {"none"},
              dismissed : SUBSET Announcements, ccpa : BOOLEAN]
  /\ \A t \in Tabs :
       /\ tab[t].at \in {"blank", "loading", "shown", "redirected", "refusing", "refused"}
       /\ \A f \in DOMAIN tab[t].forms : tab[t].forms[f] \in 1..issued
  /\ mails \in 0..posts
  /\ visits \in 0..MaxVisits /\ posts \in 0..MaxPosts /\ sessions \in 0..MaxSessions

\* A form is refused only if its page was requested before the browser had settled on
\* a cookie: once one has arrived and no page that replaces it is under way, the forms
\* of every page requested afterwards are accepted, in whatever order the tabs load and
\* submit (csrfToken, requireCSRF).
SettledFormsWork ==
  \A t \in Tabs : tab[t].at \in {"refusing", "refused"} => tab[t].early

\* csrf.go:17-19, "the server-rendered form embeds the same value" as the cookie: the
\* forms of the page that has come last, with no other under way, show the cookie.
FormsMatchCookie ==
  \A t \in Tabs : tab[t].at = "shown" /\ (\A u \in Tabs \ {t} : tab[u].at = "blank") =>
    \A f \in DOMAIN tab[t].forms : tab[t].forms[f] = jar.csrf
=============================================================================
