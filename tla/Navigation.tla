----------------------------- MODULE Navigation -----------------------------
(***************************************************************************)
(* Where apps/web sends a browser: the middleware (middleware.ts), then the *)
(* guards of the pages (lib/auth/session.ts).  A browser has a session or   *)
(* not, and the local profile of whose it is has a role, or is missing.     *)
(***************************************************************************)

CONSTANT NoRole   \* the role of a missing profile

AuthScreens == {"/login", "/signup", "/forgot-password", "/reset-password"}

Protected == {"/dashboard", "/dashboard/cities", "/dashboard/telegram", "/admin", "/admin/users"}

Urls == {"/"} \cup AuthScreens \cup Protected

Middleware(url, session) ==
    CASE session /\ url \in AuthScreens -> "/dashboard"
      [] ~session /\ url \in Protected -> "/login"
      [] OTHER -> url

RootPage(session) == IF session THEN "/dashboard" ELSE "/login"

(* requireUser.                                                             *)
RequireUser(url, session, role) == IF session /\ role # NoRole THEN url ELSE "/login"

(* requireRole.                                                             *)
RequireRole(url, session, role, allowed) ==
    IF session /\ role # NoRole /\ role \notin allowed THEN "/dashboard"
    ELSE RequireUser(url, session, role)

Page(url, session, role) ==
    CASE url = "/" -> RootPage(session)
      [] url \in {"/admin", "/admin/users"} -> RequireRole(url, session, role, {"ADMIN"})
      [] url = "/dashboard/cities" -> RequireRole(url, session, role, {"ADMIN", "MODERATOR"})
      [] url \in {"/dashboard", "/dashboard/telegram"} -> RequireUser(url, session, role)
      [] OTHER -> url

(* One request: the url it is redirected to, or its own.                    *)
Hop(url, session, role) ==
    LET passed == Middleware(url, session)
    IN  IF passed # url THEN passed ELSE Page(url, session, role)

(* One redirect is enough, from wherever the browser starts.                *)
Settles(session, role) ==
    \A url \in Urls : LET first == Hop(url, session, role)
                      IN  Hop(first, session, role) = first
=============================================================================
