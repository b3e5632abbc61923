----------------------------- MODULE Workspace -----------------------------
(* The tabs of a browser from their opening on. bootstrap.ts asks the server *)
(* whether it is ready, again and again, and then loads app.ts, which reads  *)
(* the query library (see QueryLibrary). A request is aborted when it takes  *)
(* too long, and its answer is then dropped. The server may be restarted,    *)
(* and a page reloaded, at any time.                                         *)
EXTENDS QueryLibrary

CONSTANTS
  MaxRestarts, \* bounds the restarts of the server
  MaxReloads,  \* bounds how often pages are reloaded
  MaxUses      \* bounds how often the query library is used

VARIABLES
  server,   \* what /api/ready answers, see Status
  restarts,
  reloads,
  uses,
  page,     \* [Tab -> where bootstrap.ts is]
  answer    \* [Tab -> the answer under way to the readiness request, or none]

Status == {"loading", "ok", "error"}

Page == {"asking",     \* in fetch
         "pausing",    \* for a second, before the next request
         "importing",  \* in import('./app')
         "open",
         "failed"}     \* showFailure, with its button to reload

pageVars == <<page, answer>>
serverVars == <<server, restarts>>
vars == <<libraryVars, serverVars, reloads, uses, pageVars>>

Init ==
  /\ LibraryInit
  /\ server = "loading" /\ restarts = 0 /\ reloads = 0 /\ uses = 0
  /\ page = [t \in Tab |-> "asking"]
  /\ answer = [t \in Tab |-> "none"]

-----------------------------------------------------------------------------
(* The server                                                                *)

(* RefreshCatalog or SetStartupError.                                        *)
Provisioned ==
  /\ server = "loading"
  /\ server' \in {"ok", "error"}
  /\ UNCHANGED <<libraryVars, restarts, reloads, pageVars, uses>>

Restart ==
  /\ server # "loading" /\ restarts < MaxRestarts
  /\ server' = "loading"
  /\ restarts' = restarts + 1
  /\ UNCHANGED <<libraryVars, reloads, pageVars, uses>>

(* readiness: the answer is that of this moment.                             *)
Readiness(t) ==
  /\ page[t] = "asking" /\ answer[t] = "none"
  /\ answer' = [answer EXCEPT ![t] = server]
  /\ UNCHANGED <<libraryVars, serverVars, reloads, page, uses>>

-----------------------------------------------------------------------------
(* waitUntilReady and start of bootstrap.ts                                  *)

(* Mutant: a deployment that is still being imported is opened.              *)
OpenedEarly(status) == IF status = "error" THEN "failed" ELSE "importing"

NextPage(status) ==
  CASE status = "ok" -> "importing"
    [] status = "error" -> "failed"
    [] status = "loading" -> "pausing"

Ready(t) ==
  /\ page[t] = "asking" /\ answer[t] # "none"
  /\ page' = [page EXCEPT ![t] = NextPage(answer[t])]
  /\ answer' = [answer EXCEPT ![t] = "none"]
  /\ UNCHANGED <<libraryVars, serverVars, reloads, uses>>

(* The request is aborted or refused, or its answer is not one of these.     *)
NotReady(t) ==
  /\ page[t] = "asking"
  /\ page' = [page EXCEPT ![t] = "pausing"]
  /\ answer' = [answer EXCEPT ![t] = "none"]
  /\ UNCHANGED <<libraryVars, serverVars, reloads, uses>>

AskAgain(t) ==
  /\ page[t] = "pausing"
  /\ page' = [page EXCEPT ![t] = "asking"]
  /\ UNCHANGED <<libraryVars, serverVars, reloads, answer, uses>>

(* app.ts runs: it reads the library.                                        *)
Import(t) ==
  /\ page[t] = "importing"
  /\ page' = [page EXCEPT ![t] = "open"]
  /\ ReadStored(t)
  /\ UNCHANGED <<serverVars, reloads, answer, uses>>

ImportFails(t) ==
  /\ page[t] = "importing"
  /\ page' = [page EXCEPT ![t] = "failed"]
  /\ UNCHANGED <<libraryVars, serverVars, reloads, answer, uses>>

(* The button of a failure, or the user's own reload.                        *)
Reload(t) ==
  /\ reloads < MaxReloads
  /\ reloads' = reloads + 1
  /\ page' = [page EXCEPT ![t] = "asking"]
  /\ answer' = [answer EXCEPT ![t] = "none"]
  /\ LeavePage(t)
  /\ UNCHANGED <<serverVars, uses>>

-----------------------------------------------------------------------------
UseLibrary(t) ==
  /\ page[t] = "open" /\ uses < MaxUses
  /\ uses' = uses + 1
  /\ Use(t)
  /\ UNCHANGED <<serverVars, reloads, pageVars>>

Next ==
  \/ Provisioned \/ Restart
  \/ \E t \in Tab :
       \/ Readiness(t) \/ Ready(t) \/ NotReady(t) \/ AskAgain(t)
       \/ Import(t) \/ ImportFails(t) \/ Reload(t)
       \/ UseLibrary(t)

(* The import of the deployment ends; timers and promises of a page are      *)
(* served; and a server that is asked again and again does answer in time,   *)
(* now and then.                                                             *)
Fairness ==
  /\ WF_vars(Provisioned)
  /\ \A t \in Tab :
       /\ WF_vars(AskAgain(t) \/ Import(t) \/ ImportFails(t))
       /\ SF_vars(Readiness(t)) /\ SF_vars(Ready(t))

Spec == Init /\ [][Next]_vars
FairSpec == Spec /\ Fairness

-----------------------------------------------------------------------------
(* A page never stays in front of a server that has come up: it opens, or    *)
(* shows the failure with its button to reload, however often requests are   *)
(* aborted; and it does not stay open on a deployment that could not be      *)
(* imported, unless the server was restarted under it (waitUntilReady and    *)
(* start of bootstrap.ts).                                                   *)
Settled(t) ==
  \/ page[t] = "failed"
  \/ page[t] = "open" /\ (server = "ok" \/ restarts > 0)
PageSettles == \A t \in Tab : page[t] = "asking" ~> Settled(t)
=============================================================================
