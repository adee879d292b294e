---------------------------- MODULE Reputationdbd ----------------------------
(***************************************************************************)
(* The daemon (cmd/reputationdbd/main.go, svc.go): how it comes up, serves *)
(* requests, stops on an interrupt or on the failure of a server, and lets *)
(* the requests it has accepted finish.                                    *)
(*                                                                         *)
(* It composes QueryService and FreeFetch; fetch/v1 is left to             *)
(* FetchService.  The errgroup has two goroutines per server: one in       *)
(* Serve, one that waits for the group's context and calls Shutdown.       *)
(*                                                                         *)
(* Left out: a daemon told to have no metrics server (--metrics-bind "")   *)
(* or no API server (--bind ""), connections that carry no request, and    *)
(* those in the listener's backlog, which nobody has accepted and Shutdown *)
(* refuses.                                                                *)
(***************************************************************************)
EXTENDS QueryService, FreeFetch

CONSTANTS
  MaxActive          \* bound: requests being served at once

ASSUME ActiveAssumption == MaxActive \in Nat

VARIABLES
  main,              \* where run is, or "gone" when there is no process
  srv,               \* srv[s]: what server s does
  stop,              \* the group's context is done: an interrupt, or a Serve failed
  failed,            \* the group has an error to return
  exit               \* how the last process ended

daemonVars == <<main, srv, stop, failed, exit>>
vars == <<queryVars, freeVars, daemonVars>>

Servers == {"api", "metrics"}
Requests == Queries \cup FreeRequests

\* r has been accepted and not been answered yet.
Active(r) == IF r \in Queries THEN stage[r] # "idle" ELSE at[r] # "idle"

Init ==
  /\ QueryInit /\ FreeInit
  /\ main = "listen"
  /\ srv = [s \in Servers |-> "off"]
  /\ stop = FALSE /\ failed = FALSE
  /\ exit = "none"

-----------------------------------------------------------------------------
(* main *)

\* The process ends; what it had open goes with it.
Die(how) ==
  /\ main' = "gone"
  /\ exit' = how
  /\ srv' = [s \in Servers |-> "off"]
  /\ stop' = FALSE /\ failed' = FALSE
  /\ QueryLost /\ FreeLost

Listen ==
  /\ main = "listen"
  /\ main' = "route"
  /\ srv' = [srv EXCEPT !.api = "listening"]
  /\ UNCHANGED <<queryVars, freeVars, stop, failed, exit>>

\* svc.Route has built the three services, and the API server is started.
Route ==
  /\ main = "route"
  /\ main' = "metrics"
  /\ srv' = [srv EXCEPT !.api = "serving"]
  /\ UNCHANGED <<queryVars, freeVars, stop, failed, exit>>

\* The metrics server is started.
Metrics ==
  /\ main = "metrics"
  /\ main' = "wait"
  /\ srv' = [srv EXCEPT !.metrics = "serving"]
  /\ UNCHANGED <<queryVars, freeVars, stop, failed, exit>>

\* A listener cannot be had, or a service cannot be built.  The metrics
\* listener comes last: its failure takes requests with it that the API server
\* has accepted already.
StartFails == main \in {"listen", "route", "metrics"} /\ Die("error")

\* g.Wait: every Serve and every Shutdown has returned.
Bug_Waited == \A s \in Servers : srv[s] \in {"closing", "done"}
Waited == \A s \in Servers : srv[s] = "done"

Return ==
  /\ main = "wait"
  /\ Waited
  /\ Die(IF failed THEN "error" ELSE "ok")

Kill == main # "gone" /\ Die("killed")

Restart ==
  /\ main = "gone"
  /\ main' = "listen"
  /\ exit' = "none"
  /\ UNCHANGED <<queryVars, freeVars, srv, stop, failed>>

\* An interrupt ends ctx, and the group's context is derived from it.
Interrupt ==
  /\ main # "gone" /\ ~stop
  /\ stop' = TRUE
  /\ UNCHANGED <<queryVars, freeVars, main, srv, failed, exit>>

Run == Listen \/ Route \/ Metrics \/ StartFails \/ Return

-----------------------------------------------------------------------------
(* The servers *)

\* Serve returns an error; the connections it has accepted go on.
ServeFails(s) ==
  /\ srv[s] = "serving"
  /\ srv' = [srv EXCEPT ![s] = "broken"]
  /\ stop' = TRUE /\ failed' = TRUE
  /\ UNCHANGED <<queryVars, freeVars, main, exit>>

\* What the goroutine in front of Shutdown waits for.
Bug_ShutdownDue == stop /\ ~failed
ShutdownDue == stop

\* Shutdown closes the listener and waits for what has been accepted.
Shutdown(s) ==
  /\ ShutdownDue
  /\ srv[s] \in {"serving", "broken"}
  /\ srv' = [srv EXCEPT ![s] = "closing"]
  /\ UNCHANGED <<queryVars, freeVars, main, stop, failed, exit>>

\* Shutdown returns when every connection is idle.
Drained(s) ==
  /\ srv[s] = "closing"
  /\ s = "api" => \A r \in Requests : ~Active(r)
  /\ srv' = [srv EXCEPT ![s] = "done"]
  /\ UNCHANGED <<queryVars, freeVars, main, stop, failed, exit>>

\* Ten seconds are over first.
DrainTimesOut(s) ==
  /\ srv[s] = "closing"
  /\ srv' = [srv EXCEPT ![s] = "done"]
  /\ failed' = TRUE
  /\ UNCHANGED <<queryVars, freeVars, main, stop, exit>>

Stopping(s) == Shutdown(s) \/ Drained(s) \/ DrainTimesOut(s)

-----------------------------------------------------------------------------
(* Requests *)

Accept(r) ==
  /\ srv.api = "serving"
  /\ Cardinality({s \in Requests : Active(s)}) < MaxActive
  /\ \/ r \in Queries /\ (\E raw \in Batches : AskQuery(r, raw)) /\ UNCHANGED freeVars
     \/ r \in FreeRequests /\ AskFree(r) /\ UNCHANGED queryVars
  /\ UNCHANGED <<main, srv, stop, failed, exit>>

HandleQuery(q) == QueryStep(q) /\ UNCHANGED <<freeVars, daemonVars>>
HandleFree(f) == FreeStep(f) /\ UNCHANGED <<queryVars, daemonVars>>

\* The cache's goroutine runs from Route on.
Refresh ==
  /\ main \in {"metrics", "wait"}
  /\ Install
  /\ UNCHANGED <<freeVars, daemonVars>>

Outside == (DeleteAsset \/ Upload \/ Tick) /\ UNCHANGED <<queryVars, daemonVars>>

-----------------------------------------------------------------------------
Next ==
  \/ Run
  \/ Kill \/ Restart \/ Interrupt
  \/ \E s \in Servers : ServeFails(s) \/ Stopping(s)
  \/ \E r \in Requests : Accept(r)
  \/ \E q \in Queries : HandleQuery(q)
  \/ \E f \in FreeRequests : HandleFree(f)
  \/ Refresh
  \/ Outside

Spec == Init /\ [][Next]_vars

\* Goroutines that can run do run, a mutex is handed to whoever waits for it,
\* Shutdown's timer fires.  Nobody has to ask, to upload, to interrupt, and
\* GitHub does not have to reply.
FairSpec ==
  /\ Spec
  /\ WF_vars(Run)
  /\ \A s \in Servers : WF_vars(Stopping(s))
  /\ \A q \in Queries : WF_vars(HandleQuery(q))
  /\ \A f \in FreeRequests :
       SF_vars((Lock(f) \/ StoreAsset(f) \/ AnswerFree(f)) /\ UNCHANGED <<queryVars, daemonVars>>)

-----------------------------------------------------------------------------
(* The inductive invariant *)

\* Types of the process, its servers and its errgroup.
DaemonTypeOK ==
  /\ main \in {"listen", "route", "metrics", "wait", "gone"}
  /\ srv \in [Servers -> {"off", "listening", "serving", "broken", "closing", "done"}]
  /\ stop \in BOOLEAN /\ failed \in BOOLEAN
  /\ exit \in {"none", "ok", "error", "killed"}

\* The API server's Shutdown has returned without an error only when nothing
\* was left to answer, and nothing has been accepted since.
DrainInv ==
  /\ main # "gone" => exit = "none"
  /\ main = "gone" => srv.api = "off"
  /\ srv.api = "done" /\ ~failed => \A r \in Requests : ~Active(r)

IInv == QueryInv /\ FreeInv /\ DaemonTypeOK /\ DrainInv

-----------------------------------------------------------------------------
(* Properties *)

\* A process that ends with success has answered every request it accepted: it
\* waits for both servers' Shutdown, not just for Serve to return
\* (main.go:80-95, 128).
DrainLosesNothing ==
  [][main # "gone" /\ exit' = "ok" => \A r \in Requests : ~Active(r)]_vars

\* An interrupt, or the failure of either server, ends the process: neither
\* server goes on alone (main.go:86-91, 117-122).
Ends == stop ~> main = "gone"

\* No call to GitHub goes on for ever: nothing in the program sees to that.
GitHubReplies == \A f \in FreeRequests : []<>(at[f] # "assets")

\* No accepted request stays unanswered for ever while the process runs.  Queries
\* do not, whatever the free service does; requests of the free service do not
\* as long as GitHub's calls return, so no error on the way leaves its mutex
\* locked (freefetch.go:74-120).
Answered ==
  /\ \A q \in Queries : []<>~Active(q)
  /\ GitHubReplies => \A f \in FreeRequests : []<>~Active(f)
=============================================================================
