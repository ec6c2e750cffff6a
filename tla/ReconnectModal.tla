--------------------------- MODULE ReconnectModal ---------------------------
(***************************************************************************)
(* The dashboard's reconnect dialog (ReconnectModal.razor.js): what it does*)
(* when Blazor reports the state of the circuit, and the retries it runs,  *)
(* which overlap when the user clicks while one is under way.              *)
(*                                                                         *)
(* Blazor and the server are external.  Of them only what the comments of  *)
(* the script say is used: reconnect and resumeCircuit answer true, answer *)
(* false when the server is reached but has no circuit, or throw when it is*)
(* not reached.                                                            *)
(***************************************************************************)
EXTENDS Naturals

CONSTANT Attempts  \* calls of retry and resume that may be under way at a time

VARIABLES
  reachable,  \* the server can be reached
  server,     \* it holds the circuit, keeps its state for a resume, or neither
  circuit,    \* what Blazor does: up, trying, failed (it gave up) or paused
  class,      \* the class Blazor gives the dialog: which buttons are shown
  open,       \* the dialog is open
  listening,  \* retryWhenDocumentBecomesVisible is registered
  visible,    \* document.visibilityState
  reloading,  \* location.reload() was called
  attempt     \* attempt[a]: what the call awaits

external == <<reachable, server, circuit>>
dialog   == <<class, open>>
modalVars == <<external, dialog, listening, visible, reloading, attempt>>

\* The types of the variables.
ModalTypeOK ==
  /\ reachable \in BOOLEAN
  /\ server \in {"holds", "keeps", "lost"}
  /\ circuit \in {"up", "trying", "failed", "paused"}
  /\ class \in {"hide", "show", "failed", "paused", "resume-failed"}
  /\ open \in BOOLEAN
  /\ listening \in BOOLEAN
  /\ visible \in BOOLEAN
  /\ reloading \in BOOLEAN
  /\ attempt \in [Attempts -> {"idle", "reconnect", "resumeAfterReconnect", "resume"}]

\* The page is loaded with a circuit of its own; the script runs.
ModalInit ==
  /\ reachable = TRUE /\ visible = TRUE
  /\ server = "holds" /\ circuit = "up"
  /\ class = "hide" /\ open = FALSE
  /\ listening = FALSE /\ reloading = FALSE
  /\ attempt = [a \in Attempts |-> "idle"]

\* The page is loaded again.  A reload that does not reach the server leaves an
\* error page, which the browser or the user loads again.
Reload ==
  /\ reloading /\ reachable
  /\ server' = "holds" /\ circuit' = "up"
  /\ class' = "hide" /\ open' = FALSE
  /\ listening' = FALSE /\ reloading' = FALSE
  /\ attempt' = [a \in Attempts |-> "idle"]
  /\ UNCHANGED <<reachable, visible>>

-----------------------------------------------------------------------------
(* The network, the server and Blazor; the events Blazor dispatches. *)

\* The network comes and goes, also while the page is being loaded again.
Reach ==
  /\ reachable' = ~reachable
  /\ UNCHANGED <<server, circuit, dialog, listening, visible, reloading, attempt>>

Forget ==
  /\ ~reloading /\ circuit # "up"
  /\ server' = IF server = "holds" THEN "keeps" ELSE "lost"
  /\ UNCHANGED <<reachable, circuit, dialog, listening, visible, reloading, attempt>>

\* The event "show".
Drop ==
  /\ ~reloading /\ circuit = "up"
  /\ circuit' = "trying" /\ class' = "show" /\ open' = TRUE
  /\ UNCHANGED <<reachable, server, listening, visible, reloading, attempt>>

\* The event "hide".
Rejoin ==
  /\ ~reloading /\ circuit = "trying" /\ reachable /\ server = "holds"
  /\ circuit' = "up" /\ class' = "hide" /\ open' = FALSE
  /\ UNCHANGED <<reachable, server, listening, visible, reloading, attempt>>

\* The event "failed".
GiveUp ==
  /\ ~reloading /\ circuit = "trying"
  /\ circuit' = "failed" /\ class' = "failed" /\ listening' = TRUE
  /\ UNCHANGED <<reachable, server, open, visible, reloading, attempt>>

\* The event "rejected".
Reject ==
  /\ ~reloading /\ circuit = "trying" /\ reachable /\ server # "holds"
  /\ reloading' = TRUE
  /\ UNCHANGED <<external, dialog, listening, visible, attempt>>

\* The server pauses the circuit.  The handler ignores that event; Blazor may
\* open the dialog.
Pause ==
  /\ ~reloading /\ circuit = "up" /\ reachable
  /\ circuit' = "paused" /\ server' = "keeps" /\ class' = "paused"
  /\ open' \in {open, TRUE}
  /\ UNCHANGED <<reachable, listening, visible, reloading, attempt>>

-----------------------------------------------------------------------------
(* retry and resume, up to their first await. *)

Retry(a) ==
  /\ attempt[a] = "idle"
  /\ attempt' = [attempt EXCEPT ![a] = "reconnect"]
  /\ listening' = FALSE

ClickRetry(a) ==
  /\ ~reloading /\ class = "failed"
  /\ Retry(a)
  /\ UNCHANGED <<external, dialog, visible, reloading>>

ClickResume(a) ==
  /\ ~reloading /\ class \in {"paused", "resume-failed"} /\ open
  /\ attempt[a] = "idle"
  /\ attempt' = [attempt EXCEPT ![a] = "resume"]
  /\ UNCHANGED <<external, dialog, listening, visible, reloading>>

Hide ==
  /\ ~reloading /\ visible
  /\ visible' = FALSE
  /\ UNCHANGED <<external, dialog, listening, reloading, attempt>>

\* A mutant: the handler tries when the document is hidden.
ShowWithoutRetry ==
  /\ ~reloading /\ ~visible
  /\ visible' = TRUE
  /\ UNCHANGED <<external, dialog, listening, reloading, attempt>>

\* retryWhenDocumentBecomesVisible, if it is registered.
Show ==
  /\ ~reloading /\ ~visible
  /\ visible' = TRUE
  /\ IF listening THEN \E a \in Attempts : Retry(a)
     ELSE UNCHANGED <<listening, attempt>>
  /\ UNCHANGED <<external, dialog, reloading>>

-----------------------------------------------------------------------------
(* What is awaited ends.  A connected circuit answers true at once. *)

Done(a) == attempt' = [attempt EXCEPT ![a] = "idle"]

\* Blazor's circuit is up again: "hide", or close() in the script.
Restored ==
  /\ circuit' = "up" /\ server' = "holds" /\ class' = "hide" /\ open' = FALSE
  /\ UNCHANGED <<reachable, listening, reloading>>

\* A mutant: a retry that does not reach the server forgets to wait.
ThrowsForgetting(a) ==
  /\ attempt[a] \in {"reconnect", "resumeAfterReconnect"}
  /\ ~reachable
  /\ Done(a)
  /\ UNCHANGED <<external, dialog, listening, reloading>>

\* The catch of retry.
Throws(a) ==
  /\ attempt[a] \in {"reconnect", "resumeAfterReconnect"}
  /\ ~reachable
  /\ listening' = TRUE
  /\ Done(a)
  /\ UNCHANGED <<external, dialog, reloading>>

\* The catch of resume: classList.replace.
ResumeThrows(a) ==
  /\ attempt[a] = "resume"
  /\ ~reachable
  /\ class' = IF class = "paused" THEN "resume-failed" ELSE class
  /\ Done(a)
  /\ UNCHANGED <<external, open, listening, reloading>>

Succeeds(a) ==
  /\ attempt[a] # "idle" /\ reachable
  /\ circuit = "up" \/ server = "holds" \/ (attempt[a] # "reconnect" /\ server = "keeps")
  /\ Restored
  /\ Done(a)

\* reconnect answers false: retry goes on to resumeCircuit.
NotReconnected(a) ==
  /\ attempt[a] = "reconnect" /\ reachable
  /\ circuit # "up" /\ server # "holds"
  /\ attempt' = [attempt EXCEPT ![a] = "resumeAfterReconnect"]
  /\ UNCHANGED <<external, dialog, listening, reloading>>

NotResumed(a) ==
  /\ attempt[a] \in {"resumeAfterReconnect", "resume"} /\ reachable
  /\ circuit # "up" /\ server = "lost"
  /\ reloading' = TRUE
  /\ Done(a)
  /\ UNCHANGED <<external, dialog, listening>>

Answer(a) ==
  /\ ~reloading
  /\ \/ Throws(a) \/ ResumeThrows(a) \/ Succeeds(a)
     \/ NotReconnected(a) \/ NotResumed(a)
  /\ UNCHANGED visible

ModalNext ==
  \/ Reach \/ Forget \/ Drop \/ Rejoin \/ GiveUp \/ Reject \/ Pause
  \/ Hide \/ Show \/ Reload
  \/ \E a \in Attempts : ClickRetry(a) \/ ClickResume(a) \/ Answer(a)

ModalSpec == ModalInit /\ [][ModalNext]_modalVars

\* The browser ends what is awaited and reloads; the user leaves the page and
\* comes back to it again and again.  Nothing is assumed of the network.
ModalFairSpec ==
  /\ ModalSpec
  /\ WF_modalVars(Hide) /\ WF_modalVars(Show) /\ WF_modalVars(Reload)
  /\ \A a \in Attempts : WF_modalVars(Answer(a))

-----------------------------------------------------------------------------
\* When Blazor has given up, something of the script still waits: the listener
\* or a retry that is under way, however many of them overlap and fail.
NoDeadEnd ==
  circuit = "failed" /\ ~reloading =>
    listening \/ \E a \in Attempts : attempt[a] \in {"reconnect", "resumeAfterReconnect"}

\* Once the server can be reached for good, a user who comes back to the page
\* gets it working again without pressing a button, by the old or a new circuit.
ComesBack == <>[]reachable => (circuit = "failed" ~> circuit = "up")
=============================================================================
