---------------------------- MODULE ExtensionLink ----------------------------
(***************************************************************************)
(* A VS Code window and the daemon of its folder: IpcClient                *)
(* (extension/src/ipc/client.ts), WorkspaceRegistration (registration.ts), *)
(* pairing (discovery.ts) and the trust prompt on the window's side,       *)
(* composed with the connections and the active registry of IpcRegistry on *)
(* the daemon's, over one channel in each direction per connection.        *)
(*                                                                         *)
(* All windows have the folder of the daemon open: pairing lets no other   *)
(* one connect.  A message's handler, and the promise reactions it starts, *)
(* are one action.  Windows close and reload and the daemon dies and       *)
(* starts again at any time; the two ends of a connection learn that the   *)
(* other is gone when they have read what it sent.                         *)
(***************************************************************************)
EXTENDS IpcRegistry, Sequences

CONSTANT Windows

ASSUME ExtensionLinkAssumption == Paths # {}

VARIABLES
  up,        \* the daemon listens
  saved,     \* workspaces.json has the folder
  serving,   \* connections whose menu request awaits a write
  toDaemon,  \* toDaemon[s]: messages on their way to the daemon
  toWindow,  \* toWindow[s]: messages on their way to the window
  win,       \* win[w]: the extension in window w
  granted    \* history: someone has clicked Trust

linkVars == <<registryVars, up, saved, serving, toDaemon, toWindow, win, granted>>

-----------------------------------------------------------------------------
(* The folder of the windows and of the daemon: pairing compares the       *)
(* identity of the one with the advert of the other.                       *)
Folder == CHOOSE p \in Paths : TRUE

(* What a window sends; a menu request is unbind_workspace or              *)
(* set_granularity, whose replies await the token store.                   *)
Requests == {"hello", "register", "confirm", "deregister", "menu", "stop"}

(* What the daemon answers; failed stands for any other error. *)
Replies == {"hello_ok", "registered", "needs_trust", "duplicate", "deregistered",
            "menu_ok", "stop_ok", "failed"}

RegistrationStates ==
  {"unregistered", "registering", "registered", "needs_trust", "trust_denied", "duplicate"}

WindowRecord ==
  [link   : {"closed", "unpaired", "disconnected", "connecting", "connected"},
   sock   : Sockets \cup {None},
   reg    : RegistrationStates,
   known  : BOOLEAN,                                   \* identifier is set
   flight : {"none", "asking", "prompt", "confirming"},  \* WorkspaceRegistration.inFlight
   slot   : {"none", "register", "confirm", "menu"},     \* IpcClient.pending
   told   : BOOLEAN]                                   \* history: stop was sent on sock

ClosedWindow == [link |-> "closed", sock |-> None, reg |-> "unregistered", known |-> FALSE,
                 flight |-> "none", slot |-> "none", told |-> FALSE]

LinkTypeOK ==
  /\ RegistryTypeOK
  /\ up \in BOOLEAN /\ saved \in BOOLEAN /\ granted \in BOOLEAN
  /\ serving \subseteq Sockets
  /\ toDaemon \in [Sockets -> Seq(Requests)]
  /\ toWindow \in [Sockets -> Seq(Replies)]
  /\ win \in [Windows -> WindowRecord]

LinkInit ==
  /\ RegistryInit
  /\ up = FALSE
  /\ saved = Trusted(Folder)
  /\ serving = {}
  /\ toDaemon = [s \in Sockets |-> <<>>]
  /\ toWindow = [s \in Sockets |-> <<>>]
  /\ win = [w \in Windows |-> ClosedWindow]
  /\ granted = FALSE

Open(w) == win[w].link # "closed"

(* The window's end of s is open. *)
Owned(s) == \E w \in Windows : win[w].sock = s

(* A name for a new connection. *)
Free(s) ==
  /\ ~Owned(s) /\ conn[s] = "closed"
  /\ toDaemon[s] = <<>> /\ toWindow[s] = <<>> /\ s \notin serving

(* Everything but the channels and the windows. *)
daemonVars == <<registryVars, up, saved, serving>>

-----------------------------------------------------------------------------
(* The window's side.                                                      *)

(* A line written to s; to a daemon that has gone it goes nowhere. *)
Sent(s, kind) ==
  IF conn[s] = "closed" THEN toDaemon ELSE [toDaemon EXCEPT ![s] = Append(@, kind)]

(* request(): the line is written and the slot is taken. *)
Request(w, kind, rec) ==
  /\ win' = [win EXCEPT ![w] = [rec EXCEPT !.slot = kind]]
  /\ toDaemon' = Sent(rec.sock, kind)

(* activate(): register() finds no connection yet and stays registering;   *)
(* pairing starts.                                                         *)
Activate(w) ==
  /\ ~Open(w)
  /\ win' = [win EXCEPT ![w].link = "unpaired", ![w].reg = "registering"]
  /\ UNCHANGED <<daemonVars, toDaemon, toWindow, granted>>

(* doConnect(), on the first matching advert or when the reconnect timer   *)
(* fires: connected, and hello sent.                                       *)
Dial(w, s) ==
  /\ win[w].link \in {"unpaired", "disconnected"}
  /\ up /\ Free(s)
  /\ Connect(s)
  /\ win' = [win EXCEPT ![w].link = "connecting", ![w].sock = s, ![w].told = FALSE]
  /\ toDaemon' = [toDaemon EXCEPT ![s] = <<"hello">>]
  /\ UNCHANGED <<up, saved, serving, toWindow, granted>>

(* The advert is stale: refused, and from now on the timer tries again. *)
DialRefused(w) ==
  /\ win[w].link = "unpaired"
  /\ ~up
  /\ win' = [win EXCEPT ![w].link = "disconnected"]
  /\ UNCHANGED <<daemonVars, toDaemon, toWindow, granted>>

(* Fault: a window that believes it is registered does not ask again. *)
RearmedNever(reg) == reg

(* onConnectionStateChanged, not connected: a registered window will ask   *)
(* again on the next connect; the decisions of the user and the daemon     *)
(* stand.                                                                  *)
Rearmed(reg) == IF reg = "registered" THEN "registering" ELSE reg

(* handleDisconnect and what hangs on it: the pending request is rejected, *)
(* and a window whose confirm_trust was pending registers again; an open   *)
(* prompt stays open.                                                      *)
Disconnected(rec) ==
  [rec EXCEPT !.link = "disconnected", !.sock = None, !.slot = "none",
              !.reg = IF rec.slot = "confirm" THEN "registering" ELSE Rearmed(@),
              !.flight = IF @ = "prompt" THEN @ ELSE "none"]

(* The socket closes, after what the daemon has written. *)
SocketCloses(w) ==
  /\ win[w].sock # None
  /\ conn[win[w].sock] = "closed" /\ toWindow[win[w].sock] = <<>>
  /\ win' = [win EXCEPT ![w] = Disconnected(@)]
  /\ UNCHANGED <<daemonVars, toDaemon, toWindow, granted>>

(* The first line of the daemon is taken off the channel. *)
Reads(w, m) ==
  /\ win[w].sock # None
  /\ toWindow[win[w].sock] # <<>>
  /\ m = Head(toWindow[win[w].sock])
  /\ toWindow' = [toWindow EXCEPT ![win[w].sock] = Tail(@)]

(* attemptRegisterIfConnected: one attempt at a time. *)
Asks(rec) == rec.reg = "registering" /\ rec.flight = "none"

(* hello_ok: connected; a window that is registering sends its request. *)
HelloOk(w) ==
  /\ Reads(w, "hello_ok")
  /\ win[w].link = "connecting"
  /\ LET rec == [win[w] EXCEPT !.link = "connected"] IN
       IF Asks(rec)
       THEN Request(w, "register", [rec EXCEPT !.flight = "asking"])
       ELSE win' = [win EXCEPT ![w] = rec] /\ UNCHANGED toDaemon
  /\ UNCHANGED <<daemonVars, granted>>

(* handleRegisterResponse, of either request. *)
Outcome(rec, m) ==
  CASE m = "registered"  -> [rec EXCEPT !.reg = "registered", !.known = TRUE, !.flight = "none"]
    [] m = "duplicate"   -> [rec EXCEPT !.reg = "duplicate", !.flight = "none"]
    [] m = "needs_trust" -> [rec EXCEPT !.reg = "needs_trust", !.flight = "prompt"]
    [] OTHER             -> [rec EXCEPT !.flight = "none"]

(* Any other line answers the pending request, whichever that is, or is    *)
(* dropped.                                                                *)
Response(w, m) ==
  /\ Reads(w, m)
  /\ win[w].link = "connected"
  /\ LET rec == [win[w] EXCEPT !.slot = "none"] IN
       win' = [win EXCEPT ![w] =
                 IF win[w].slot \in {"register", "confirm"} THEN Outcome(rec, m) ELSE rec]
  /\ UNCHANGED <<daemonVars, toDaemon, granted>>

(* Fault: a prompt that is dismissed counts as Trust. *)
PromptDismissedTrusts(w) ==
  /\ win[w].flight = "prompt"
  /\ IF win[w].link = "connected" /\ win[w].slot = "none"
     THEN Request(w, "confirm", [win[w] EXCEPT !.flight = "confirming"])
     ELSE /\ win' = [win EXCEPT ![w].reg = "registering", ![w].flight = "none"]
          /\ UNCHANGED toDaemon
  /\ UNCHANGED <<daemonVars, toWindow, granted>>

(* The trust prompt is denied or dismissed. *)
PromptDenied(w) ==
  /\ win[w].flight = "prompt"
  /\ win' = [win EXCEPT ![w].reg = "trust_denied", ![w].flight = "none"]
  /\ UNCHANGED <<daemonVars, toDaemon, toWindow, granted>>

(* Trust: confirm_trust is sent on whatever connection there is now; if    *)
(* there is none the window is registering again.                          *)
PromptTrusted(w) ==
  /\ win[w].flight = "prompt"
  /\ granted' = TRUE
  /\ IF win[w].link = "connected" /\ win[w].slot = "none"
     THEN Request(w, "confirm", [win[w] EXCEPT !.flight = "confirming"])
     ELSE /\ win' = [win EXCEPT ![w].reg = "registering", ![w].flight = "none"]
          /\ UNCHANGED toDaemon
  /\ UNCHANGED <<daemonVars, toWindow>>

(* The user is not in front of a modal prompt. *)
MenuUsable(w) == win[w].link = "connected" /\ win[w].flight # "prompt"

(* Fault: the slot is taken over while it is in use. *)
MenuTakesSlot(w) ==
  /\ MenuUsable(w) /\ win[w].known
  /\ "menu" \notin {toDaemon[win[w].sock][i] : i \in 1..Len(toDaemon[win[w].sock])}
  /\ Request(w, "menu", win[w])
  /\ UNCHANGED <<daemonVars, toWindow, granted>>

(* Unbind or Set approval mode; rejected while another request is pending. *)
Menu(w) ==
  /\ MenuUsable(w) /\ win[w].known
  /\ win[w].slot = "none"
  /\ Request(w, "menu", win[w])
  /\ UNCHANGED <<daemonVars, toWindow, granted>>

(* Stop daemon: sent without taking the slot.  Bound: once per connection. *)
StopDaemon(w) ==
  /\ MenuUsable(w) /\ ~win[w].told
  /\ toDaemon' = Sent(win[w].sock, "stop")
  /\ win' = [win EXCEPT ![w].told = TRUE]
  /\ UNCHANGED <<daemonVars, toWindow, granted>>

(* deregister(): best effort. *)
Farewell(w) ==
  IF /\ win[w].link = "connected" /\ win[w].reg = "registered" /\ win[w].slot = "none"
     /\ conn[win[w].sock] # "closed"
  THEN <<"deregister">> ELSE <<>>

(* The window closes, reloads or crashes.  dispose() deregisters, if it    *)
(* gets to run, and destroys the socket; part of what has been written may *)
(* never leave.                                                            *)
WindowCloses(w) ==
  /\ Open(w)
  /\ win' = [win EXCEPT ![w] = ClosedWindow]
  /\ LET s == win[w].sock
         sent == toDaemon[s] \o Farewell(w)
     IN  IF s = None THEN UNCHANGED <<toDaemon, toWindow>>
         ELSE /\ toWindow' = [toWindow EXCEPT ![s] = <<>>]
              /\ \E n \in 0..Len(sent) : toDaemon' = [toDaemon EXCEPT ![s] = SubSeq(sent, 1, n)]
  /\ UNCHANGED <<daemonVars, granted>>

-----------------------------------------------------------------------------
(* The daemon's side.                                                      *)

(* The first line of s is taken off the channel. *)
Takes(s, kind) ==
  /\ up
  /\ toDaemon[s] # <<>> /\ Head(toDaemon[s]) = kind
  /\ toDaemon' = [toDaemon EXCEPT ![s] = Tail(@)]

(* writeResponse; to a closed window it goes nowhere. *)
Reply(s, m) ==
  toWindow' = IF Owned(s) THEN [toWindow EXCEPT ![s] = Append(@, m)] ELSE toWindow

Greets(s) ==
  /\ Takes(s, "hello")
  /\ Hello(s)
  /\ Reply(s, "hello_ok")
  /\ UNCHANGED <<up, saved, serving, win, granted>>

(* register_workspace, and confirm_trust unless it is the first. *)
Answers(s) ==
  /\ \E kind \in {"register", "confirm"} :
       /\ Takes(s, kind)
       /\ \/ /\ ~Available(s, Folder)
             /\ Reply(s, "duplicate")
             /\ UNCHANGED registryVars
          \/ /\ Register(s, Folder)
             /\ Reply(s, "registered")
          \/ /\ kind = "register"
             /\ Available(s, Folder) /\ ~Trusted(Folder)
             /\ Reply(s, "needs_trust")
             /\ UNCHANGED registryVars
  /\ UNCHANGED <<up, saved, serving, win, granted>>

Confirms(s) ==
  /\ Takes(s, "confirm")
  /\ ConfirmTrust(s, Folder)
  /\ UNCHANGED <<up, saved, serving, toWindow, win, granted>>

(* The write of workspaces.json ends. *)
Trusts(s) ==
  \/ /\ ConfirmDone(s, Folder)
     /\ saved' = TRUE
     /\ Reply(s, "registered")
     /\ UNCHANGED <<up, serving, toDaemon, win, granted>>
  \/ /\ ConfirmFails(s, Folder)
     /\ Reply(s, "failed")
     /\ UNCHANGED <<up, saved, serving, toDaemon, win, granted>>

Deregisters(s) ==
  /\ Takes(s, "deregister")
  /\ \/ Deregister(s, Folder) /\ Reply(s, "deregistered")
     \/ active[Folder] # s /\ Reply(s, "failed") /\ UNCHANGED registryVars
  /\ UNCHANGED <<up, saved, serving, win, granted>>

(* unbind_workspace and set_granularity, by the holder, await a write. *)
ServesMenu(s) ==
  /\ Takes(s, "menu")
  /\ \/ active[Folder] = s /\ serving' = serving \cup {s} /\ UNCHANGED toWindow
     \/ active[Folder] # s /\ Reply(s, "failed") /\ UNCHANGED serving
  /\ UNCHANGED <<registryVars, up, saved, win, granted>>

MenuServed(s) ==
  /\ s \in serving
  /\ serving' = serving \ {s}
  /\ \E m \in {"menu_ok", "failed"} : Reply(s, m)
  /\ UNCHANGED <<registryVars, up, saved, toDaemon, win, granted>>

(* stop is answered at once; the shutdown it starts ends in DaemonEnds. *)
AnswersStop(s) ==
  /\ Takes(s, "stop")
  /\ Reply(s, "stop_ok")
  /\ UNCHANGED <<daemonVars, win, granted>>

(* The window is gone and everything it sent has been read. *)
SeesClose(s) ==
  /\ up
  /\ ~Owned(s) /\ toDaemon[s] = <<>>
  /\ Close(s)
  /\ UNCHANGED <<up, saved, serving, toDaemon, toWindow, win, granted>>

(* Shutdown or crash. *)
DaemonEnds ==
  /\ up
  /\ up' = FALSE
  /\ conn' = [s \in Sockets |-> "closed"]
  /\ active' = [p \in Paths |-> None]
  /\ confirming' = {}
  /\ serving' = {}
  /\ toDaemon' = [s \in Sockets |-> <<>>]
  /\ saved' \in IF confirming = {} THEN {saved} ELSE {TRUE, saved}
  /\ UNCHANGED <<entries, toWindow, win, granted>>

(* The next daemon reads workspaces.json and listens at the same address. *)
DaemonStarts ==
  /\ ~up
  /\ up' = TRUE
  /\ entries' = [p \in Paths |-> IF saved THEN 1 ELSE 0]
  /\ UNCHANGED <<conn, active, confirming, saved, serving, toDaemon, toWindow, win, granted>>

-----------------------------------------------------------------------------
ClientStep(w) ==
  \/ \E s \in Sockets : Dial(w, s)
  \/ DialRefused(w)
  \/ SocketCloses(w)
  \/ HelloOk(w)
  \/ \E m \in Replies : Response(w, m)

DaemonStep(s) ==
  \/ Greets(s) \/ Answers(s) \/ Confirms(s) \/ Trusts(s) \/ Deregisters(s)
  \/ ServesMenu(s) \/ MenuServed(s) \/ AnswersStop(s) \/ SeesClose(s)

UserStep(w) ==
  \/ Activate(w) \/ PromptDenied(w) \/ PromptTrusted(w)
  \/ Menu(w) \/ StopDaemon(w) \/ WindowCloses(w)

LinkNext ==
  \/ \E w \in Windows : ClientStep(w) \/ UserStep(w)
  \/ \E s \in Sockets : DaemonStep(s)
  \/ DaemonEnds
  \/ DaemonStarts

(* Both event loops run, a timer that is set fires and a write ends.       *)
(* Nothing is assumed of the user, of the windows, or of how long a daemon *)
(* lives.                                                                  *)
LinkSpec ==
  /\ LinkInit /\ [][LinkNext]_linkVars
  /\ \A w \in Windows : WF_linkVars(ClientStep(w))
  /\ \A s \in Sockets : WF_linkVars(DaemonStep(s))

-----------------------------------------------------------------------------
(* The reply each request gets. *)
AnswersTo(slot) ==
  CASE slot = "register" -> {"registered", "needs_trust", "duplicate"}
    [] slot = "confirm"  -> {"registered", "duplicate", "failed"}
    [] slot = "menu"     -> {"menu_ok", "failed"}
    [] OTHER             -> {}

(* The client has no request ids: the next line answers the pending        *)
(* request.  Across reconnects, prompts and writes that end late it is the *)
(* reply to that request, as long as no stop has been sent: its reply,     *)
(* which nobody waits for, overtakes the ones that await a write.          *)
AnswerIsItsOwn ==
  [][\A w \in Windows :
       LET s == win[w].sock IN
         /\ win[w].link = "connected" /\ ~win[w].told /\ win'[w].sock = s
         /\ toWindow[s] # <<>> /\ toWindow'[s] = Tail(toWindow[s])
         => Head(toWindow[s]) \in AnswersTo(win[w].slot)]_linkVars

(* A folder nobody trusted becomes trusted only after a click on Trust: no *)
(* sequence of reconnects, restarts and races between windows does it.     *)
TrustIsGranted ==
  [][(\E p \in Paths : entries[p] = 0 /\ entries'[p] = 1) => granted \/ saved]_linkVars

(* Registration is the extension's only job: while the daemon stays up and *)
(* the window open, a window that has no decision of the user or the       *)
(* daemon against it ends up as the holder of its folder, and knows it,    *)
(* whatever was lost before; unless another window's confirm_trust is      *)
(* being written, which may take the folder from it.                       *)
LinkRecovers ==
  \A w \in Windows :
    /\ <>[](up /\ Open(w) /\ win[w].reg \in {"registering", "registered"})
    /\ [](\A c \in confirming : c[1] = win[w].sock)
    => <>[](win[w].reg = "registered" /\ active[Folder] = win[w].sock)
=============================================================================
