--------------------- MODULE ExtensionToolRouter_proofs ---------------------
(***************************************************************************)
(* PendingIsWaiting and PendingHasWindow of ExtensionToolRouter, for any   *)
(* number of windows, folders and calls.                                   *)
(*                                                                         *)
(* PendingHasWindow says what holds when the window has gone.  It follows  *)
(* from what holds while it is there (HolderIsAsked): a pending call's     *)
(* window still has a registration, so that its disconnect will reject the *)
(* call, or the call is one of those remembered in unheld.                 *)
(***************************************************************************)
EXTENDS ExtensionToolRouter, TLAPS

RouterTypeOK ==
  /\ daemon \in {"up", "draining", "closed", "dead"}
  /\ call \in [Calls -> {"new", "sending", "waiting", "ok", "failed"}]
  /\ promise \in [Calls -> {"unsettled", "resolved", "rejected"}]
  /\ pending \subseteq Calls
  /\ wire \in [Calls -> Sockets \cup {None}]
  /\ unheld \subseteq Calls

NewIsUnsettled == \A c \in Calls : call[c] = "new" => promise[c] = "unsettled"

HolderIsAsked ==
  \A c \in pending : wire[c] # None => c \in unheld \/ Held(wire[c]) # {}

(* What the two properties need of the router's own state. *)
RouterInv ==
  /\ RouterTypeOK
  /\ NewIsUnsettled
  /\ PendingIsWaiting
  /\ PendingHasWindow

IInv == RegistryTypeOK /\ RouterInv /\ HolderIsAsked

LEMMA RegistryTyped ==
  ASSUME RegistryTypeOK, NEW s \in Sockets,
         \/ Connect(s) \/ Hello(s) \/ Close(s)
         \/ \E p \in Paths :
              \/ Register(s, p) \/ ConfirmTrust(s, p) \/ ConfirmDone(s, p)
              \/ ConfirmFails(s, p) \/ Deregister(s, p)
  PROVE  RegistryTypeOK'
<1>1. CASE Connect(s) \/ Hello(s) \/ Close(s)
  BY <1>1 DEF RegistryTypeOK, Connect, Hello, Close
<1>2. ASSUME NEW p \in Paths,
             Register(s, p) \/ ConfirmDone(s, p) \/ ConfirmFails(s, p) \/ Deregister(s, p)
      PROVE  RegistryTypeOK'
  BY <1>2 DEF RegistryTypeOK, Register, ConfirmDone, ConfirmFails, Deregister
<1>3. ASSUME NEW p \in Paths, ConfirmTrust(s, p)
      PROVE  RegistryTypeOK'
  BY <1>3 DEF RegistryTypeOK, ConfirmTrust
<1> QED
  BY <1>1, <1>2, <1>3

-----------------------------------------------------------------------------
(* The steps of a call.                                                    *)

LEMMA RefuseKeeps ==
  ASSUME IInv, NEW c \in Calls, NEW b \in Paths, NEW r \in Paths, Refuse(c, b, r)
  PROVE  IInv'
BY DEF Refuse, Proceed, registryVars, IInv, RegistryTypeOK, RouterInv, RouterTypeOK,
       NewIsUnsettled, PendingIsWaiting, PendingHasWindow, HolderIsAsked, Held

(* The request goes to a window that holds the folder. *)
LEMMA SendKeeps ==
  ASSUME IInv, NEW c \in Calls, NEW b \in Paths, Send(c, b)
  PROVE  IInv'
<1> DEFINE to == IF conn[active[b]] = "closed" THEN None ELSE active[b]
<1>1. /\ call[c] = "new" /\ promise[c] = "unsettled" /\ daemon # "closed"
      /\ call' = [call EXCEPT ![c] = "sending"] /\ pending' = pending \cup {c}
      /\ wire' = [wire EXCEPT ![c] = to]
      /\ UNCHANGED <<registryVars, daemon, promise, unheld>>
  BY DEF Send, IInv, RouterInv, NewIsUnsettled
<1>2. to \in Sockets \cup {None} /\ (to # None => b \in Held(to))
  BY DEF Send, Held, IInv, RegistryTypeOK
<1> HIDE DEF to
<1>3. RegistryTypeOK' /\ RouterInv'
  BY <1>1, <1>2
     DEF IInv, RegistryTypeOK, registryVars, RouterInv, RouterTypeOK, NewIsUnsettled,
         PendingIsWaiting, PendingHasWindow
<1>4. HolderIsAsked'
  BY <1>1, <1>2 DEF IInv, RouterInv, RouterTypeOK, HolderIsAsked, Held, registryVars
<1> QED
  BY <1>3, <1>4 DEF IInv

LEMMA WriteKeeps ==
  ASSUME IInv, NEW c \in Calls, WriteDone(c) \/ WriteFails(c)
  PROVE  IInv'
<1>1. CASE WriteDone(c)
  BY <1>1 DEF WriteDone, Proceed, registryVars, IInv, RegistryTypeOK, RouterInv, RouterTypeOK,
              NewIsUnsettled, PendingIsWaiting, PendingHasWindow, HolderIsAsked, Held
<1>2. CASE WriteFails(c)
  BY <1>2 DEF WriteFails, Proceed, registryVars, IInv, RegistryTypeOK, RouterInv, RouterTypeOK,
              NewIsUnsettled, PendingIsWaiting, PendingHasWindow, HolderIsAsked, Held
<1> QED
  BY <1>1, <1>2

LEMMA ResolveKeeps ==
  ASSUME IInv, NEW c \in Calls, ResolveResponse(c)
  PROVE  IInv'
<1>1. /\ c \in pending /\ call[c] \in {"sending", "waiting"}
      /\ pending' = pending \ {c} /\ promise' = [promise EXCEPT ![c] = "resolved"]
      /\ call' = IF call[c] = "waiting" THEN [call EXCEPT ![c] = "ok"] ELSE call
      /\ UNCHANGED <<registryVars, daemon, wire, unheld>>
  BY DEF ResolveResponse, Answerable, Proceed, IInv, RouterInv, PendingIsWaiting
<1> QED
  BY <1>1 DEF registryVars, IInv, RegistryTypeOK, RouterInv, RouterTypeOK,
              NewIsUnsettled, PendingIsWaiting, PendingHasWindow, HolderIsAsked, Held

(* A rejection of pending calls, by whomever: what is left was there. *)
LEMMA RejectKeeps ==
  ASSUME IInv, NEW cs \in SUBSET pending, NEW next \in {"up", "draining", "closed", "dead"},
         Reject(cs, next), next = "closed" => daemon = "closed" \/ cs = pending,
         unheld' = unheld,
         wire' \in [Calls -> Sockets \cup {None}],
         \A c \in pending \ cs : wire'[c] = wire[c]
  PROVE  RouterInv'
<1>1. /\ pending' = pending \ cs
      /\ \A c \in Calls : promise'[c] = IF c \in cs THEN "rejected" ELSE promise[c]
      /\ \A c \in Calls :
           call'[c] = IF c \in cs /\ call[c] = "waiting" THEN "failed" ELSE call[c]
      /\ daemon' \in {next, "dead"}
  BY DEF Reject
<1>2. RouterTypeOK'
  BY DEF Reject, IInv, RouterInv, RouterTypeOK
<1>3. NewIsUnsettled'
  <2>1. \A c \in cs : call[c] # "new"
    BY DEF IInv, RouterInv, PendingIsWaiting, RouterTypeOK
  <2> QED
    BY <1>1, <2>1 DEF IInv, RouterInv, NewIsUnsettled
<1>4. PendingIsWaiting'
  BY <1>1 DEF IInv, RouterInv, RouterTypeOK, PendingIsWaiting
<1>5. PendingHasWindow'
  BY <1>1 DEF IInv, RouterInv, RouterTypeOK, PendingHasWindow
<1> QED
  BY <1>2, <1>3, <1>4, <1>5 DEF RouterInv

LEMMA GiveUpKeeps ==
  ASSUME IInv, NEW c \in Calls, ResolveError(c) \/ Timeout(c)
  PROVE  IInv'
<1>1. /\ c \in pending /\ Reject({c}, daemon)
      /\ UNCHANGED <<registryVars, wire, unheld>>
  BY DEF ResolveError, Timeout, Answerable
<1>2. RouterInv'
  BY <1>1, RejectKeeps DEF IInv, RouterInv, RouterTypeOK
<1>3. pending' \subseteq pending
  BY <1>1 DEF Reject
<1> QED
  BY <1>1, <1>2, <1>3 DEF registryVars, IInv, RegistryTypeOK, HolderIsAsked, Held

-----------------------------------------------------------------------------
(* The windows and the shutdown.                                           *)

(* A window that goes takes its calls with it if it holds a folder; if it  *)
(* does not, they are in unheld.                                           *)
LEMMA WindowClosesKeeps ==
  ASSUME IInv, NEW s \in Sockets, WindowCloses(s)
  PROVE  IInv'
<1>1. RegistryTypeOK'
  BY RegistryTyped DEF WindowCloses, IInv
<1>2. /\ unheld' = unheld
      /\ wire' \in [Calls -> Sockets \cup {None}]
      /\ \A c \in Calls : wire'[c] = IF wire[c] = s THEN None ELSE wire[c]
  BY DEF WindowCloses, Unwire, IInv, RouterInv, RouterTypeOK
<1>3. CASE Held(s) # {}
  <2>1. Reject(pending, daemon)
    BY <1>3 DEF WindowCloses
  <2>2. RouterInv'
    BY <1>2, <2>1, RejectKeeps DEF IInv, RouterInv, RouterTypeOK
  <2>3. pending' = {}
    BY <2>1 DEF Reject
  <2> QED
    BY <1>1, <2>2, <2>3 DEF IInv, HolderIsAsked
<1>4. CASE Held(s) = {}
  <2>1. UNCHANGED <<daemon, call, promise, pending>>
    BY <1>4 DEF WindowCloses
  <2>2. \A c \in pending : wire[c] = s => c \in unheld
    BY <1>4, IpcRegistryAssumption DEF IInv, HolderIsAsked
  <2>3. RouterInv'
    BY <1>2, <2>1, <2>2
       DEF IInv, RouterInv, RouterTypeOK, NewIsUnsettled, PendingIsWaiting, PendingHasWindow
  <2>4. \A t \in Sockets \ {s} : Held(t)' = Held(t)
    BY IpcRegistryAssumption DEF WindowCloses, Close, Held, IInv, RegistryTypeOK
  <2>5. HolderIsAsked'
    BY <1>2, <2>1, <2>4 DEF IInv, RouterInv, RouterTypeOK, HolderIsAsked
  <2> QED
    BY <1>1, <2>3, <2>5 DEF IInv
<1> QED
  BY <1>3, <1>4

LEMMA WindowStepKeeps ==
  ASSUME IInv, NEW s \in Sockets, WindowStep(s)
  PROVE  IInv'
<1>1. RegistryTypeOK' /\ UNCHANGED routerVars
  BY RegistryTyped DEF WindowStep, IInv
<1>2. \A t \in Sockets : Held(t) \subseteq Held(t)'
  <2>1. \/ UNCHANGED active
        \/ \E p \in Paths : Available(s, p) /\ active' = [active EXCEPT ![p] = s]
    BY DEF WindowStep, Connect, Hello, Register, ConfirmTrust, ConfirmFails
  <2> QED
    BY <2>1, IpcRegistryAssumption DEF Held, Available, IInv, RegistryTypeOK
<1>3. RouterInv'
  BY <1>1 DEF routerVars, IInv, RouterInv, RouterTypeOK, NewIsUnsettled,
              PendingIsWaiting, PendingHasWindow
<1>4. HolderIsAsked'
  BY <1>1, <1>2 DEF routerVars, IInv, RouterInv, RouterTypeOK, HolderIsAsked
<1> QED
  BY <1>1, <1>3, <1>4 DEF IInv

LEMMA LoseRegistrationKeeps ==
  ASSUME IInv, NEW s \in Sockets, NEW p \in Paths, LoseRegistration(s, p)
  PROVE  IInv'
<1>1. RegistryTypeOK'
  BY RegistryTyped DEF LoseRegistration, IInv
<1>2. /\ UNCHANGED <<daemon, call, promise, pending, wire>>
      /\ unheld' = IF active'[p] = active[p] THEN unheld ELSE unheld \cup SentTo(p)
      /\ \A q \in Paths \ {p} : active'[q] = active[q]
  BY DEF LoseRegistration, Deregister, ConfirmDone, IInv, RegistryTypeOK
<1>3. unheld \subseteq unheld' /\ unheld' \subseteq Calls
  BY <1>2 DEF SentTo, IInv, RouterInv, RouterTypeOK
<1>4. RouterInv'
  BY <1>2, <1>3 DEF IInv, RouterInv, RouterTypeOK, NewIsUnsettled, PendingIsWaiting,
                    PendingHasWindow
<1>5. ASSUME NEW c \in pending, wire[c] # None
      PROVE  c \in unheld' \/ Held(wire[c])' # {}
  <2>1. c \in unheld \/ \E q \in Paths : active[q] = wire[c]
    BY <1>5 DEF IInv, HolderIsAsked, Held
  <2>2. CASE c \in unheld
    BY <1>3, <2>2
  <2>3. ASSUME NEW q \in Paths, active[q] = wire[c]
        PROVE  c \in unheld' \/ Held(wire[c])' # {}
    <3>1. CASE q = p /\ active'[p] # active[p]
      BY <1>2, <1>5, <2>3, <3>1 DEF SentTo
    <3>2. CASE q # p \/ active'[p] = active[p]
      <4>1. active'[q] = wire'[c]
        BY <1>2, <2>3, <3>2
      <4> QED
        BY <1>2, <4>1 DEF Held
    <3> QED
      BY <3>1, <3>2
  <2> QED
    BY <2>1, <2>2, <2>3
<1>6. HolderIsAsked'
  BY <1>2, <1>5 DEF HolderIsAsked, Held
<1> QED
  BY <1>1, <1>4, <1>6 DEF IInv

LEMMA ShutdownKeeps ==
  ASSUME IInv, StartShutdown \/ StopRouter
  PROVE  IInv'
<1>1. CASE StartShutdown
  BY <1>1 DEF StartShutdown, registryVars, IInv, RegistryTypeOK, RouterInv, RouterTypeOK,
              NewIsUnsettled, PendingIsWaiting, PendingHasWindow, HolderIsAsked, Held
<1>2. CASE StopRouter
  <2>1. /\ Reject(pending, "closed") /\ UNCHANGED <<registryVars, wire, unheld>>
        /\ pending' = {}
    BY <1>2 DEF StopRouter, Reject
  <2>2. RouterInv'
    BY <2>1, RejectKeeps DEF IInv, RouterInv, RouterTypeOK
  <2> QED
    BY <2>1, <2>2 DEF registryVars, IInv, RegistryTypeOK, HolderIsAsked
<1> QED
  BY <1>1, <1>2

-----------------------------------------------------------------------------
LEMMA InitKeeps == Init => IInv
BY DEF Init, RegistryInit, IInv, RegistryTypeOK, RouterInv, RouterTypeOK, NewIsUnsettled,
       PendingIsWaiting, PendingHasWindow, HolderIsAsked

LEMMA NextKeeps == IInv /\ [Next]_vars => IInv'
<1>1. SUFFICES ASSUME IInv, [Next]_vars PROVE IInv'
  OBVIOUS
<1>2. CASE UNCHANGED vars
  BY <1>1, <1>2
     DEF vars, registryVars, routerVars, IInv, RegistryTypeOK, RouterInv, RouterTypeOK,
         NewIsUnsettled, PendingIsWaiting, PendingHasWindow, HolderIsAsked, Held
<1>3. ASSUME NEW c \in Calls, NEW b \in Paths,
             Send(c, b) \/ \E r \in Paths : Refuse(c, b, r)
      PROVE  IInv'
  BY <1>1, <1>3, SendKeeps, RefuseKeeps
<1>4. ASSUME NEW c \in Calls,
             \/ WriteDone(c) \/ WriteFails(c)
             \/ ResolveResponse(c) \/ ResolveError(c) \/ Timeout(c)
      PROVE  IInv'
  BY <1>1, <1>4, WriteKeeps, ResolveKeeps, GiveUpKeeps
<1>5. ASSUME NEW s \in Sockets,
             WindowCloses(s) \/ WindowStep(s) \/ \E p \in Paths : LoseRegistration(s, p)
      PROVE  IInv'
  BY <1>1, <1>5, WindowClosesKeeps, WindowStepKeeps, LoseRegistrationKeeps
<1>6. CASE StartShutdown \/ StopRouter
  BY <1>1, <1>6, ShutdownKeeps
<1> QED
  BY <1>1, <1>2, <1>3, <1>4, <1>5, <1>6 DEF Next

THEOREM RouterInvariant == Spec => []IInv
<1> QED
  BY InitKeeps, NextKeeps, PTL DEF Spec

(* The router and the windows are type correct.                            *)
THEOREM RouterTypeCorrect == Spec => []TypeOK
<1>1. IInv => TypeOK
  BY DEF IInv, RouterInv, RouterTypeOK, TypeOK
<1> QED
  BY <1>1, RouterInvariant, PTL

(* An entry of the router is exactly a call that can still be settled.     *)
THEOREM PendingIsWaitingHolds == Spec => []PendingIsWaiting
<1>1. IInv => PendingIsWaiting
  BY DEF IInv, RouterInv
<1> QED
  BY <1>1, RouterInvariant, PTL

(* No call waits for a window that is gone, unless it had let go of its    *)
(* registration before.                                                    *)
THEOREM PendingHasWindowHolds == Spec => []PendingHasWindow
<1>1. IInv => PendingHasWindow
  BY DEF IInv, RouterInv
<1> QED
  BY <1>1, RouterInvariant, PTL
=============================================================================
