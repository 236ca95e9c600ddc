------------------------------- MODULE Wallet -------------------------------
(***************************************************************************)
(* go/usbwallet: hardware wallets managed by an event loop.  The goroutine *)
(* listen() runs the loop, trackExistingWallets() reports the devices that *)
(* were there before, callers Wait() for a device, derive accounts and     *)
(* sign, and one of them calls Close().  The map of wallets travels        *)
(* through a channel with a one-item buffer: whoever has received it owns  *)
(* it.  Wait() and the event loop meet in a Toggle, which is the module    *)
(* Toggle with these goroutines.                                           *)
(*                                                                         *)
(* Outside of the repository are the hub, which may report any event about *)
(* any device at any time, and the devices, any call of which may fail.    *)
(***************************************************************************)
EXTENDS Naturals, FiniteSets

CONSTANTS
    URLs,            \* the URLs under which devices appear
    Connected,       \* those of the devices connected before
    Waiters,         \* goroutines that call Wait()
    Signers,         \* goroutines that call SignerFn() and what it returns
    ErrChanBuffer,   \* errChanBuffer
    NoOne            \* not a goroutine

ASSUME WalletAssumption ==
    /\ Connected \subseteq URLs
    /\ ErrChanBuffer \in Nat
    /\ (Waiters \cup Signers) \cap {"listen", "track", "close"} = {}
    /\ Waiters \cap Signers = {}

Goroutines == {"listen", "track", "close"} \cup Waiters \cup Signers

VARIABLES
    quit,       \* whether Wallet.quit is closed
    box,        \* Wallet.wallets: "full", "empty" or "closed"
    status,     \* the map: per URL "none", "tracked" or, if open(), "open"
    errs,       \* the number of errors in the buffer of Wallet.errs
    todo,       \* the devices trackExistingWallets() has yet to report
    ev,         \* the event being handled
    failed,     \* whether the handling returned an error
    at,         \* where listen, track, close and the signers are
    mu, state, buf, closed, pc, done, panicked   \* the Toggle Wallet.available

loopVars == <<status, errs, todo, ev, failed>>
toggleVars == <<mu, state, buf, closed, pc, done, panicked>>
vars == <<quit, box, loopVars, at, toggleVars>>

T == INSTANCE Toggle

Kinds == {"arrived", "opened", "dropped", "unrecognised"}
Events == URLs \X Kinds
NoEvent == <<>>

ListenAt == {"select", "lock", "handle", "nil", "set", "ending", "join", "ended"}
TrackAt == {"list", "send", "ended"}
CloseAt == {"open", "toggle", "take", "wait", "devices", "ended"}
SignerAt == {"idle", "receive", "use", "nil"}

TypeOK ==
    /\ quit \in BOOLEAN
    /\ box \in {"full", "empty", "closed"}
    /\ status \in [URLs -> {"none", "tracked", "open"}]
    /\ errs \in 0..ErrChanBuffer
    /\ todo \subseteq URLs
    /\ ev \in Events \cup {NoEvent}
    /\ failed \in BOOLEAN
    /\ at \in [Goroutines \ Waiters -> ListenAt \cup TrackAt \cup CloseAt \cup SignerAt]
    /\ T!TypeOK

\* construct(): the goroutine listen() runs and has started the other one.
Init ==
    /\ quit = FALSE
    /\ box = "full"
    /\ status = [u \in URLs |-> "none"]
    /\ errs = 0
    /\ todo = {}
    /\ ev = NoEvent
    /\ failed = FALSE
    /\ at = [g \in Goroutines \ Waiters |->
               CASE g = "listen" -> "select"
                 [] g = "track" -> "list"
                 [] g = "close" -> "open"
                 [] OTHER -> "idle"]
    /\ T!Init

-----------------------------------------------------------------------------

\* The process runs and g goes from one point to another.
Goto(g, from, to) ==
    /\ panicked = NoOne
    /\ at[g] = from
    /\ at' = [at EXCEPT ![g] = to]

\* g panics, which ends the process.
Panic(g, from) ==
    /\ panicked = NoOne
    /\ at[g] = from
    /\ panicked' = g
    /\ UNCHANGED <<quit, box, loopVars, at, mu, state, buf, closed, pc, done>>

\* Mutant of TakeMap: the map is read and not taken.
PeekMap(g, from, to) ==
    /\ Goto(g, from, to)
    /\ box = "full"
    /\ UNCHANGED box

\* <-w.wallets
TakeMap(g, from, to) ==
    /\ Goto(g, from, to)
    /\ box = "full"
    /\ box' = "empty"

\* w.wallets <- wallets
PutMap(g, from, to) ==
    /\ Goto(g, from, to)
    /\ box = "empty"
    /\ box' = "full"

(***************************************************************************)
(* trackExistingWallets()                                                  *)
(***************************************************************************)

\* w.hub.Wallets()
TrackList ==
    /\ Goto("track", "list", IF Connected = {} THEN "ended" ELSE "send")
    /\ todo' = Connected
    /\ UNCHANGED <<quit, box, status, errs, ev, failed, toggleVars>>

\* case <-w.quit
TrackQuit ==
    /\ Goto("track", "send", "ended")
    /\ quit
    /\ todo' = {}
    /\ UNCHANGED <<quit, box, status, errs, ev, failed, toggleVars>>

\* case ch <- ev, after listen() has closed ch.
TrackSendPanic ==
    /\ at["listen"] \in {"join", "ended"}
    /\ Panic("track", "send")

(***************************************************************************)
(* listen() and eventLoop()                                                *)
(***************************************************************************)

\* case <-w.quit, in the first or in the second select.
LoopQuit ==
    /\ quit
    /\ \E from \in {"select", "lock"} : Goto("listen", from, "ending")
    /\ ev' = NoEvent
    /\ UNCHANGED <<quit, box, status, errs, todo, failed, toggleVars>>

\* The buffer of errs after an attempt to send an error: dropped if full.
Reported == IF errs < ErrChanBuffer THEN errs + 1 ELSE errs

\* Mutant of LoopSubErr: the error ends the loop.
LoopSubErrFatal ==
    /\ Goto("listen", "select", "ending")
    /\ errs' = Reported
    /\ UNCHANGED <<quit, box, status, todo, ev, failed, toggleVars>>

\* case err, ok := <-sub.Err()
LoopSubErr ==
    /\ Goto("listen", "select", "select")
    /\ errs' = Reported
    /\ UNCHANGED <<quit, box, status, todo, ev, failed, toggleVars>>

\* case ev, ok := <-ch, sent by the hub.
LoopHubEvent ==
    /\ Goto("listen", "select", "lock")
    /\ ev' \in Events
    /\ UNCHANGED <<quit, box, status, errs, todo, failed, toggleVars>>

\* case ev, ok := <-ch, sent by trackExistingWallets().
LoopTrackEvent ==
    /\ panicked = NoOne
    /\ at["listen"] = "select" /\ at["track"] = "send"
    /\ \E u \in todo :
         /\ ev' = <<u, "arrived">>
         /\ todo' = todo \ {u}
         /\ at' = [at EXCEPT !["listen"] = "lock",
                             !["track"] = IF todo = {u} THEN "ended" ELSE "send"]
    /\ UNCHANGED <<quit, box, status, errs, failed, toggleVars>>

\* case wallets = <-w.wallets
LoopLock ==
    /\ TakeMap("listen", "lock", "handle")
    /\ UNCHANGED <<quit, loopVars, toggleVars>>

\* case wallets = <-w.wallets, after Close() has closed it: a nil map.
LoopLockClosed ==
    /\ Goto("listen", "lock", "nil")
    /\ box = "closed"
    /\ UNCHANGED <<quit, box, loopVars, toggleVars>>

\* Writing to the nil map panics, and so does putting it back.
LoopNilPanic == Panic("listen", "nil")

\* Arrived: a new entry, replacing any of the same URL, and Open().
Arrived(u) ==
    /\ failed' \in BOOLEAN
    /\ status' = [status EXCEPT ![u] = "tracked"]

\* Opened: the device is open; an app that has been seen online stays so.
Opened(u) ==
    \E app \in {"online", "offline", "unknown"} :
        /\ failed' = (app = "unknown")
        /\ status' = [status EXCEPT ![u] =
                        IF app = "online" \/ @ = "open" THEN "open" ELSE "tracked"]

\* Dropped: the entry is deleted unless Close() of the device fails.
Dropped(u) ==
    \/ status[u] # "none" /\ failed' = TRUE /\ UNCHANGED status
    \/ failed' = FALSE /\ status' = [status EXCEPT ![u] = "none"]

AnyOpen == \E u \in URLs : status[u] = "open"

Handle ==
    \/ ev[2] = "arrived" /\ Arrived(ev[1])
    \/ ev[2] = "opened" /\ Opened(ev[1])
    \/ ev[2] = "dropped" /\ Dropped(ev[1])
    \/ ev[2] = "unrecognised" /\ failed' = TRUE /\ UNCHANGED status

\* Mutant of LoopHandle: only the wallet of the event is looked at.
LoopHandleOne ==
    /\ PutMap("listen", "handle", "set")
    /\ Handle
    /\ T!Call("listen", IF status'[ev[1]] = "open" THEN "set.true" ELSE "set.false")
    /\ ev' = NoEvent
    /\ UNCHANGED <<quit, errs, todo, mu, state, buf, closed, done, panicked>>

(***************************************************************************)
(* The handling of the event, and the first part of the deferred function: *)
(* the map is put back and available.Set() is called.                      *)
(***************************************************************************)
LoopHandle ==
    /\ PutMap("listen", "handle", "set")
    /\ Handle
    /\ T!Call("listen", IF AnyOpen' THEN "set.true" ELSE "set.false")
    /\ ev' = NoEvent
    /\ UNCHANGED <<quit, errs, todo, mu, state, buf, closed, done, panicked>>

\* available.Set() in progress.
LoopSet ==
    /\ T!Set("listen")
    /\ UNCHANGED <<quit, box, loopVars, at>>

\* Mutant of LoopReturn: a full buffer of errs blocks.
LoopReturnBlocking ==
    /\ Goto("listen", "set", "select")
    /\ pc["listen"] = "idle"
    /\ failed => errs < ErrChanBuffer
    /\ errs' = IF failed THEN errs + 1 ELSE errs
    /\ failed' = FALSE
    /\ UNCHANGED <<quit, box, status, todo, ev, toggleVars>>

\* eventLoop() has returned; an error is reported, or dropped.
LoopReturn ==
    /\ Goto("listen", "set", "select")
    /\ pc["listen"] = "idle"
    /\ errs' = IF failed THEN Reported ELSE errs
    /\ failed' = FALSE
    /\ UNCHANGED <<quit, box, status, todo, ev, toggleVars>>

\* The deferred function of listen() up to <-done: the subscription ends, ch,
\* errCh and eventLoopDone are closed.
ListenEnd ==
    /\ Goto("listen", "ending", "join")
    /\ UNCHANGED <<quit, box, loopVars, toggleVars>>

\* <-done
ListenJoin ==
    /\ Goto("listen", "join", "ended")
    /\ at["track"] = "ended"
    /\ UNCHANGED <<quit, box, loopVars, toggleVars>>

\* A caller receives from Err().
ReadErr ==
    /\ panicked = NoOne
    /\ errs > 0
    /\ errs' = errs - 1
    /\ UNCHANGED <<quit, box, status, todo, ev, failed, at, toggleVars>>

(***************************************************************************)
(* Close(), called once.                                                   *)
(***************************************************************************)

\* close(w.quit), then available.Close() is called.
CloseQuit ==
    /\ Goto("close", "open", "toggle")
    /\ quit' = TRUE
    /\ T!Call("close", "close.sigChan")
    /\ UNCHANGED <<box, loopVars, mu, state, buf, closed, done, panicked>>

\* available.Close() in progress.
CloseToggle ==
    /\ T!Close("close")
    /\ UNCHANGED <<quit, box, loopVars, at>>

\* wallets := <-w.wallets; close(w.wallets)
CloseTake ==
    /\ Goto("close", "toggle", "wait")
    /\ pc["close"] = "idle"
    /\ box = "full"
    /\ box' = "closed"
    /\ UNCHANGED <<quit, loopVars, toggleVars>>

\* Mutant of CloseWait: the devices are closed without waiting for the loop.
CloseNoWait ==
    /\ Goto("close", "wait", "devices")
    /\ UNCHANGED <<quit, box, loopVars, toggleVars>>

\* <-w.eventLoopDone
CloseWait ==
    /\ Goto("close", "wait", "devices")
    /\ at["listen"] \in {"join", "ended"}
    /\ UNCHANGED <<quit, box, loopVars, toggleVars>>

\* Close() of every device that is open, whatever its app, and return.  The
\* entries of the map stay as they are.
CloseDevices ==
    /\ Goto("close", "devices", "ended")
    /\ UNCHANGED <<quit, box, loopVars, toggleVars>>

(***************************************************************************)
(* SignerFn() calls derive(), and the function it returns signs: both      *)
(* receive the map, use a device and put the map back, whether they fail   *)
(* or not.  Neither they nor Wait() are called once Close() has been, but  *)
(* calls may be in progress.                                               *)
(***************************************************************************)

SignerCall(g) ==
    /\ ~quit
    /\ Goto(g, "idle", "receive")
    /\ UNCHANGED <<quit, box, loopVars, toggleVars>>

SignerTake(g) ==
    /\ TakeMap(g, "receive", "use")
    /\ UNCHANGED <<quit, loopVars, toggleVars>>

SignerPut(g) ==
    /\ PutMap(g, "use", "idle")
    /\ UNCHANGED <<quit, loopVars, toggleVars>>

\* Received from the closed channel, a nil map cannot be put back.
SignerTakeClosed(g) ==
    /\ Goto(g, "receive", "nil")
    /\ box = "closed"
    /\ UNCHANGED <<quit, box, loopVars, toggleVars>>

SignerNilPanic(g) == Panic(g, "nil")

WaiterCall(g) ==
    /\ (~quit /\ T!WaitCall(g)) \/ T!CtxDone(g)
    /\ UNCHANGED <<quit, box, loopVars, at>>

WaiterWait(g) ==
    /\ T!Wait(g)
    /\ UNCHANGED <<quit, box, loopVars, at>>

-----------------------------------------------------------------------------

Track == TrackList \/ TrackQuit \/ TrackSendPanic

Listen ==
    \/ LoopQuit \/ LoopTrackEvent \/ LoopLock \/ LoopLockClosed \/ LoopNilPanic
    \/ LoopHandle \/ LoopSet \/ LoopReturn \/ ListenEnd \/ ListenJoin

CloseSteps == CloseToggle \/ CloseTake \/ CloseWait \/ CloseDevices

Signer(g) ==
    SignerTake(g) \/ SignerPut(g) \/ SignerTakeClosed(g) \/ SignerNilPanic(g)

\* Everything has come to an end: the process has, or Close() is over.
Ended ==
    /\ panicked # NoOne \/ at["close"] = "ended"
    /\ UNCHANGED vars

Next ==
    \/ Track
    \/ Listen \/ LoopSubErr \/ LoopHubEvent
    \/ ReadErr
    \/ CloseQuit \/ CloseSteps
    \/ \E g \in Signers : SignerCall(g) \/ Signer(g)
    \/ \E g \in Waiters : WaiterCall(g) \/ WaiterWait(g)
    \/ Ended

Spec == Init /\ [][Next]_vars

(***************************************************************************)
(* The runtime runs every goroutine that can run, and serves those blocked *)
(* on a channel or a mutex in turn.  A select with several ready cases     *)
(* chooses at random, so that quit is eventually chosen.  Devices answer.  *)
(* Nothing has to be called and no event has to happen.                    *)
(***************************************************************************)
Fairness ==
    /\ SF_vars(LoopQuit) /\ SF_vars(Listen) /\ SF_vars(CloseSteps) /\ WF_vars(Track)
    /\ \A g \in Signers : SF_vars(Signer(g))
    /\ \A g \in Waiters : SF_vars(WaiterWait(g))

FairSpec == Spec /\ Fairness

-----------------------------------------------------------------------------

\* The goroutines that own the map.
Owners == {g \in Goroutines \ Waiters : at[g] \in {"handle", "use"}}

(***************************************************************************)
(* The map is in the channel or has one owner, until Close() has taken it  *)
(* for good: in particular the event loop does not touch it while a        *)
(* transaction is being signed, and Close() finds it at rest.              *)
(***************************************************************************)
MapHasOneOwner ==
    /\ box = "empty" <=> Owners # {}
    /\ \A g, h \in Owners : g = h

(***************************************************************************)
(* The comment on Wallet.available: its state is "equivalent to            *)
(* anyOf([w.open() for w in wallets])" whenever the loop waits for the     *)
(* next event.                                                             *)
(***************************************************************************)
AvailableIsAnyOpen ==
    at["listen"] = "select" /\ pc["listen"] = "idle" => (state <=> AnyOpen)

\* Nothing panics before Close() is called, whatever the hub and the devices do.
PanicsOnlyInClose == panicked # NoOne => quit

(***************************************************************************)
(* When Close() goes on to the devices the event loop has stopped, and the *)
(* map stays as Close() found it.                                          *)
(***************************************************************************)
ManagementStops ==
    [][box = "closed" => box' = "closed" /\ status' = status /\
         (at'["close"] \in {"devices", "ended"} => at'["listen"] \in {"join", "ended"})]_vars

(***************************************************************************)
(* Close() returns, unless something panics, although it needs the mutex   *)
(* of the Toggle and the map, which the event loop and callers may hold.   *)
(* A Wait() returns if from some time on a device is open.                 *)
(***************************************************************************)
CallsReturn ==
    /\ quit ~> (at["close"] = "ended" \/ panicked # NoOne)
    /\ <>[]AnyOpen =>
         \A g \in Waiters :
             pc[g] \in T!WaitPCs ~> (pc[g] \in T!RestPCs \/ panicked # NoOne)

(***************************************************************************)
(* The doc of Close(): it "stops all device management and frees           *)
(* resources"; the goroutines that manage devices do not panic.            *)
(***************************************************************************)
ManagementSurvivesClose == panicked \notin {"listen", "track"}

=============================================================================
