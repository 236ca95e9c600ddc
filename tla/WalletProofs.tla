---------------------------- MODULE WalletProofs ----------------------------
(***************************************************************************)
(* Proofs about Wallet: the map of wallets has one owner, the Toggle       *)
(* agrees with the map, nothing panics before Close(), and Close() stops   *)
(* the management of devices.                                              *)
(***************************************************************************)
EXTENDS Wallet, TLAPS

\* The goroutines whose place is in `at'.
Procs == Goroutines \ Waiters

Places == ListenAt \cup TrackAt \cup CloseAt \cup SignerAt

PCFun == at \in [Procs -> Places]

\* The types that the proofs need.
WalletTypes ==
    /\ PCFun
    /\ pc \in [Goroutines -> T!PCs]
    /\ quit \in BOOLEAN /\ closed \in BOOLEAN /\ state \in BOOLEAN
    /\ status \in [URLs -> {"none", "tracked", "open"}]

\* available.Set() is called once per event by the event loop alone; until it
\* has stored the new state, its argument is what the map says.
LoopInv ==
    /\ at["listen"] # "set" => pc["listen"] = "idle" /\ (state <=> AnyOpen)
    /\ at["listen"] = "set" =>
         \/ pc["listen"] = "set.true" /\ AnyOpen
         \/ pc["listen"] = "set.false" /\ ~AnyOpen
         \/ pc["listen"] \in {"idle", "set.send", "set.recv"} /\ (state <=> AnyOpen)

\* What only Close() brings about.
CloseInv ==
    /\ closed => quit
    /\ box = "closed" => quit
    /\ pc["close"] \in T!ClosePCs => quit
    /\ at["listen"] \in {"ending", "join", "ended"} => quit
    /\ at["close"] # "open" => quit
    /\ \A g \in Procs : at[g] = "nil" => box = "closed"
    /\ at["close"] \in {"devices", "ended"} => at["listen"] \in {"join", "ended"}
    /\ panicked # NoOne => quit

WalletInv == WalletTypes /\ MapHasOneOwner /\ LoopInv /\ CloseInv

-----------------------------------------------------------------------------

\* listen, track, close and the signers of usbwallet are not waiters.
LEMMA ProcsAreProcs ==
    /\ "listen" \in Procs /\ "track" \in Procs /\ "close" \in Procs
    /\ Signers \subseteq Procs /\ Waiters \subseteq Goroutines
    /\ "listen" \in Goroutines /\ "track" \in Goroutines /\ "close" \in Goroutines
    /\ "listen" \notin Waiters /\ "close" \notin Waiters
    /\ "listen" \notin Signers /\ "close" \notin Signers /\ "track" \notin Signers
BY WalletAssumption DEF Procs, Goroutines

\* How a step of one goroutine changes who owns the map.
LEMMA OwnersAfter ==
    ASSUME PCFun, NEW g \in Procs, NEW to, at' = [at EXCEPT ![g] = to]
    PROVE  /\ to \in {"handle", "use"} => Owners' = Owners \cup {g}
           /\ to \notin {"handle", "use"} => Owners' = Owners \ {g}
BY DEF PCFun, Owners, Procs

\* A step that takes no map and gives none back.
LEMMA OwnersStay ==
    ASSUME PCFun, MapHasOneOwner, NEW g \in Procs, NEW to,
           at' = [at EXCEPT ![g] = to],
           at[g] \notin {"handle", "use"}, to \notin {"handle", "use"},
           box' = box \/ (box = "full" /\ box' = "closed")
    PROVE  MapHasOneOwner'
<1>1. Owners' = Owners
    BY OwnersAfter DEF Owners, Procs
<1> QED BY <1>1 DEF MapHasOneOwner

\* wallets <- w.wallets: the owner is the one that took the map.
LEMMA OwnersTake ==
    ASSUME PCFun, MapHasOneOwner, NEW g \in Procs, NEW from, NEW to,
           TakeMap(g, from, to), to \in {"handle", "use"}
    PROVE  MapHasOneOwner'
<1>1. Owners = {} /\ box' = "empty" /\ at' = [at EXCEPT ![g] = to]
    BY DEF MapHasOneOwner, TakeMap, Goto
<1>2. Owners' = Owners \cup {g}
    BY <1>1, OwnersAfter
<1> QED BY <1>1, <1>2 DEF MapHasOneOwner

\* w.wallets <- wallets: there is no owner any more.
LEMMA OwnersPut ==
    ASSUME PCFun, MapHasOneOwner, NEW g \in Procs, NEW from, NEW to,
           PutMap(g, from, to), from \in {"handle", "use"}, to \notin {"handle", "use"}
    PROVE  MapHasOneOwner'
<1>1. g \in Owners /\ box' = "full" /\ at' = [at EXCEPT ![g] = to]
    BY DEF PutMap, Goto, Owners, Procs
<1>2. Owners' = Owners \ {g}
    BY <1>1, OwnersAfter
<1> QED BY <1>1, <1>2 DEF MapHasOneOwner

-----------------------------------------------------------------------------

\* A step of g that leaves the map, its contents and the Toggle alone.
LEMMA Move ==
    ASSUME WalletInv, NEW g \in Procs, NEW from, NEW to \in Places,
           Goto(g, from, to), UNCHANGED <<quit, status, toggleVars>>,
           from \notin {"handle", "use"}, to \notin {"handle", "use"},
           box' = box \/ (box = "full" /\ box' = "closed" /\ quit),
           to = "nil" => box = "closed",
           g = "listen" => \/ from # "set" /\ to # "set"
                           \/ from = "set" /\ to # "set" /\ pc["listen"] = "idle",
           g = "listen" /\ to \in {"ending", "join", "ended"} => quit,
           g = "listen" /\ from \in {"join", "ended"} => to \in {"join", "ended"},
           g = "close" => from # "open",
           g = "close" /\ to \in {"devices", "ended"} => at["listen"] \in {"join", "ended"}
    PROVE  WalletInv'
<1> USE DEF WalletInv
<1>1. /\ at[g] = from /\ at' = [at EXCEPT ![g] = to]
      /\ UNCHANGED <<mu, state, buf, closed, pc, done, panicked>>
    BY DEF Goto, toggleVars
<1>2. WalletTypes'
    BY <1>1 DEF WalletTypes, PCFun
<1>3. MapHasOneOwner'
    BY <1>1, OwnersStay DEF WalletTypes
<1>4. at'["listen"] = IF g = "listen" THEN to ELSE at["listen"]
    BY <1>1, ProcsAreProcs DEF WalletTypes, PCFun
<1>5. at'["close"] = IF g = "close" THEN to ELSE at["close"]
    BY <1>1, ProcsAreProcs DEF WalletTypes, PCFun
<1>6. AnyOpen' = AnyOpen
    BY DEF AnyOpen
<1>7. LoopInv'
    BY <1>1, <1>4, <1>6 DEF LoopInv
<1>8. CloseInv'
    <2>1. \A h \in Procs : at'[h] = "nil" => box' = "closed"
        BY <1>1 DEF CloseInv, WalletTypes, PCFun
    <2>2. /\ closed' => quit'
          /\ box' = "closed" => quit'
          /\ pc'["close"] \in T!ClosePCs => quit'
          /\ panicked' # NoOne => quit'
        BY <1>1 DEF CloseInv
    <2>3. /\ at'["listen"] \in {"ending", "join", "ended"} => quit'
          /\ at'["close"] # "open" => quit'
        BY <1>4, <1>5, <1>1 DEF CloseInv
    <2>4. at'["close"] \in {"devices", "ended"} => at'["listen"] \in {"join", "ended"}
        BY <1>4, <1>5, <1>1 DEF CloseInv
    <2> QED BY <2>1, <2>2, <2>3, <2>4 DEF CloseInv
<1> QED BY <1>2, <1>3, <1>7, <1>8

\* A step that leaves all of these alone.
LEMMA Stay ==
    ASSUME WalletInv, UNCHANGED <<quit, box, status, at, toggleVars>>
    PROVE  WalletInv'
<1> USE DEF WalletInv, toggleVars
<1>1. AnyOpen' = AnyOpen /\ Owners' = Owners
    BY DEF AnyOpen, Owners
<1>2. WalletTypes' /\ MapHasOneOwner'
    BY <1>1 DEF WalletTypes, PCFun, MapHasOneOwner
<1>3. LoopInv'
    BY <1>1 DEF LoopInv
<1>4. CloseInv'
    BY DEF CloseInv
<1> QED BY <1>2, <1>3, <1>4

\* A panic: of the tracker on the channel that listen() has closed, or of the
\* event loop or a signer on a nil map.
LEMMA Panics ==
    ASSUME WalletInv, NEW g \in Procs, NEW from, Panic(g, from), quit
    PROVE  WalletInv'
<1> USE DEF WalletInv, Panic, loopVars
<1>1. AnyOpen' = AnyOpen /\ Owners' = Owners
    BY DEF AnyOpen, Owners
<1>2. WalletTypes' /\ MapHasOneOwner'
    BY <1>1 DEF WalletTypes, PCFun, MapHasOneOwner
<1>3. LoopInv'
    BY <1>1 DEF LoopInv
<1>4. CloseInv'
    BY DEF CloseInv
<1> QED BY <1>2, <1>3, <1>4

\* construct(): the map is in the channel, empty, and the Toggle is off.
LEMMA InitWalletInv == Init => WalletInv
<1> SUFFICES ASSUME Init PROVE WalletInv
    OBVIOUS
<1> USE ProcsAreProcs
<1>1. /\ at \in [Procs -> Places]
      /\ \A g \in Procs : at[g] \in {"select", "list", "open", "idle"}
      /\ at["listen"] = "select" /\ at["close"] = "open"
    BY DEF Init, Procs, Places, ListenAt, TrackAt, CloseAt, SignerAt
<1>2. /\ pc \in [Goroutines -> T!PCs] /\ pc["listen"] = "idle" /\ pc["close"] = "idle"
      /\ state = FALSE /\ closed = FALSE /\ panicked = NoOne
    BY DEF Init, T!Init, T!PCs, T!RestPCs
<1>3. quit = FALSE /\ box = "full" /\ status = [u \in URLs |-> "none"]
    BY DEF Init
<1>4. WalletTypes
    BY <1>1, <1>2, <1>3 DEF WalletTypes, PCFun
<1>5. Owners = {}
    BY <1>1 DEF Owners, Procs
<1>6. MapHasOneOwner
    BY <1>3, <1>5 DEF MapHasOneOwner
<1>7. ~AnyOpen
    BY <1>3 DEF AnyOpen
<1>8. LoopInv
    BY <1>1, <1>2, <1>7 DEF LoopInv
<1>9. CloseInv
    BY <1>1, <1>2, <1>3 DEF CloseInv, T!ClosePCs
<1> QED BY <1>4, <1>6, <1>8, <1>9 DEF WalletInv

\* The steps of trackExistingWallets().
LEMMA TrackWalletInv == ASSUME WalletInv, Track PROVE WalletInv'
<1> USE ProcsAreProcs
<1>1. CASE TrackList
    BY <1>1, Move DEF TrackList, Places, TrackAt
<1>2. CASE TrackQuit
    BY <1>2, Move DEF TrackQuit, Places, TrackAt
<1>3. CASE TrackSendPanic
    <2>1. quit
        BY <1>3 DEF TrackSendPanic, WalletInv, CloseInv
    <2> QED BY <1>3, <2>1, Panics DEF TrackSendPanic
<1> QED BY <1>1, <1>2, <1>3 DEF Track

\* An event is received from trackExistingWallets(): both goroutines move.
LEMMA TrackEventWalletInv == ASSUME WalletInv, LoopTrackEvent PROVE WalletInv'
<1> USE ProcsAreProcs DEF WalletInv
<1>1. PICK t \in {"ended", "send"} :
          at' = [at EXCEPT !["listen"] = "lock", !["track"] = t]
    BY DEF LoopTrackEvent
<1>2. /\ at["listen"] = "select" /\ at["track"] = "send"
      /\ UNCHANGED <<quit, box, status, mu, state, buf, closed, pc, done, panicked>>
    BY DEF LoopTrackEvent, toggleVars
<1>3. /\ at'["listen"] = "lock" /\ at'["track"] = t
      /\ \A g \in Procs : g \notin {"listen", "track"} => at'[g] = at[g]
      /\ at' \in [Procs -> Places]
    BY <1>1 DEF WalletTypes, PCFun, Places, ListenAt, TrackAt
<1>4. Owners' = Owners
    BY <1>2, <1>3 DEF Owners, Procs
<1>5. AnyOpen' = AnyOpen
    BY <1>2 DEF AnyOpen
<1>6. WalletTypes' /\ MapHasOneOwner'
    BY <1>2, <1>3, <1>4 DEF WalletTypes, PCFun, MapHasOneOwner
<1>7. LoopInv'
    BY <1>2, <1>3, <1>5 DEF LoopInv
<1>8. CloseInv'
    <2>1. \A g \in Procs : at'[g] = "nil" => box' = "closed"
        BY <1>2, <1>3 DEF CloseInv
    <2>2. at'["close"] = at["close"]
        BY <1>3
    <2> QED BY <1>2, <1>3, <2>1, <2>2 DEF CloseInv
<1> QED BY <1>6, <1>7, <1>8

\* The event has been handled: the map is put back, and Set() called.
LEMMA HandleWalletInv == ASSUME WalletInv, LoopHandle PROVE WalletInv'
<1> USE ProcsAreProcs DEF WalletInv
<1>1. /\ at["listen"] = "handle" /\ at' = [at EXCEPT !["listen"] = "set"]
      /\ box = "empty" /\ box' = "full"
      /\ UNCHANGED <<quit, mu, state, buf, closed, done, panicked>>
    BY DEF LoopHandle, PutMap, Goto
<1>2. pc' = [pc EXCEPT !["listen"] = IF AnyOpen' THEN "set.true" ELSE "set.false"]
    BY DEF LoopHandle, T!Call
<1>3. status' \in [URLs -> {"none", "tracked", "open"}]
    <2>1. \/ \E u, w : /\ status' = [status EXCEPT ![u] = w]
                       /\ w \in {"none", "tracked", "open"}
          \/ UNCHANGED status
        BY DEF LoopHandle, Handle, Arrived, Opened, Dropped
    <2> QED BY <2>1 DEF WalletTypes
<1>4. at'["listen"] = "set" /\ at'["close"] = at["close"]
    BY <1>1 DEF WalletTypes, PCFun
<1>5. WalletTypes'
    BY <1>1, <1>2, <1>3 DEF WalletTypes, PCFun, Places, ListenAt, T!PCs, T!SetPCs
<1>6. MapHasOneOwner'
    BY OwnersPut DEF WalletTypes, LoopHandle
<1>7. LoopInv'
    BY <1>2, <1>4 DEF LoopInv, WalletTypes
<1>8. CloseInv'
    <2>1. \A g \in Procs : at'[g] = "nil" => at[g] = "nil"
        BY <1>1 DEF WalletTypes, PCFun
    <2>2. pc'["close"] = pc["close"]
        BY <1>2 DEF WalletTypes
    <2> QED BY <1>1, <1>4, <2>1, <2>2 DEF CloseInv
<1> QED BY <1>5, <1>6, <1>7, <1>8

\* A step of available.Set(), which only the event loop takes.
LEMMA SetWalletInv == ASSUME WalletInv, LoopSet PROVE WalletInv'
<1> USE ProcsAreProcs DEF WalletInv
<1>1. UNCHANGED <<quit, box, status, at>>
    BY DEF LoopSet, loopVars
<1>2. AnyOpen' = AnyOpen /\ Owners' = Owners
    BY <1>1 DEF AnyOpen, Owners
<1>3. T!Set("listen")
    BY DEF LoopSet
<1>4. /\ pc' \in [Goroutines -> T!PCs] /\ pc'["close"] = pc["close"]
      /\ state' \in BOOLEAN /\ closed' = closed
    BY <1>3 DEF T!Set, T!SetSame, T!SetStore, T!SetSend, T!SetSendPanic, T!SetRecv, T!Goto,
                T!Panic, WalletTypes, T!PCs, T!RestPCs, T!SetPCs
<1>5. WalletTypes' /\ MapHasOneOwner'
    BY <1>1, <1>2, <1>4 DEF WalletTypes, PCFun, MapHasOneOwner
<1>6. LoopInv'
    <2>0. pc["listen"] \in T!SetPCs => at["listen"] = "set"
        BY DEF LoopInv, T!SetPCs
    <2>1. CASE T!SetSame("listen")
        <3>1. /\ pc'["listen"] = "idle" /\ (state' <=> state)
              /\ pc["listen"] = IF state THEN "set.true" ELSE "set.false"
            BY <2>1 DEF T!SetSame, T!Goto, WalletTypes
        <3>2. at["listen"] = "set"
            BY <3>1, <2>0 DEF T!SetPCs
        <3>3. state <=> AnyOpen
            BY <3>1, <3>2 DEF LoopInv
        <3> QED BY <1>1, <1>2, <3>1, <3>2, <3>3 DEF LoopInv
    <2>2. CASE T!SetStore("listen")
        <3>1. /\ pc'["listen"] \in {"set.send", "set.recv"} /\ (state' <=> ~state)
              /\ pc["listen"] = IF state THEN "set.false" ELSE "set.true"
            BY <2>2 DEF T!SetStore, T!Goto, WalletTypes
        <3>2. at["listen"] = "set"
            BY <3>1, <2>0 DEF T!SetPCs
        <3>3. state' <=> AnyOpen
            BY <3>1, <3>2 DEF LoopInv
        <3> QED BY <1>1, <1>2, <3>1, <3>2, <3>3 DEF LoopInv
    <2>3. CASE T!SetSend("listen") \/ T!SetRecv("listen")
        BY <1>1, <1>2, <2>3 DEF T!SetSend, T!SetRecv, T!Goto, LoopInv, WalletTypes
    <2>4. CASE T!SetSendPanic("listen")
        BY <1>1, <1>2, <2>4 DEF T!SetSendPanic, T!Panic, LoopInv
    <2> QED BY <1>3, <2>1, <2>2, <2>3, <2>4 DEF T!Set
<1>7. CloseInv'
    <2>1. panicked' = panicked \/ closed
        BY <1>3 DEF T!Set, T!SetSame, T!SetStore, T!SetSend, T!SetSendPanic, T!SetRecv
    <2> QED BY <1>1, <1>4, <2>1 DEF CloseInv
<1> QED BY <1>5, <1>6, <1>7

\* The other steps of listen() and eventLoop().
LEMMA ListenWalletInv ==
    ASSUME WalletInv, Listen \/ LoopSubErr \/ LoopHubEvent
    PROVE  WalletInv'
<1> USE ProcsAreProcs DEF Places, ListenAt
<1>1. CASE LoopQuit
    <2>1. PICK from \in {"select", "lock"} : Goto("listen", from, "ending")
        BY <1>1 DEF LoopQuit
    <2> QED BY <1>1, <2>1, Move DEF LoopQuit
<1>2. CASE LoopLock
    <2> USE DEF WalletInv
    <2>1. /\ at["listen"] = "lock" /\ at' = [at EXCEPT !["listen"] = "handle"]
          /\ box = "full" /\ box' = "empty"
          /\ UNCHANGED <<quit, status, mu, state, buf, closed, pc, done, panicked>>
        BY <1>2 DEF LoopLock, TakeMap, Goto, loopVars, toggleVars
    <2>2. at'["listen"] = "handle" /\ at'["close"] = at["close"]
        BY <2>1 DEF WalletTypes, PCFun
    <2>3. WalletTypes'
        BY <2>1 DEF WalletTypes, PCFun
    <2>4. MapHasOneOwner'
        BY <1>2, OwnersTake DEF LoopLock, WalletTypes
    <2>5. LoopInv'
        <3>1. AnyOpen' = AnyOpen
            BY <2>1 DEF AnyOpen
        <3> QED BY <2>1, <2>2, <3>1 DEF LoopInv
    <2>6. CloseInv'
        <3>1. \A g \in Procs : at'[g] = "nil" => at[g] = "nil"
            BY <2>1 DEF WalletTypes, PCFun
        <3> QED BY <2>1, <2>2, <3>1 DEF CloseInv
    <2> QED BY <2>3, <2>4, <2>5, <2>6
<1>3. CASE LoopLockClosed
    BY <1>3, Move DEF LoopLockClosed, loopVars
<1>4. CASE LoopNilPanic
    <2>1. quit
        BY <1>4 DEF LoopNilPanic, Panic, WalletInv, CloseInv
    <2> QED BY <1>4, <2>1, Panics DEF LoopNilPanic
<1>5. CASE LoopReturn
    BY <1>5, Move DEF LoopReturn
<1>6. CASE ListenEnd
    <2>1. quit
        BY <1>6 DEF ListenEnd, Goto, WalletInv, CloseInv
    <2> QED BY <1>6, <2>1, Move DEF ListenEnd, loopVars
<1>7. CASE ListenJoin
    <2>1. quit
        BY <1>7 DEF ListenJoin, Goto, WalletInv, CloseInv
    <2> QED BY <1>7, <2>1, Move DEF ListenJoin, loopVars
<1>8. CASE LoopSubErr
    BY <1>8, Move DEF LoopSubErr
<1>9. CASE LoopHubEvent
    BY <1>9, Move DEF LoopHubEvent
<1> QED
    BY <1>1, <1>2, <1>3, <1>4, <1>5, <1>6, <1>7, <1>8, <1>9,
       TrackEventWalletInv, HandleWalletInv, SetWalletInv DEF Listen

\* A step of the Toggle by a goroutine other than the event loop.
LEMMA ToggleWalletInv ==
    ASSUME WalletInv, NEW g \in Goroutines, g # "listen",
           UNCHANGED <<box, status, state>>, quit => quit',
           NEW to \in T!PCs, pc' = [pc EXCEPT ![g] = to] \/ pc' = pc,
           g = "close" /\ to \in T!ClosePCs => quit',
           quit' \in BOOLEAN, closed' \in BOOLEAN,
           closed' => closed \/ quit',
           panicked' # NoOne => panicked # NoOne \/ quit',
           at' = at \/ (g = "close" /\ at["close"] = "open" /\ quit'
                                  /\ at' = [at EXCEPT !["close"] = "toggle"])
    PROVE  WalletInv'
<1> USE ProcsAreProcs DEF WalletInv
<1>1. /\ pc' \in [Goroutines -> T!PCs] /\ pc'["listen"] = pc["listen"]
      /\ pc'["close"] = pc["close"] \/ (g = "close" /\ pc'["close"] = to)
    BY DEF WalletTypes
<1>2. /\ at' \in [Procs -> Places] /\ at'["listen"] = at["listen"]
      /\ at'["close"] \in {"devices", "ended"} => at["close"] \in {"devices", "ended"}
      /\ at'["close"] # "open" => at["close"] # "open" \/ quit'
      /\ \A h \in Procs : at'[h] = "nil" => at[h] = "nil"
      /\ \A h \in Procs : at'[h] \in {"handle", "use"} <=> at[h] \in {"handle", "use"}
    BY DEF WalletTypes, PCFun, Places, CloseAt
<1>3. AnyOpen' = AnyOpen /\ Owners' = Owners
    BY <1>2 DEF AnyOpen, Owners, Procs
<1>4. WalletTypes' /\ MapHasOneOwner'
    BY <1>1, <1>2, <1>3 DEF WalletTypes, PCFun, MapHasOneOwner
<1>5. LoopInv'
    BY <1>1, <1>2, <1>3 DEF LoopInv
<1>6. CloseInv'
    BY <1>1, <1>2 DEF CloseInv
<1> QED BY <1>4, <1>5, <1>6

\* The steps of Close().
LEMMA CloseWalletInv == ASSUME WalletInv, CloseQuit \/ CloseSteps PROVE WalletInv'
<1> USE ProcsAreProcs
<1>1. CASE CloseQuit
    <2>1. /\ quit' = TRUE /\ at["close"] = "open" /\ at' = [at EXCEPT !["close"] = "toggle"]
          /\ pc' = [pc EXCEPT !["close"] = "close.sigChan"]
          /\ UNCHANGED <<box, status, state, closed, panicked>>
        BY <1>1 DEF CloseQuit, Goto, T!Call, loopVars
    <2>2. "close.sigChan" \in T!PCs /\ quit' /\ closed' \in BOOLEAN
        BY <2>1 DEF T!PCs, T!ClosePCs, WalletInv, WalletTypes
    <2> QED BY <2>1, <2>2, ToggleWalletInv
<1>2. CASE CloseToggle
    <2>1. UNCHANGED <<quit, box, status, at>> /\ T!Close("close")
        BY <1>2 DEF CloseToggle, loopVars
    <2>2. quit
        BY <2>1 DEF T!Close, T!CloseSigChan, T!CloseClose, T!ClosePanic, T!Goto, T!Panic,
                    WalletInv, CloseInv, T!ClosePCs
    <2>3. PICK to \in {"close.close", "idle"} : pc' = [pc EXCEPT !["close"] = to] \/ pc' = pc
        BY <2>1 DEF T!Close, T!CloseSigChan, T!CloseClose, T!ClosePanic, T!Goto, T!Panic
    <2>4. to \in T!PCs
        BY DEF T!PCs, T!RestPCs, T!ClosePCs
    <2>5. UNCHANGED state /\ closed' \in BOOLEAN
        BY <2>1 DEF T!Close, T!CloseSigChan, T!CloseClose, T!ClosePanic, WalletInv, WalletTypes
    <2>6. quit' /\ quit' \in BOOLEAN
        BY <2>1, <2>2 DEF WalletInv, WalletTypes
    <2> QED BY <2>1, <2>2, <2>3, <2>4, <2>5, <2>6, ToggleWalletInv
<1>3. CASE CloseTake
    <2>1. quit
        BY <1>3 DEF CloseTake, Goto, WalletInv, CloseInv
    <2> QED BY <1>3, <2>1, Move DEF CloseTake, loopVars, Places, CloseAt
<1>4. CASE CloseWait
    BY <1>4, Move DEF CloseWait, loopVars, Places, CloseAt
<1>5. CASE CloseDevices
    <2>1. at["listen"] \in {"join", "ended"}
        BY <1>5 DEF CloseDevices, Goto, WalletInv, CloseInv
    <2> QED BY <1>5, <2>1, Move DEF CloseDevices, loopVars, Places, CloseAt
<1> QED BY <1>1, <1>2, <1>3, <1>4, <1>5 DEF CloseSteps

\* SignerFn() and the function it returns.
LEMMA SignerWalletInv ==
    ASSUME WalletInv, NEW g \in Signers, SignerCall(g) \/ Signer(g)
    PROVE  WalletInv'
<1> USE ProcsAreProcs DEF Places, SignerAt
<1>0. g \in Procs /\ g # "listen" /\ g # "close"
    OBVIOUS
<1>1. CASE SignerCall(g)
    BY <1>0, <1>1, Move DEF SignerCall, loopVars
<1>2. CASE SignerTakeClosed(g)
    BY <1>0, <1>2, Move DEF SignerTakeClosed, loopVars
<1>3. CASE SignerNilPanic(g)
    <2>1. quit
        BY <1>0, <1>3 DEF SignerNilPanic, Panic, WalletInv, CloseInv
    <2> QED BY <1>0, <1>3, <2>1, Panics DEF SignerNilPanic
<1>4. CASE SignerTake(g) \/ SignerPut(g)
    <2> USE DEF WalletInv
    <2>1. PICK to \in {"use", "idle"} : at' = [at EXCEPT ![g] = to]
        BY <1>4 DEF SignerTake, SignerPut, TakeMap, PutMap, Goto
    <2>2. /\ box \in {"full", "empty"} /\ box' \in {"full", "empty"}
          /\ UNCHANGED <<quit, status, mu, state, buf, closed, pc, done, panicked>>
        BY <1>4 DEF SignerTake, SignerPut, TakeMap, PutMap, loopVars, toggleVars
    <2>3. /\ at' \in [Procs -> Places]
          /\ at'["listen"] = at["listen"] /\ at'["close"] = at["close"]
          /\ \A h \in Procs : at'[h] = "nil" => at[h] = "nil"
        BY <1>0, <2>1 DEF WalletTypes, PCFun
    <2>4. MapHasOneOwner'
        BY <1>0, <1>4, OwnersTake, OwnersPut DEF SignerTake, SignerPut, WalletTypes
    <2>5. AnyOpen' = AnyOpen
        BY <2>2 DEF AnyOpen
    <2>6. WalletTypes' /\ LoopInv'
        BY <2>2, <2>3, <2>5 DEF WalletTypes, PCFun, LoopInv
    <2>7. CloseInv'
        BY <2>2, <2>3 DEF CloseInv
    <2> QED BY <2>4, <2>6, <2>7
<1> QED BY <1>1, <1>2, <1>3, <1>4 DEF Signer

\* Wait(), which is a Wait() of the Toggle.
LEMMA WaiterWalletInv ==
    ASSUME WalletInv, NEW g \in Waiters, WaiterCall(g) \/ WaiterWait(g)
    PROVE  WalletInv'
<1> USE ProcsAreProcs
<1>0. g \in Goroutines /\ g # "listen" /\ g # "close"
    OBVIOUS
<1>1. /\ UNCHANGED <<quit, box, status, at>>
      /\ T!WaitCall(g) \/ T!CtxDone(g) \/ T!Wait(g)
    BY DEF WaiterCall, WaiterWait, loopVars
<1>2. UNCHANGED <<state, closed>> /\ (panicked' = panicked \/ closed)
    BY <1>1 DEF T!WaitCall, T!CtxDone, T!Wait, T!WaitSigChan, T!WaitCtxErr, T!WaitRecv,
                T!WaitRecvClosed, T!WaitReturn, T!WaitReturnPanic
<1>3. PICK to \in T!WaitPCs \cup T!RestPCs : pc' = [pc EXCEPT ![g] = to] \/ pc' = pc
    BY <1>1 DEF T!WaitCall, T!CtxDone, T!Wait, T!WaitSigChan, T!WaitCtxErr, T!WaitRecv,
                T!WaitRecvClosed, T!WaitReturn, T!WaitReturnPanic, T!Call, T!Goto, T!WaitResult,
                T!Panic, T!WaitPCs, T!RestPCs
<1>4. to \in T!PCs
    BY DEF T!PCs
<1>5. quit' \in BOOLEAN /\ closed' \in BOOLEAN /\ (closed => quit')
    BY <1>1, <1>2 DEF WalletInv, WalletTypes, CloseInv
<1> QED BY <1>0, <1>1, <1>2, <1>3, <1>4, <1>5, ToggleWalletInv

\* Every step keeps the invariant.
LEMMA NextWalletInv == WalletInv /\ [Next]_vars => WalletInv'
<1> SUFFICES ASSUME WalletInv, [Next]_vars PROVE WalletInv'
    OBVIOUS
<1>1. CASE ReadErr
    BY <1>1, Stay DEF ReadErr
<1>2. CASE UNCHANGED vars
    BY <1>2, Stay DEF vars, loopVars
<1> QED
    BY <1>1, <1>2, TrackWalletInv, ListenWalletInv, CloseWalletInv, SignerWalletInv,
       WaiterWalletInv DEF Next, Ended

-----------------------------------------------------------------------------

\* The map of wallets is in its channel or has one owner, for any number of
\* devices, signers and waiters (eventLoop(), derive(), SignerFn(), Close()).
THEOREM MapAlwaysHasOneOwner == Spec => []MapHasOneOwner
<1>1. WalletInv => MapHasOneOwner
    BY DEF WalletInv
<1> QED
    BY InitWalletInv, NextWalletInv, <1>1, PTL DEF Spec

\* The Toggle says whether a wallet is open whenever eventLoop() waits.
THEOREM ToggleFollowsMap == Spec => []AvailableIsAnyOpen
<1>1. WalletInv => AvailableIsAnyOpen
    BY DEF WalletInv, LoopInv, AvailableIsAnyOpen
<1> QED
    BY InitWalletInv, NextWalletInv, <1>1, PTL DEF Spec

\* No goroutine of the wallet panics unless Close() has been called.
THEOREM NoPanicWhileOpen == Spec => []PanicsOnlyInClose
<1>1. WalletInv => PanicsOnlyInClose
    BY DEF WalletInv, CloseInv, PanicsOnlyInClose
<1> QED
    BY InitWalletInv, NextWalletInv, <1>1, PTL DEF Spec

\* Once Close() has closed the channel of the map, the map is neither put back
\* nor written, and Close() reaches the devices only after listen() has ended.
THEOREM CloseStopsManagement == Spec => ManagementStops
<1> DEFINE Step ==
        box = "closed" => box' = "closed" /\ status' = status /\
            (at'["close"] \in {"devices", "ended"} => at'["listen"] \in {"join", "ended"})
<1>1. ASSUME Next, box = "closed" PROVE box' = "closed" /\ status' = status
    <2>1. CASE Track
        BY <1>1, <2>1 DEF Track, TrackList, TrackQuit, TrackSendPanic, Panic, loopVars
    <2>2. CASE Listen
        BY <1>1, <2>2 DEF Listen, LoopQuit, LoopTrackEvent, LoopLock, LoopLockClosed,
           LoopNilPanic, LoopHandle, LoopSet, LoopReturn, ListenEnd, ListenJoin, TakeMap, PutMap,
           Panic, loopVars
    <2>3. CASE LoopSubErr \/ LoopHubEvent \/ ReadErr
        BY <1>1, <2>3 DEF LoopSubErr, LoopHubEvent, ReadErr
    <2>4. CASE CloseQuit \/ CloseSteps
        BY <1>1, <2>4 DEF CloseQuit, CloseSteps, CloseToggle, CloseTake, CloseWait, CloseDevices,
           loopVars
    <2>5. ASSUME NEW g \in Signers, SignerCall(g) \/ Signer(g)
          PROVE  box' = "closed" /\ status' = status
        BY <1>1, <2>5 DEF SignerCall, Signer, SignerTake, SignerPut, SignerTakeClosed,
           SignerNilPanic, TakeMap, PutMap, Panic, loopVars
    <2>6. ASSUME NEW g \in Waiters, WaiterCall(g) \/ WaiterWait(g)
          PROVE  box' = "closed" /\ status' = status
        BY <1>1, <2>6 DEF WaiterCall, WaiterWait, loopVars
    <2>7. CASE Ended
        BY <1>1, <2>7 DEF Ended, vars, loopVars
    <2> QED BY <1>1, <2>1, <2>2, <2>3, <2>4, <2>5, <2>6, <2>7 DEF Next
<1>2. WalletInv' => (at'["close"] \in {"devices", "ended"} => at'["listen"] \in {"join", "ended"})
    BY DEF WalletInv, CloseInv
<1>3. WalletInv /\ WalletInv' /\ [Next]_vars => [Step]_vars
    BY <1>1, <1>2
<1> QED
    BY InitWalletInv, NextWalletInv, <1>3, PTL DEF Spec, ManagementStops

=============================================================================
