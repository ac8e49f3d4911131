------------------------ MODULE SubscriptionsProofs ------------------------
(***************************************************************************)
(* Theorems about Subscriptions, for any number of users, requests, faults *)
(* and restarts.                                                           *)
(*                                                                         *)
(* The inductive invariant has five parts.  Shape says which requests may  *)
(* meet; Kept follows the creator through the sets that requests have read *)
(* and not yet written; Booting says what Invoke's reads are worth;        *)
(* Forgotten why nobody writes a dropped key; and Tracked(u), the part     *)
(* with the content, what the two stores say of user u at every point of   *)
(* his request.                                                            *)
(***************************************************************************)
EXTENDS Subscriptions, TLAPS

\* Create runs alone, before anybody else knows the timer.
Alone(r) ==
    /\ req[r].user = Creator
    /\ req[r].pc \in {"get", "set", "service", "uncache", "unmark"}
    /\ timer = "live"
    /\ members = {Creator}
    /\ uninvited = {}
    /\ req[r].pc \in {"get", "set"} => cached = {}
    /\ req[r].pc = "set" => req[r].got = {}
    /\ req[r].pc = "unmark" => cached = {} \/ leftover
    /\ \A q \in Req : Active(q) => q = r

\* A subscriber's request.
Other(r) ==
    /\ req[r].user # Creator
    /\ req[r].pc \in {"get", "set", "store", "undo.get", "undo.set"}

Shape == /\ timer = "none" => members = {} /\ cached = {} /\ uninvited = {} /\ ~filled
         /\ timer # "none" => Creator \in members
         /\ notice => timer = "deleted"
         /\ \A r \in Req : Active(r) =>
                /\ app = "up"
                /\ timer # "none"
                /\ IF req[r].op = "create" THEN Alone(r) ELSE Other(r)

Kept == filled =>
          /\ Creator \in cached
          /\ \A r \in Req : req[r].pc \in {"set", "undo.set"} /\ req[r].op # "create"
                               => Creator \in req[r].got

Booting == /\ app \in {"get", "set"} => timer # "none" /\ Creator \in boot.read
           /\ timer = "live" /\ app \in {"get", "set"} => boot.read = members
           /\ timer = "live" /\ app = "set" => boot.got = cached
           /\ timer = "live" /\ app # "up" =>
                 cached = {} \/ \A u \in User \ tangled : Agrees(u)

Forgotten == timer = "deleted" /\ ~notice /\ ~leftover =>
                /\ cached = {}
                /\ app \notin {"get", "set"}
                /\ \A r \in Req : ~Active(r)

\* What the stores say of the user of request r, next call by next call.
Phase(r) ==
    LET u == req[r].user
    IN  /\ req[r].pc = "get" /\ req[r].op # "create" => Agrees(u)
        /\ req[r].pc = "service" => Agrees(u)
        /\ req[r].op = "subscribe" =>
              /\ req[r].pc = "set" => u \notin cached /\ u \notin members
              /\ req[r].pc \in {"store", "undo.get", "undo.set"} => u \in cached /\ u \notin members
        /\ req[r].op = "unsubscribe" =>
              /\ req[r].pc = "set" => Agrees(u)
              /\ req[r].pc \in {"store", "undo.get", "undo.set"} => u \notin cached
              /\ req[r].pc \in {"undo.get", "undo.set"} => u \in members \/ u \in uninvited

Tracked(u) ==
    app = "up" /\ timer = "live" /\ u \notin tangled =>
        /\ ~Busy(u) => Agrees(u)
        /\ \A r \in Req : Active(r) /\ req[r].user = u =>
              /\ Phase(r)
              /\ \A q \in Req : Active(q) /\ req[q].user = u => q = r

IInv == /\ TypeOK
        /\ Shape
        /\ Kept
        /\ Booting
        /\ Forgotten
        /\ \A u \in User : Tracked(u)

-----------------------------------------------------------------------------
(* The invariant in the initial states *)

LEMMA InitIInv == Init => IInv
<1> SUFFICES ASSUME Init PROVE IInv
    OBVIOUS
<1>1. Idle \in Requests /\ NoBoot \in [read : SUBSET User, got : SUBSET User]
    BY CreatorAssumption DEF Idle, NoBoot, Requests, Labels
<1>2. \A r \in Req : ~Active(r)
    BY DEF Init, Active, Idle
<1>3. TypeOK
    BY <1>1 DEF Init, TypeOK
<1>4. Shape /\ Kept /\ Booting /\ Forgotten
    BY <1>2 DEF Init, Shape, Kept, Booting, Forgotten
<1>5. \A u \in User : Tracked(u)
    BY DEF Init, Tracked
<1>6. QED
    BY <1>3, <1>4, <1>5 DEF IInv

-----------------------------------------------------------------------------
(* The types *)

LEMMA TypeStep == TypeOK /\ [Next]_vars => TypeOK'
<1> SUFFICES ASSUME TypeOK, [Next]_vars PROVE TypeOK'
    OBVIOUS
<1>1. Idle \in Requests /\ NoBoot \in [read : SUBSET User, got : SUBSET User]
    BY CreatorAssumption DEF Idle, NoBoot, Requests, Labels
<1>2. ASSUME NEW r \in Req, NEW l \in Labels, Goto(r, l) PROVE req' \in [Req -> Requests]
    BY <1>2 DEF TypeOK, Goto, Requests
<1>3. ASSUME NEW r \in Req, Finish(r) PROVE req' \in [Req -> Requests]
    BY <1>1, <1>3 DEF TypeOK, Finish
<1>4. ASSUME NEW r \in Req, NEW u \in User, NEW o \in {"create", "subscribe", "unsubscribe"},
             Begin(r, o, u)
      PROVE  req' \in [Req -> Requests]
    BY <1>4 DEF TypeOK, Begin, Requests, Labels
<1>5. ASSUME Fault PROVE faults' \in Nat
    BY <1>5, BoundAssumption DEF TypeOK, Fault
<1>6. \A r \in Req : CacheFails(r) => req' \in [Req -> Requests]
    BY <1>2, <1>3 DEF CacheFails, Labels
<1>7. ASSUME NEW r \in Req, RequestStep(r) PROVE TypeOK'
    <2>1. CASE Create(r)
        BY <1>4, <1>5, <2>1, CreatorAssumption DEF TypeOK, Create, appVars
    <2>2. ASSUME NEW u \in User, Ask(r, "subscribe", u) \/ Ask(r, "unsubscribe", u) PROVE TypeOK'
        BY <1>4, <2>2 DEF TypeOK, Ask, appVars
    <2>3. CASE CacheGet(r)
        <3>1. ASSUME NEW l \in Labels, req' = [req EXCEPT ![r] = [@ EXCEPT !.pc = l, !.got = cached]]
              PROVE  req' \in [Req -> Requests]
            BY <3>1 DEF TypeOK, Requests
        <3>2. req' \in [Req -> Requests]
            BY <1>6, <2>3, <3>1 DEF CacheGet, Labels
        <3>3. tangled' \in SUBSET User
            BY <2>3 DEF CacheGet, TypeOK, Requests
        <3>4. QED
            BY <1>5, <2>3, <3>2, <3>3 DEF TypeOK, CacheGet, appVars
    <2>4. CASE CacheSet(r)
        <3>1. Written(r) \in SUBSET User /\ req[r].user \in User
            BY DEF Written, TypeOK, Requests
        <3>2. cached' \in SUBSET User
            BY <2>4, <3>1 DEF CacheSet, Outcomes, TypeOK
        <3>3. Clobbered(r) \in SUBSET User
            BY <3>2 DEF Clobbered, TypeOK
        <3>4. tangled' \in SUBSET User
            BY <2>4, <3>1, <3>3 DEF CacheSet, TypeOK
        <3>5. req' \in [Req -> Requests]
            BY <1>2, <1>3, <1>6, <2>4 DEF CacheSet, Labels
        <3>6. filled' \in BOOLEAN /\ leftover' \in BOOLEAN /\ faults' \in Nat
            BY <1>5, <2>4 DEF CacheSet, TypeOK
        <3>7. QED
            BY <2>4, <3>2, <3>4, <3>5, <3>6 DEF TypeOK, CacheSet, appVars
    <2>5. CASE Store(r)
        <3>1. /\ members' \in SUBSET User /\ tangled' \in SUBSET User
              /\ uninvited' \in SUBSET User /\ faults' \in Nat
            BY <1>5, <2>5 DEF Store, Outcomes, TypeOK, Requests
        <3>2. req' \in [Req -> Requests]
            BY <1>2, <1>3, <2>5 DEF Store, Labels
        <3>3. QED
            BY <2>5, <3>1, <3>2 DEF TypeOK, Store, appVars
    <2>6. CASE ServiceAdd(r)
        BY <1>2, <1>3, <1>5, <2>6 DEF TypeOK, ServiceAdd, appVars, history, Labels
    <2>7. CASE UndoCache(r)
        BY <1>2, <1>5, <2>7 DEF TypeOK, UndoCache, appVars, Outcomes, Labels
    <2>8. CASE UndoInsert(r)
        BY <1>3, <1>5, <2>8, CreatorAssumption DEF TypeOK, UndoInsert, appVars, Outcomes
    <2>9. QED
        BY <1>7, <2>1, <2>2, <2>3, <2>4, <2>5, <2>6, <2>7, <2>8 DEF RequestStep
<1>8. CASE MarkDeleted
    BY <1>5, <1>8 DEF TypeOK, MarkDeleted, appVars
<1>9. CASE DropKey
    BY <1>5, <1>9 DEF TypeOK, DropKey, appVars, Outcomes
<1>10. CASE Crash
    <2>1. /\ req' \in [Req -> Requests]
          /\ tangled' \in SUBSET User
          /\ cached' \in SUBSET User
        BY <1>1, <1>10 DEF TypeOK, Crash
    <2>2. filled' \in BOOLEAN /\ leftover' \in BOOLEAN /\ crashes' \in Nat
        BY <1>10, BoundAssumption DEF TypeOK, Crash
    <2>3. QED
        BY <1>1, <1>10, <2>1, <2>2 DEF TypeOK, Crash
<1>11. CASE Restart
    BY <1>11 DEF TypeOK, Restart, history
<1>12. CASE InvokeRead
    BY <1>1, <1>5, <1>12 DEF TypeOK, InvokeRead, InvokeFails, Serve
<1>13. CASE InvokeGet
    BY <1>1, <1>5, <1>13 DEF TypeOK, InvokeGet, InvokeFails, Serve
<1>14. CASE InvokeSet
    BY <1>1, <1>5, <1>14 DEF TypeOK, InvokeSet, InvokeFails, Serve, Outcomes
<1>15. CASE UNCHANGED vars
    BY <1>15 DEF TypeOK, vars, appVars, history
<1>16. QED
    BY <1>7, <1>8, <1>9, <1>10, <1>11, <1>12, <1>13, <1>14, <1>15 DEF Next

-----------------------------------------------------------------------------
(* The requests, as the step of one of them leaves them *)

LEMMA OthersStay ==
    ASSUME TypeOK, NEW r \in Req, RequestStep(r)
    PROVE  \A q \in Req \ {r} : req'[q] = req[q]
BY DEF TypeOK, RequestStep, Create, Ask, CacheGet, CacheSet, Store, ServiceAdd, UndoCache,
       UndoInsert, Begin, Goto, Finish, CacheFails

LEMMA GotoIs ==
    ASSUME TypeOK, NEW r \in Req, NEW l, Goto(r, l)
    PROVE  /\ req'[r].pc = l
           /\ req'[r].op = req[r].op
           /\ req'[r].user = req[r].user
           /\ req'[r].got = req[r].got
BY DEF TypeOK, Goto, Requests

LEMMA FinishIs ==
    ASSUME TypeOK, NEW r \in Req, Finish(r)
    PROVE  req'[r] = Idle
BY DEF TypeOK, Finish

LEMMA BeginIs ==
    ASSUME TypeOK, NEW r \in Req, NEW o, NEW u, Begin(r, o, u)
    PROVE  /\ req'[r].pc = "get"
           /\ req'[r].op = o
           /\ req'[r].user = u
           /\ req'[r].got = {}
BY DEF TypeOK, Begin

LEMMA GetIs ==
    ASSUME TypeOK, NEW r \in Req, CacheGet(r), ~CacheFails(r)
    PROVE  /\ req'[r].pc = IF Undoing(r) THEN "undo.set" ELSE "set"
           /\ req'[r].op = req[r].op
           /\ req'[r].user = req[r].user
           /\ req'[r].got = cached
           /\ ~Refused(r)
           /\ UNCHANGED tangled
<1>1. /\ req' = [req EXCEPT ![r] = [@ EXCEPT !.pc = IF Undoing(r) THEN "undo.set" ELSE "set",
                                             !.got = cached]]
      /\ ~Refused(r)
      /\ UNCHANGED tangled
    BY DEF CacheGet
<1>2. QED
    BY <1>1 DEF TypeOK, Requests

-----------------------------------------------------------------------------
(* Shape *)

\* A step of request r that leaves the others, the timer and the application
\* alone has only r's own part of Shape to keep.
LEMMA ShapeOfRequest ==
    ASSUME Shape, NEW r \in Req, Active(r),
           \A q \in Req \ {r} : req'[q] = req[q],
           UNCHANGED <<timer, notice, app>>,
           Creator \in members => Creator \in members',
           Active(r)' => IF req'[r].op = "create" THEN Alone(r)' ELSE Other(r)'
    PROVE  Shape'
<1>1. timer # "none" /\ app = "up"
    BY DEF Shape
<1>2. ASSUME NEW q \in Req \ {r}, Active(q)' PROVE req'[q].op # "create" /\ Other(q)'
    <2>1. Active(q) /\ q # r
        BY <1>2 DEF Active
    <2>2. ~Alone(q)
        BY <2>1 DEF Alone
    <2>3. req[q].op # "create" /\ Other(q)
        BY <2>1, <2>2 DEF Shape
    <2>4. QED
        BY <2>3 DEF Other
<1>3. QED
    BY <1>1, <1>2 DEF Shape

LEMMA ShapeStep ==
    ASSUME TypeOK, TypeOK', Shape, Booting, [Next]_vars
    PROVE  Shape'
<1>1. ASSUME NEW r \in Req, RequestStep(r) PROVE Shape'
    <2>1. \A q \in Req \ {r} : req'[q] = req[q] /\ (Active(q)' <=> Active(q))
        BY <1>1, OthersStay DEF Active
    <2>2. CASE Create(r)
        <3>1. CASE Begin(r, "create", Creator) /\ UNCHANGED <<faults, tangled>>
            <4>1. /\ req'[r].pc = "get" /\ req'[r].op = "create"
                  /\ req'[r].user = Creator
                BY <3>1, BeginIs
            <4>2. QED
                BY <2>1, <2>2, <4>1 DEF Create, Shape, Active, Alone, appVars
        <3>2. CASE UNCHANGED req
            BY <2>2, <3>2 DEF Create, Shape, Active, appVars
        <3>3. QED
            BY <2>2, <3>1, <3>2 DEF Create
    <2>3. ASSUME NEW u \in User, NEW o \in {"subscribe", "unsubscribe"}, Ask(r, o, u) PROVE Shape'
        <3>1. req'[r].pc = "get" /\ req'[r].op = o /\ req'[r].user = u
            BY <2>3, BeginIs DEF Ask
        <3>2. \A q \in Req : Active(q) => req[q].op # "create"
            BY <2>3 DEF Ask, Creating
        <3>3. \A q \in Req \ {r} : Active(q)' => Other(q)'
            BY <2>1, <3>2 DEF Shape, Other
        <3>4. Other(r)'
            BY <2>3, <3>1 DEF Ask, Other
        <3>5. \A q \in Req : Active(q)' => app' = "up" /\ timer' # "none" /\ req'[q].op # "create"
            BY <2>1, <2>3, <3>1, <3>2 DEF Ask, Shape, appVars
        <3>6. QED
            BY <2>3, <3>3, <3>4, <3>5 DEF Ask, Shape, appVars
    <2>4. ASSUME Active(r), UNCHANGED <<timer, notice, app>>,
                 Creator \in members => Creator \in members',
                 Active(r)' => IF req'[r].op = "create" THEN Alone(r)' ELSE Other(r)'
          PROVE  Shape'
        BY <2>1, <2>4, ShapeOfRequest
    <2>5. Active(r) => IF req[r].op = "create" THEN Alone(r) ELSE Other(r)
        BY DEF Shape
    <2>6. \A q \in Req : q # r /\ req[r].op = "create" /\ Active(r) => ~Active(q)'
        BY <2>1, <2>5 DEF Alone
    <2>7. CASE CacheGet(r)
        <3>1. Active(r) /\ UNCHANGED <<timer, notice, app, members, cached, leftover, uninvited>>
            BY <2>7 DEF CacheGet, Active, appVars
        <3>2. CASE Finish(r)
            BY <2>4, <3>1, <3>2, FinishIs DEF Active, Idle
        <3>3. CASE req[r].op = "create" /\ Goto(r, "unmark")
            <4>1. req'[r].pc = "unmark" /\ req'[r].user = Creator /\ req'[r].op = "create"
                BY <2>5, <3>1, <3>3, GotoIs DEF Alone
            <4>2. cached = {} /\ timer = "live" /\ members = {Creator} /\ uninvited = {}
                BY <2>5, <2>7, <3>1, <3>3 DEF Alone, CacheGet
            <4>3. Alone(r)'
                BY <2>6, <3>1, <3>3, <4>1, <4>2 DEF Alone
            <4>4. QED
                BY <2>4, <3>1, <4>1, <4>3
        <3>4. CASE req' = [req EXCEPT ![r] = [@ EXCEPT !.pc = IF Undoing(r) THEN "undo.set" ELSE "set",
                                                        !.got = cached]]
            <4>1. /\ req'[r].pc = IF Undoing(r) THEN "undo.set" ELSE "set"
                  /\ req'[r].op = req[r].op
                  /\ req'[r].user = req[r].user
                  /\ req'[r].got = cached
                BY <3>4 DEF TypeOK, Requests
            <4>2. CASE req[r].op = "create"
                <5>1. /\ req'[r].pc = "set" /\ cached = {} /\ timer = "live"
                      /\ members = {Creator} /\ req[r].user = Creator /\ uninvited = {}
                    BY <2>5, <2>7, <3>1, <4>1, <4>2 DEF Alone, CacheGet, Undoing
                <5>2. Alone(r)'
                    BY <2>6, <3>1, <4>1, <4>2, <5>1 DEF Alone
                <5>3. QED
                    BY <2>4, <3>1, <4>1, <4>2, <5>2
            <4>3. CASE req[r].op # "create"
                <5>1. Other(r)'
                    BY <2>5, <3>1, <4>1, <4>3 DEF Other
                <5>2. QED
                    BY <2>4, <3>1, <4>1, <4>3, <5>1
            <4>4. QED
                BY <4>2, <4>3
        <3>5. QED
            BY <2>7, <3>2, <3>3, <3>4 DEF CacheGet, CacheFails
    <2>8. CASE CacheSet(r)
        <3>1. Active(r) /\ UNCHANGED <<timer, notice, app, members, uninvited>>
            BY <2>8 DEF CacheSet, Active, appVars
        <3>2. CASE Finish(r)
            BY <2>4, <3>1, <3>2, FinishIs DEF Active, Idle
        <3>3. CASE req[r].op = "create" /\ Goto(r, "unmark") /\ leftover'
            <4>1. req'[r].pc = "unmark" /\ req'[r].user = Creator /\ req'[r].op = "create"
                BY <2>5, <3>1, <3>3, GotoIs DEF Alone
            <4>2. timer = "live" /\ members = {Creator} /\ uninvited = {}
                BY <2>5, <3>1, <3>3 DEF Alone
            <4>3. Alone(r)'
                BY <2>6, <3>1, <3>3, <4>1, <4>2 DEF Alone
            <4>4. QED
                BY <2>4, <3>1, <4>1, <4>3
        <3>4. CASE req[r].op = "create" /\ Goto(r, "service")
            <4>1. req'[r].pc = "service" /\ req'[r].user = Creator /\ req'[r].op = "create"
                BY <2>5, <3>1, <3>4, GotoIs DEF Alone
            <4>2. timer = "live" /\ members = {Creator} /\ uninvited = {}
                BY <2>5, <3>1, <3>4 DEF Alone
            <4>3. Alone(r)'
                BY <2>6, <3>1, <3>4, <4>1, <4>2 DEF Alone
            <4>4. QED
                BY <2>4, <3>1, <4>1, <4>3
        <3>5. CASE req[r].op # "create" /\ Goto(r, "store")
            <4>1. req'[r].pc = "store" /\ req'[r].user = req[r].user /\ req'[r].op = req[r].op
                BY <3>5, GotoIs
            <4>2. Other(r)'
                BY <2>5, <3>1, <3>5, <4>1 DEF Other
            <4>3. QED
                BY <2>4, <3>1, <3>5, <4>1, <4>2
        <3>6. QED
            BY <2>8, <3>2, <3>3, <3>4, <3>5 DEF CacheSet, CacheFails
    <2>9. CASE Store(r)
        <3>1. /\ Active(r) /\ req[r].pc = "store" /\ UNCHANGED <<timer, notice, app>>
              /\ req[r].op # "create" /\ req[r].user # Creator
            BY <2>5, <2>9 DEF Store, Active, appVars, Alone, Other
        <3>2. Creator \in members => Creator \in members'
            BY <2>9, <3>1 DEF Store, Outcomes
        <3>3. CASE Finish(r)
            BY <2>4, <3>1, <3>2, <3>3, FinishIs DEF Active, Idle
        <3>4. CASE Goto(r, "undo.get")
            BY <2>4, <3>1, <3>2, <3>4, GotoIs DEF Other
        <3>5. QED
            BY <2>9, <3>3, <3>4 DEF Store
    <2>10. CASE ServiceAdd(r)
        <3>1. /\ Active(r) /\ req[r].op = "create"
              /\ UNCHANGED <<timer, notice, app, members, cached, uninvited>>
            BY <2>5, <2>10 DEF ServiceAdd, Active, appVars, history, Other
        <3>2. CASE Finish(r)
            BY <2>4, <3>1, <3>2, FinishIs DEF Active, Idle
        <3>3. CASE Goto(r, "uncache")
            <4>1. req'[r].pc = "uncache" /\ req'[r].user = Creator /\ req'[r].op = "create"
                BY <2>5, <3>1, <3>3, GotoIs DEF Alone
            <4>2. Alone(r)'
                BY <2>5, <2>6, <3>1, <4>1 DEF Alone
            <4>3. QED
                BY <2>4, <3>1, <4>1, <4>2
        <3>4. QED
            BY <2>10, <3>2, <3>3 DEF ServiceAdd
    <2>11. CASE UndoCache(r)
        <3>1. /\ Active(r) /\ req[r].op = "create"
              /\ UNCHANGED <<timer, notice, app, members, uninvited>>
              /\ cached' = {} \/ leftover'
            BY <2>5, <2>11 DEF UndoCache, Active, appVars, Other
        <3>2. req'[r].pc = "unmark" /\ req'[r].user = Creator /\ req'[r].op = "create"
            BY <2>5, <2>11, <3>1, GotoIs DEF Alone, UndoCache
        <3>3. Alone(r)'
            BY <2>5, <2>6, <3>1, <3>2 DEF Alone
        <3>4. QED
            BY <2>4, <3>1, <3>2, <3>3
    <2>12. CASE UndoInsert(r)
        <3>1. Active(r) /\ req[r].op = "create" /\ members = {Creator} /\ timer = "live"
            BY <2>5, <2>12 DEF UndoInsert, Active, Other, Alone
        <3>2. \A q \in Req : ~Active(q)'
            BY <2>6, <2>12, <3>1, FinishIs DEF UndoInsert, Active, Idle
        <3>3. timer' # "none" /\ UNCHANGED <<members, notice>> /\ ~notice
            BY <2>12, <3>1 DEF UndoInsert, Outcomes, Shape
        <3>4. QED
            BY <3>1, <3>2, <3>3 DEF Shape
    <2>13. QED
        BY <1>1, <2>2, <2>3, <2>7, <2>8, <2>9, <2>10, <2>11, <2>12 DEF RequestStep
<1>2. CASE MarkDeleted
    <2>1. \A r \in Req : Active(r) => req[r].op # "create"
        BY <1>2 DEF MarkDeleted, Creating
    <2>2. \A r \in Req : Active(r)' => Active(r) /\ Other(r)' /\ req'[r].op # "create"
        BY <1>2, <2>1 DEF MarkDeleted, Active, Shape, Other
    <2>3. QED
        BY <1>2, <2>2 DEF MarkDeleted, Shape, appVars
<1>3. CASE DropKey
    BY <1>3 DEF DropKey, Shape, Alone, Other, Active, appVars
<1>4. CASE Crash
    <2>1. \A r \in Req : ~Active(r)'
        BY <1>4 DEF Crash, Active, Idle
    <2>2. QED
        BY <1>4, <2>1 DEF Crash, Shape
<1>5. CASE Restart
    BY <1>5 DEF Restart, Shape, Alone, Other, Active, history
<1>6. CASE InvokeRead
    <2>1. \A r \in Req : ~Active(r)'
        BY <1>6 DEF InvokeRead, Shape, Active
    <2>2. QED
        BY <1>6, <2>1 DEF InvokeRead, Shape
<1>7. CASE InvokeGet
    <2>1. \A r \in Req : ~Active(r)'
        BY <1>7 DEF InvokeGet, Shape, Active
    <2>2. QED
        BY <1>7, <2>1 DEF InvokeGet, Shape
<1>8. CASE InvokeSet
    <2>1. \A r \in Req : ~Active(r)'
        BY <1>8 DEF InvokeSet, Shape, Active
    <2>2. QED
        BY <1>8, <2>1 DEF InvokeSet, Shape, Booting
<1>9. CASE UNCHANGED vars
    BY <1>9 DEF vars, appVars, history, Shape, Alone, Other, Active
<1>10. QED
    BY <1>1, <1>2, <1>3, <1>4, <1>5, <1>6, <1>7, <1>8, <1>9 DEF Next

-----------------------------------------------------------------------------
(* The creator in the set *)

LEMMA KeptStep ==
    ASSUME TypeOK, TypeOK', Shape, Kept, Booting, [Next]_vars
    PROVE  Kept'
<1>1. ASSUME NEW r \in Req, RequestStep(r) PROVE Kept'
    <2>1. \A q \in Req \ {r} : req'[q] = req[q]
        BY <1>1, OthersStay
    <2>2. ASSUME UNCHANGED <<cached, filled>>,
                 req'[r].pc \notin {"set", "undo.set"}
          PROVE  Kept'
        BY <2>1, <2>2 DEF Kept
    <2>3. Active(r) /\ req[r].op # "create" => Other(r)
        BY DEF Shape
    <2>4. Active(r) /\ req[r].op = "create" => Alone(r)
        BY DEF Shape
    <2>5. CASE Create(r)
        <3>1. UNCHANGED <<cached, filled>>
            BY <2>5 DEF Create
        <3>2. CASE Begin(r, "create", Creator)
            BY <2>2, <3>1, <3>2, BeginIs
        <3>3. CASE UNCHANGED req
            BY <3>1, <3>3 DEF Kept
        <3>4. QED
            BY <2>5, <3>2, <3>3 DEF Create
    <2>6. ASSUME NEW u \in User, NEW o \in {"subscribe", "unsubscribe"}, Ask(r, o, u) PROVE Kept'
        BY <2>2, <2>6, BeginIs DEF Ask
    <2>7. CASE CacheGet(r)
        <3>1. UNCHANGED <<cached, filled>>
            BY <2>7 DEF CacheGet
        <3>2. CASE CacheFails(r)
            <4>1. req'[r].pc \in {"unmark", "idle"}
                BY <3>2, GotoIs, FinishIs DEF CacheFails, Idle
            <4>2. QED
                BY <2>2, <3>1, <4>1
        <3>3. CASE ~CacheFails(r)
            <4>1. req'[r].got = cached
                BY <2>7, <3>3, GetIs
            <4>2. QED
                BY <2>1, <3>1, <4>1 DEF Kept
        <3>4. QED
            BY <3>2, <3>3
    <2>8. CASE CacheSet(r)
        <3>1. req'[r].pc \in {"idle", "service", "store", "unmark"}
            BY <2>8, GotoIs, FinishIs DEF CacheSet, CacheFails, Idle
        <3>2. \A q \in Req : req'[q].pc \in {"set", "undo.set"} => q # r /\ req'[q] = req[q]
            BY <2>1, <3>1
        <3>3. CASE req[r].op = "create"
            <4>1. \A q \in Req : req'[q].pc \notin {"set", "undo.set"}
                BY <2>4, <2>8, <3>2, <3>3 DEF Alone, Active, CacheSet
            <4>2. req[r].user = Creator /\ Adds(r)
                BY <2>4, <2>8, <3>3 DEF Alone, Active, CacheSet, Adds, Undoing
            <4>3. filled' => Creator \in cached'
                BY <2>8, <4>2 DEF CacheSet, Kept, Written, Outcomes
            <4>4. QED
                BY <4>1, <4>3 DEF Kept
        <3>4. CASE req[r].op # "create"
            <4>1. UNCHANGED filled
                BY <2>8, <3>4 DEF CacheSet, TypeOK
            <4>2. filled => Creator \in req[r].got
                BY <2>8, <3>4 DEF Kept, CacheSet
            <4>3. req[r].user # Creator
                BY <2>3, <2>8, <3>4 DEF Other, Active, CacheSet
            <4>4. filled => Creator \in Written(r)
                BY <4>2, <4>3 DEF Written
            <4>5. filled => Creator \in cached'
                BY <2>8, <4>4 DEF CacheSet, Outcomes, Kept
            <4>6. QED
                BY <3>2, <4>1, <4>5 DEF Kept
        <3>5. QED
            BY <3>3, <3>4
    <2>9. CASE Store(r)
        BY <2>2, <2>9, GotoIs, FinishIs DEF Store, Idle
    <2>10. CASE ServiceAdd(r)
        BY <2>2, <2>10, GotoIs, FinishIs DEF ServiceAdd, Idle, history
    <2>11. CASE UndoCache(r)
        BY <2>11 DEF UndoCache, Kept
    <2>12. CASE UndoInsert(r)
        BY <2>2, <2>12, FinishIs DEF UndoInsert, Idle
    <2>13. QED
        BY <1>1, <2>5, <2>6, <2>7, <2>8, <2>9, <2>10, <2>11, <2>12 DEF RequestStep
<1>2. CASE MarkDeleted
    BY <1>2 DEF MarkDeleted, Kept
<1>3. CASE DropKey
    BY <1>3 DEF DropKey, Kept
<1>4. CASE Crash
    BY <1>4 DEF Crash, Kept, Idle
<1>5. CASE Restart
    BY <1>5 DEF Restart, Kept, history
<1>6. CASE InvokeRead
    BY <1>6 DEF InvokeRead, Kept
<1>7. CASE InvokeGet
    BY <1>7 DEF InvokeGet, Kept
<1>8. CASE InvokeSet
    <2>1. Creator \in boot.read
        BY <1>8 DEF InvokeSet, Booting
    <2>2. \A r \in Req : req'[r].pc = "idle"
        BY <1>8 DEF InvokeSet, Shape, Active
    <2>3. filled' => Creator \in cached'
        BY <1>8, <2>1 DEF InvokeSet, Outcomes, Kept
    <2>4. QED
        BY <2>2, <2>3 DEF Kept
<1>9. CASE UNCHANGED vars
    BY <1>9 DEF vars, history, Kept
<1>10. QED
    BY <1>1, <1>2, <1>3, <1>4, <1>5, <1>6, <1>7, <1>8, <1>9 DEF Next

-----------------------------------------------------------------------------
(* The restart *)

LEMMA BootingStep ==
    ASSUME TypeOK, TypeOK', Shape, Kept, Booting, \A u \in User : Tracked(u), [Next]_vars
    PROVE  Booting'
<1>1. ASSUME NEW r \in Req, RequestStep(r) PROVE Booting'
    <2>1. CASE Active(r)
        <3>1. app = "up" /\ app' = app
            BY <1>1, <2>1 DEF Shape, RequestStep, Create, Ask, CacheGet, CacheSet, Store,
                              ServiceAdd, UndoCache, UndoInsert, appVars
        <3>2. QED
            BY <3>1 DEF Booting
    <2>2. CASE ~Active(r)
        <3>1. app = "up" /\ app' = app
            BY <1>1, <2>2 DEF RequestStep, Create, Ask, CacheGet, CacheSet, Store,
                              ServiceAdd, UndoCache, UndoInsert, appVars, Active
        <3>2. QED
            BY <3>1 DEF Booting
    <2>3. QED
        BY <2>1, <2>2
<1>2. CASE MarkDeleted
    BY <1>2 DEF MarkDeleted, Booting, appVars
<1>3. CASE DropKey
    BY <1>3 DEF DropKey, Booting, appVars, Shape
<1>4. CASE Crash
    <2>1. app' = "down" /\ UNCHANGED <<timer, members, uninvited>>
        BY <1>4 DEF Crash
    <2>2. ASSUME timer = "live", cached' # {}, NEW u \in User \ tangled' PROVE Agrees(u)'
        <3>1. cached' = cached /\ cached # {} /\ u \notin tangled /\ ~Busy(u)
            BY <1>4, <2>2 DEF Crash
        <3>2. Agrees(u)
            BY <2>2, <3>1 DEF Tracked, Booting
        <3>3. QED
            BY <2>1, <3>1, <3>2 DEF Agrees
    <2>3. QED
        BY <2>1, <2>2 DEF Booting
<1>5. CASE Restart
    BY <1>5 DEF Restart, Booting, Agrees, history
<1>6. CASE InvokeRead
    BY <1>6 DEF InvokeRead, InvokeFails, Serve, Booting, Shape, Agrees, TypeOK
<1>7. CASE InvokeGet
    BY <1>7 DEF InvokeGet, InvokeFails, Serve, Booting, Agrees, TypeOK
<1>8. CASE InvokeSet
    BY <1>8 DEF InvokeSet, InvokeFails, Serve, Booting
<1>9. CASE UNCHANGED vars
    BY <1>9 DEF vars, appVars, history, Booting, Agrees
<1>10. QED
    BY <1>1, <1>2, <1>3, <1>4, <1>5, <1>6, <1>7, <1>8, <1>9 DEF Next

-----------------------------------------------------------------------------
(* The key of a deleted timer *)

LEMMA ForgottenStep ==
    ASSUME TypeOK, TypeOK', Shape, Booting, Forgotten, [Next]_vars
    PROVE  Forgotten'
<1>1. ASSUME NEW r \in Req, RequestStep(r) PROVE Forgotten'
    <2>1. \A q \in Req \ {r} : req'[q] = req[q]
        BY <1>1, OthersStay
    <2>2. CASE Create(r)
        BY <2>2 DEF Create, Forgotten
    <2>3. ASSUME NEW u \in User, NEW o \in {"subscribe", "unsubscribe"}, Ask(r, o, u)
          PROVE  Forgotten'
        BY <2>3 DEF Ask, Forgotten
    <2>4. ASSUME Active(r), UNCHANGED <<timer, notice>>, leftover => leftover' PROVE Forgotten'
        BY <2>4 DEF Forgotten
    <2>5. CASE CacheGet(r)
        BY <2>4, <2>5 DEF CacheGet, Active
    <2>6. CASE CacheSet(r)
        <3>1. Active(r) /\ UNCHANGED <<timer, notice>>
            BY <2>6 DEF CacheSet, Active
        <3>2. leftover => leftover'
            BY <2>6 DEF CacheSet
        <3>3. QED
            BY <2>4, <3>1, <3>2
    <2>7. CASE Store(r)
        BY <2>4, <2>7 DEF Store, Active
    <2>8. CASE ServiceAdd(r)
        BY <2>4, <2>8 DEF ServiceAdd, Active, history
    <2>9. CASE UndoCache(r)
        BY <2>4, <2>9 DEF UndoCache, Active
    <2>10. CASE UndoInsert(r)
        <3>1. /\ Active(r) /\ req[r].pc = "unmark" /\ app = "up"
              /\ IF req[r].op = "create" THEN Alone(r) ELSE Other(r)
            BY <2>10 DEF UndoInsert, Active, Shape
        <3>2. Alone(r)
            BY <3>1 DEF Other
        <3>3. cached = {} \/ leftover
            BY <3>1, <3>2 DEF Alone
        <3>4. \A q \in Req : ~Active(q)'
            BY <2>1, <2>10, <3>2, FinishIs DEF UndoInsert, Alone, Active, Idle
        <3>5. UNCHANGED <<cached, leftover, app>>
            BY <2>10 DEF UndoInsert, appVars
        <3>6. QED
            BY <3>1, <3>3, <3>4, <3>5 DEF Forgotten
    <2>11. QED
        BY <1>1, <2>2, <2>3, <2>5, <2>6, <2>7, <2>8, <2>9, <2>10 DEF RequestStep
<1>2. CASE MarkDeleted
    BY <1>2 DEF MarkDeleted, Forgotten
<1>3. CASE DropKey
    BY <1>3 DEF DropKey, Forgotten, appVars, Active
<1>4. CASE Crash
    BY <1>4 DEF Crash, Forgotten, Active, Idle, TypeOK
<1>5. CASE Restart
    BY <1>5 DEF Restart, Forgotten, Active, history
<1>6. CASE InvokeRead
    BY <1>6 DEF InvokeRead, InvokeFails, Serve, Forgotten, Active
<1>7. CASE InvokeGet
    BY <1>7 DEF InvokeGet, InvokeFails, Serve, Forgotten, Active
<1>8. CASE InvokeSet
    BY <1>8 DEF InvokeSet, Serve, Forgotten, Active
<1>9. CASE UNCHANGED vars
    BY <1>9 DEF vars, appVars, history, Forgotten, Active
<1>10. QED
    BY <1>1, <1>2, <1>3, <1>4, <1>5, <1>6, <1>7, <1>8, <1>9 DEF Next

-----------------------------------------------------------------------------
(* What the stores say of each user *)

\* A step of another user's request that does not touch what is stored of v.
LEMMA TrackedElse ==
    ASSUME NEW r \in Req, NEW v \in User, Tracked(v),
           app = "up", timer = "live", v \notin tangled,
           \A q \in Req \ {r} : req'[q] = req[q],
           v \in cached' <=> v \in cached,
           v \in members' <=> v \in members,
           v \in uninvited' <=> v \in uninvited,
           Active(r) => req[r].user # v,
           Active(r)' => req'[r].user # v
    PROVE  Tracked(v)'
<1>1. Busy(v)' <=> Busy(v)
    BY DEF Busy, Active
<1>2. \A q \in Req : Active(q)' /\ req'[q].user = v =>
          q # r /\ req'[q] = req[q] /\ Active(q) /\ req[q].user = v
    BY DEF Active
<1>3. Agrees(v)' <=> Agrees(v)
    BY DEF Agrees
<1>4. ASSUME NEW q \in Req, Active(q)', req'[q].user = v PROVE Phase(q)'
    <2>1. req'[q] = req[q] /\ req[q].user = v /\ Phase(q)
        BY <1>2, <1>4 DEF Tracked
    <2>2. QED
        BY <1>3, <2>1 DEF Phase, Agrees
<1>5. QED
    BY <1>1, <1>2, <1>3, <1>4 DEF Tracked

\* A step of u's own request.
LEMMA TrackedOwn ==
    ASSUME NEW r \in Req, NEW u \in User, Tracked(u),
           app = "up", timer = "live", u \notin tangled,
           \A q \in Req \ {r} : req'[q] = req[q],
           Active(r), req[r].user = u,
           ~Active(r)' => Agrees(u)',
           Active(r)' => req'[r].user = u /\ Phase(r)'
    PROVE  Tracked(u)'
<1>1. \A q \in Req \ {r} : ~(Active(q)' /\ req'[q].user = u)
    BY DEF Tracked, Active
<1>2. ~Busy(u)' => ~Active(r)'
    BY DEF Busy
<1>3. QED
    BY <1>1, <1>2 DEF Tracked

LEMMA TrackedCacheGet ==
    ASSUME TypeOK, Shape, NEW v \in User, Tracked(v), NEW r \in Req, CacheGet(r),
           \A q \in Req \ {r} : req'[q] = req[q],
           app = "up", timer = "live", v \notin tangled'
    PROVE  Tracked(v)'
<1> DEFINE u == req[r].user
<1>1. /\ Active(r) /\ v \notin tangled
      /\ UNCHANGED <<timer, members, cached, app, uninvited>>
    BY DEF CacheGet, Active, appVars
<1>2. CacheFails(r) => IF req[r].op = "create"
                       THEN req'[r].pc = "unmark" /\ req'[r].user = u /\ req'[r].op = "create"
                       ELSE ~Active(r)'
    BY GotoIs, FinishIs DEF CacheFails, Active, Idle
<1>3. Active(r)' => req'[r].user = u
    BY <1>2, GetIs, FinishIs DEF CacheFails, Active, Idle
<1>4. CASE u # v
    BY <1>1, <1>3, <1>4, TrackedElse
<1>5. CASE u = v
    <2>1. Phase(r)
        BY <1>1, <1>5 DEF Tracked
    <2>2. CASE req[r].op = "create"
        <3>1. req'[r].pc \in {"unmark", "set"} /\ req'[r].op = "create"
            <4>1. req[r].pc = "get"
                BY <1>1, <2>2 DEF Shape, Alone, CacheGet
            <4>2. QED
                BY <1>2, <2>2, <4>1, GetIs DEF Undoing
        <3>2. Active(r)' /\ Phase(r)'
            BY <3>1 DEF Phase, Active
        <3>3. QED
            BY <1>1, <1>3, <1>5, <3>2, TrackedOwn
    <2>3. CASE req[r].op # "create" /\ CacheFails(r)
        <3>1. ~Active(r)'
            BY <1>2, <2>3
        <3>2. Agrees(u)
            <4>1. CASE req[r].pc = "get"
                BY <2>1, <2>3, <4>1 DEF Phase
            <4>2. CASE req[r].pc = "undo.get"
                <5>1. CASE tangled' = tangled \cup {u}
                    BY <1>5, <5>1
                <5>2. CASE Refused(r)
                    BY <2>1, <2>3, <4>2, <5>2 DEF Phase, Refused, Adds, Undoing, TypeOK, Requests
                <5>3. CASE ~Refused(r) /\ tangled' # tangled \cup {u}
                    <6>1. req' = [req EXCEPT ![r] = [@ EXCEPT !.pc = "undo.set", !.got = cached]]
                        BY <4>2, <5>3 DEF CacheGet, Undoing
                    <6>2. req'[r].pc = "undo.set"
                        BY <6>1 DEF TypeOK, Requests
                    <6>3. QED
                        BY <3>1, <6>2 DEF Active
                <5>4. QED
                    BY <5>1, <5>2, <5>3
            <4>3. QED
                BY <4>1, <4>2 DEF CacheGet
        <3>3. Agrees(v)'
            BY <1>1, <1>5, <3>2 DEF Agrees
        <3>4. QED
            BY <1>1, <1>5, <3>1, <3>3, TrackedOwn
    <2>4. CASE req[r].op # "create" /\ ~CacheFails(r)
        <3>1. /\ req'[r].pc = IF Undoing(r) THEN "undo.set" ELSE "set"
              /\ req'[r].op = req[r].op
              /\ req'[r].user = u
              /\ ~Refused(r)
            BY <2>4, GetIs
        <3>2. req[r].op \in {"subscribe", "unsubscribe"} /\ req[r].pc \in {"get", "undo.get"}
            BY <2>4 DEF TypeOK, Requests, CacheGet
        <3>3. Phase(r)'
            BY <1>1, <2>1, <3>1, <3>2 DEF Phase, Agrees, Refused, Adds, Undoing
        <3>4. QED
            BY <1>1, <1>3, <1>5, <3>1, <3>3, TrackedOwn DEF Active
    <2>5. QED
        BY <2>2, <2>3, <2>4
<1>6. QED
    BY <1>4, <1>5

LEMMA TrackedCacheSet ==
    ASSUME TypeOK, Shape, NEW v \in User, Tracked(v), NEW r \in Req, CacheSet(r),
           \A q \in Req \ {r} : req'[q] = req[q],
           app = "up", timer = "live", v \notin tangled'
    PROVE  Tracked(v)'
<1> DEFINE u == req[r].user
<1>1. /\ Active(r) /\ v \notin tangled
      /\ UNCHANGED <<timer, members, app, uninvited>>
    BY DEF CacheSet, Active, appVars
<1>2. Active(r)' => req'[r].user = u
    BY GotoIs, FinishIs DEF CacheSet, CacheFails, Active, Idle
<1>3. CASE u # v
    <2>1. v \notin Clobbered(r)
        BY DEF CacheSet
    <2>2. v \in cached' <=> v \in cached
        BY <1>3, <2>1 DEF Clobbered
    <2>3. QED
        BY <1>1, <1>2, <1>3, <2>2, TrackedElse
<1>4. CASE u = v
    <2>1. Phase(r)
        BY <1>1, <1>4 DEF Tracked
    <2>2. cached' = Written(r)
        BY <1>4 DEF CacheSet
    <2>3. u \in cached' <=> Adds(r)
        BY <2>2 DEF Written
    <2>4. CASE Undoing(r)
        <3>0. Finish(r)
            <4>1. tangled' # tangled \cup Clobbered(r) \cup {req[r].user}
                BY <1>4
            <4>2. QED
                BY <2>4, <4>1 DEF CacheSet
        <3>1. ~Active(r)'
            BY <3>0, FinishIs DEF Active, Idle
        <3>2. req[r].op # "create"
            BY <1>1, <2>4 DEF Shape, Alone, Undoing
        <3>3. Agrees(v)'
            BY <1>1, <1>4, <2>1, <2>3, <2>4, <3>2 DEF Agrees, Phase, Adds, Undoing, CacheSet, TypeOK, Requests
        <3>4. QED
            BY <1>1, <1>4, <3>1, <3>3, TrackedOwn
    <2>5. CASE ~Undoing(r) /\ req[r].op = "create"
        <3>1. req'[r].pc = "service" /\ req'[r].op = "create" /\ req'[r].user = u
            BY <1>4, <2>5, GotoIs DEF CacheSet
        <3>2. u \in cached' /\ u \in members'
            BY <1>1, <2>3, <2>5 DEF Adds, Shape, Alone
        <3>3. Phase(r)'
            BY <3>1, <3>2 DEF Phase, Agrees
        <3>4. QED
            BY <1>1, <1>4, <3>1, <3>3, TrackedOwn DEF Active
    <2>6. CASE ~Undoing(r) /\ req[r].op # "create"
        <3>1. req'[r].pc = "store" /\ req'[r].op = req[r].op /\ req'[r].user = u
            BY <1>4, <2>6, GotoIs DEF CacheSet
        <3>2. req[r].op \in {"subscribe", "unsubscribe"} /\ req[r].pc = "set"
            BY <2>6 DEF TypeOK, Requests, CacheSet, Undoing
        <3>3. Phase(r)'
            BY <1>1, <2>1, <2>3, <2>6, <3>1, <3>2 DEF Phase, Adds
        <3>4. QED
            BY <1>1, <1>4, <3>1, <3>3, TrackedOwn DEF Active
    <2>7. QED
        BY <2>4, <2>5, <2>6
<1>5. QED
    BY <1>3, <1>4

LEMMA TrackedStore ==
    ASSUME TypeOK, Shape, NEW v \in User, Tracked(v), NEW r \in Req, Store(r),
           \A q \in Req \ {r} : req'[q] = req[q],
           app = "up", timer = "live", v \notin tangled'
    PROVE  Tracked(v)'
<1> DEFINE u == req[r].user
<1>1. /\ Active(r) /\ v \notin tangled /\ req[r].pc = "store"
      /\ UNCHANGED <<timer, cached, app>>
    BY DEF Store, Active, appVars
<1>2. Active(r)' => req'[r].user = u
    BY GotoIs, FinishIs DEF Store, Active, Idle
<1>3. CASE u # v
    <2>1. v \in members' <=> v \in members
        BY <1>3 DEF Store, Outcomes
    <2>2. v \in uninvited' <=> v \in uninvited
        BY <1>3 DEF Store
    <2>3. QED
        BY <1>1, <1>2, <1>3, <2>1, <2>2, TrackedElse
<1>4. CASE u = v
    <2>1. Phase(r) /\ req[r].op \in {"subscribe", "unsubscribe"}
        BY <1>1, <1>4 DEF Tracked, Shape, Alone, TypeOK, Requests
    <2>2. CASE Finish(r)
        <3>1. ~Active(r)'
            BY <2>2, FinishIs DEF Active, Idle
        <3>2. req'[r].pc # "undo.get"
            BY <3>1, <2>2, FinishIs DEF Idle
        <3>3. ~Goto(r, "undo.get")
            BY <3>2, GotoIs
        <3>4. u \in members' <=> req[r].op = "subscribe"
            BY <2>1, <3>3 DEF Store
        <3>5. Agrees(v)'
            BY <1>1, <1>4, <2>1, <3>4 DEF Agrees, Phase
        <3>6. QED
            BY <1>1, <1>4, <3>1, <3>5, TrackedOwn
    <2>3. CASE Goto(r, "undo.get")
        <3>1. req'[r].pc = "undo.get" /\ req'[r].op = req[r].op /\ req'[r].user = u
            BY <2>3, GotoIs
        <3>2. req'[r].pc # "idle"
            BY <3>1
        <3>3. ~Finish(r)
            BY <3>2, FinishIs DEF Idle
        <3>4. ASSUME req[r].op = "subscribe" PROVE Phase(r)'
            <4>1. u \notin members /\ u \in cached
                BY <1>1, <2>1, <3>4 DEF Phase
            <4>2. members' = members
                BY <1>4, <3>3, <3>4, <4>1 DEF Store
            <4>3. QED
                BY <1>1, <3>1, <3>4, <4>1, <4>2 DEF Phase
        <3>5. ASSUME req[r].op = "unsubscribe" PROVE Phase(r)'
            <4>1. u \notin cached
                BY <1>1, <2>1, <3>5 DEF Phase
            <4>2. members' = members
                BY <1>4, <3>3, <3>5 DEF Store
            <4>3. u \in members' \/ u \in uninvited'
                BY <3>3, <3>5, <4>2 DEF Store
            <4>4. QED
                BY <1>1, <3>1, <3>5, <4>1, <4>3 DEF Phase
        <3>6. QED
            BY <1>1, <1>4, <2>1, <3>1, <3>4, <3>5, TrackedOwn DEF Active
    <2>4. QED
        BY <2>2, <2>3 DEF Store
<1>5. QED
    BY <1>3, <1>4

LEMMA TrackedCreate ==
    ASSUME TypeOK, Shape, NEW v \in User, NEW r \in Req,
           \A q \in Req \ {r} : req'[q] = req[q],
           Create(r), v \notin tangled'
    PROVE  Tracked(v)'
<1>1. \A q \in Req : ~Active(q)
    BY DEF Create, Shape
<1>2. cached' = {} /\ members' = {Creator}
    BY DEF Create, Shape
<1>3. \A q \in Req \ {r} : ~Active(q)'
    BY <1>1 DEF Active
<1>4. CASE Begin(r, "create", Creator)
    <2>1. req'[r].pc = "get" /\ req'[r].op = "create" /\ req'[r].user = Creator
        BY <1>4, BeginIs
    <2>2. Phase(r)' /\ Active(r)'
        BY <2>1 DEF Phase, Active
    <2>3. ~Busy(v)' => v # Creator
        BY <2>1, <2>2 DEF Busy
    <2>4. QED
        BY <1>2, <1>3, <2>2, <2>3 DEF Tracked, Agrees
<1>5. CASE tangled' = tangled \cup {Creator} /\ UNCHANGED req
    <2>1. \A q \in Req : ~Active(q)'
        BY <1>1, <1>5 DEF Active
    <2>2. QED
        BY <1>2, <1>5, <2>1 DEF Tracked, Agrees
<1>6. QED
    BY <1>4, <1>5 DEF Create

LEMMA TrackedAsk ==
    ASSUME TypeOK, NEW v \in User, Tracked(v), NEW r \in Req,
           NEW u \in User, NEW o \in {"subscribe", "unsubscribe"}, Ask(r, o, u),
           \A q \in Req \ {r} : req'[q] = req[q],
           v \notin tangled'
    PROVE  Tracked(v)'
<1>1. /\ ~Active(r) /\ v \notin tangled /\ app = "up" /\ timer = "live"
      /\ UNCHANGED <<timer, cached, members, app, uninvited>>
    BY DEF Ask, appVars
<1>2. req'[r].pc = "get" /\ req'[r].op = o /\ req'[r].user = u
    BY BeginIs DEF Ask
<1>3. CASE u # v
    BY <1>1, <1>2, <1>3, TrackedElse
<1>4. CASE u = v
    <2>1. ~Busy(u)
        BY <1>4 DEF Ask
    <2>2. Agrees(u)'
        BY <1>1, <1>4, <2>1 DEF Tracked, Agrees
    <2>3. Phase(r)'
        BY <1>2, <2>2 DEF Phase
    <2>4. Busy(u)' /\ \A q \in Req : Active(q)' /\ req'[q].user = u => q = r
        BY <1>2, <2>1 DEF Busy, Active
    <2>5. QED
        BY <1>4, <2>3, <2>4 DEF Tracked
<1>5. QED
    BY <1>3, <1>4

LEMMA TrackedEnd ==
    ASSUME TypeOK, Shape, NEW v \in User, Tracked(v), NEW r \in Req,
           ServiceAdd(r) \/ UndoCache(r) \/ UndoInsert(r),
           \A q \in Req \ {r} : req'[q] = req[q],
           app = "up", timer = "live", timer' = "live", v \notin tangled'
    PROVE  Tracked(v)'
<1>1. /\ Active(r) /\ v \notin tangled /\ req[r].pc \in {"service", "uncache", "unmark"}
      /\ UNCHANGED <<app, members, uninvited>>
    BY DEF ServiceAdd, UndoCache, UndoInsert, Active, appVars, history
<1>2. Alone(r) /\ req[r].op = "create" /\ req[r].user = Creator /\ members = {Creator}
    BY <1>1 DEF Shape, Alone, Other
<1>3. Active(r)' => req'[r].user = Creator
    BY <1>2, GotoIs, FinishIs DEF ServiceAdd, UndoCache, UndoInsert, Active, Idle
<1>4. CASE v # Creator
    <2>1. ~Busy(v)
        BY <1>2, <1>4 DEF Alone, Busy
    <2>2. v \notin cached /\ v \notin cached'
        BY <1>1, <1>2, <1>4, <2>1 DEF Alone, Tracked, Agrees, ServiceAdd, UndoCache, UndoInsert, Outcomes
    <2>3. QED
        BY <1>1, <1>2, <1>3, <1>4, <2>2, TrackedElse
<1>5. CASE v = Creator
    <2>1. CASE ServiceAdd(r)
        <3>1. Agrees(Creator)' /\ (Active(r)' => req'[r].pc = "uncache" /\ req'[r].op = "create")
            BY <1>1, <1>2, <1>5, <2>1, GotoIs, FinishIs DEF ServiceAdd, Tracked, Phase, Agrees, Active, Idle
        <3>2. QED
            BY <1>1, <1>2, <1>3, <1>5, <3>1, TrackedOwn DEF Phase
    <2>2. CASE UndoCache(r)
        <3>1. req'[r].pc = "unmark" /\ req'[r].op = "create"
            BY <1>2, <2>2, GotoIs DEF UndoCache
        <3>2. QED
            BY <1>1, <1>2, <1>3, <1>5, <3>1, TrackedOwn DEF Phase, Active
    <2>3. CASE UndoInsert(r)
        BY <1>5, <2>3 DEF UndoInsert
    <2>4. QED
        BY <2>1, <2>2, <2>3
<1>6. QED
    BY <1>4, <1>5

LEMMA TrackedStep ==
    ASSUME TypeOK, TypeOK', Shape, Kept, Booting, NEW v \in User, Tracked(v), [Next]_vars
    PROVE  Tracked(v)'
<1> SUFFICES ASSUME app' = "up", timer' = "live", v \notin tangled' PROVE Tracked(v)'
    BY DEF Tracked
<1>1. ASSUME NEW r \in Req, RequestStep(r) PROVE Tracked(v)'
    <2>1. \A q \in Req \ {r} : req'[q] = req[q]
        BY <1>1, OthersStay
    <2>2. CASE Create(r)
        BY <2>1, <2>2, TrackedCreate
    <2>3. ASSUME NEW u \in User, Ask(r, "subscribe", u) \/ Ask(r, "unsubscribe", u)
          PROVE  Tracked(v)'
        BY <2>1, <2>3, TrackedAsk
    <2>4. CASE CacheGet(r)
        BY <2>1, <2>4, TrackedCacheGet DEF CacheGet, appVars
    <2>5. CASE CacheSet(r)
        BY <2>1, <2>5, TrackedCacheSet DEF CacheSet, appVars
    <2>6. CASE Store(r)
        BY <2>1, <2>6, TrackedStore DEF Store, appVars
    <2>7. CASE ServiceAdd(r) \/ UndoCache(r) \/ UndoInsert(r)
        <3>1. app = "up"
            BY <2>7 DEF ServiceAdd, UndoCache, UndoInsert, appVars
        <3>2. timer = "live"
            BY <2>7 DEF ServiceAdd, UndoCache, UndoInsert, Outcomes
        <3>3. QED
            BY <2>1, <2>7, <3>1, <3>2, TrackedEnd
    <2>8. QED
        BY <1>1, <2>2, <2>3, <2>4, <2>5, <2>6, <2>7 DEF RequestStep
<1>2. CASE MarkDeleted
    BY <1>2 DEF MarkDeleted
<1>3. CASE DropKey
    BY <1>3 DEF DropKey, Shape
<1>4. CASE Crash
    BY <1>4 DEF Crash
<1>5. CASE Restart
    BY <1>5 DEF Restart
<1>6. ASSUME app # "up", \A r \in Req : ~Active(r)', Agrees(v)' PROVE Tracked(v)'
    BY <1>6 DEF Tracked
<1>7. CASE InvokeRead
    <2>1. app # "up" /\ \A r \in Req : ~Active(r)'
        BY <1>7 DEF InvokeRead, Shape, Active
    <2>2. InvokeFails /\ timer = "live" /\ UNCHANGED <<cached, members, uninvited>>
        BY <1>7 DEF InvokeRead
    <2>3. filled /\ tangled' = tangled
        BY <2>2 DEF InvokeFails
    <2>4. Agrees(v)'
        BY <2>1, <2>2, <2>3 DEF Kept, Booting, Agrees
    <2>5. QED
        BY <1>6, <2>1, <2>4
<1>8. CASE InvokeGet
    <2>1. app # "up" /\ \A r \in Req : ~Active(r)'
        BY <1>8 DEF InvokeGet, Shape, Active
    <2>2. UNCHANGED <<timer, cached, members, uninvited>>
        BY <1>8 DEF InvokeGet
    <2>3. cached # {} /\ tangled' = tangled
        BY <1>8 DEF InvokeGet, InvokeFails, Kept
    <2>4. Agrees(v)'
        BY <2>1, <2>2, <2>3 DEF Booting, Agrees
    <2>5. QED
        BY <1>6, <2>1, <2>4
<1>9. CASE InvokeSet
    <2>1. app # "up" /\ \A r \in Req : ~Active(r)'
        BY <1>9 DEF InvokeSet, Shape, Active
    <2>2. boot.read = members /\ boot.got = cached /\ UNCHANGED <<timer, members>>
        BY <1>9 DEF InvokeSet, Booting
    <2>3. CASE cached = {} /\ cached' = boot.got \cup boot.read
        BY <1>6, <2>1, <2>2, <2>3 DEF Agrees
    <2>4. CASE cached # {}
        <3>1. v \notin tangled
            BY <1>9, <2>2, <2>4 DEF InvokeSet, InvokeFails
        <3>2. Agrees(v)
            BY <2>1, <2>2, <2>4, <3>1 DEF Booting
        <3>3. Agrees(v)'
            BY <1>9, <2>2, <3>2 DEF InvokeSet, Outcomes, Agrees
        <3>4. QED
            BY <1>6, <2>1, <3>3
    <2>5. CASE cached = {} /\ InvokeFails
        BY <2>5 DEF InvokeFails, Kept
    <2>6. QED
        BY <1>9, <2>3, <2>4, <2>5 DEF InvokeSet
<1>10. CASE UNCHANGED vars
    BY <1>10 DEF vars, appVars, history, Tracked, Phase, Agrees, Busy, Active
<1>11. QED
    BY <1>1, <1>2, <1>3, <1>4, <1>5, <1>7, <1>8, <1>9, <1>10 DEF Next

-----------------------------------------------------------------------------
(* Theorems *)

LEMMA IInvStep == IInv /\ [Next]_vars => IInv'
<1> SUFFICES ASSUME IInv, [Next]_vars PROVE IInv'
    OBVIOUS
<1>1. TypeOK /\ Shape /\ Kept /\ Booting /\ Forgotten /\ \A u \in User : Tracked(u)
    BY DEF IInv
<1>2. TypeOK'
    BY <1>1, TypeStep
<1>3. Shape'
    BY <1>1, <1>2, ShapeStep
<1>4. Kept'
    BY <1>1, <1>2, KeptStep
<1>5. Booting'
    BY <1>1, <1>2, BootingStep
<1>6. Forgotten'
    BY <1>1, <1>2, ForgottenStep
<1>7. \A u \in User : Tracked(u)'
    BY <1>1, <1>2, TrackedStep
<1>8. QED
    BY <1>2, <1>3, <1>4, <1>5, <1>6, <1>7 DEF IInv

LEMMA SpecIInv == Spec => []IInv
    BY InitIInv, IInvStep, PTL DEF Spec

\* Every variable keeps its type.
THEOREM TypeCorrect == Spec => []TypeOK
<1>1. IInv => TypeOK
    BY DEF IInv
<1>2. QED
    BY <1>1, SpecIInv, PTL

\* The creator, once in the set, is lost by no order of the reads and writes
\* of any number of requests, and by no failing call, before the key goes.
THEOREM CreatorStays == Spec => []CreatorCached
<1>1. IInv => CreatorCached
    BY DEF IInv, Kept, CreatorCached
<1>2. QED
    BY <1>1, SpecIInv, PTL

\* The cache and the rows agree on every user without a request in progress
\* whom no overlap, no lost answer and no failure that is not undone has touched;
\* only the user whose Unsubscribe failed although he was no subscriber is in
\* the cache without a row, because the failure is undone.
THEOREM StoresAgree == Spec => []CacheMatchesStorage
<1>1. IInv => CacheMatchesStorage
    BY DEF IInv, Tracked, CacheMatchesStorage, Agrees
<1>2. QED
    BY <1>1, SpecIInv, PTL

\* A deleted timer whose key was dropped without a request in progress has
\* nothing in the cache, ever after.
THEOREM KeyStaysDropped == Spec => []DeletedForgotten
<1>1. IInv => DeletedForgotten
    BY DEF IInv, Forgotten, DeletedForgotten
<1>2. QED
    BY <1>1, SpecIInv, PTL
=============================================================================
